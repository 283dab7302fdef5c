---------------------------- MODULE ThreadStart ----------------------------
(***************************************************************************)
(* The life of a thread: the bootstrap lock that hands the callable from   *)
(* start_new_thread to the new thread, the execution context each thread   *)
(* finds under its identifier (identifiers are reused by the system), and  *)
(* the dictionaries of thread._local objects.                              *)
(*                                                                         *)
(* A thread is named for its one life, and its execution context and the   *)
(* callable it has to run are named after it.  pc[t] is                    *)
(*   "unborn", "created" (by pthread_create), "run" (the program), "gone", *)
(*   "lost" (the process is a child that was forked without it)            *)
(*   "locking", "locked", "launching", "failed"    in start_new_thread     *)
(*   "releasing"                                   in bootstrapper.release *)
(***************************************************************************)
EXTENDS Integers, Sequences, FiniteSets

CONSTANTS Thread, Main,
          Ident,        \* identifiers of the system's threads
          MainIdent,    \* the one the main thread has
          Local,        \* thread._local objects
          InitRaises,   \* which __init__ of a subclass of _local may raise:
                        \* one whose object is "cached", or "uncached", for it
          MaxTries,     \* bound on the dictionaries made per object and thread
          IdentsReused  \* a child's new threads may get lost threads' identifiers

NoOne == "no one"

ASSUME ThreadConstants ==
    /\ Main \in Thread /\ NoOne \notin Thread
    /\ Ident \subseteq Nat \ {0} /\ MainIdent \in Ident
    /\ InitRaises \subseteq {"cached", "uncached"}
    /\ MaxTries \in Nat \ {0}
    /\ IdentsReused \in BOOLEAN

VARIABLES
    cur,            \* the thread that holds the GIL
    pc, ident,      \* ident: 0 before and after the thread's life
    bootlock,       \* bootstrapper.lock is taken
    callable,       \* bootstrapper.w_callable
    started,        \* which thread a start_new_thread in progress is for
    took,           \* the callable a thread has found in bootstrapper
    valuedict, mainident, recentkey, recentvalue,   \* OSThreadLocals
    dicts,          \* Local.dicts: the number of the dictionary, 0 for none
    last,           \* Local.last_ec and last_dict
    tries,          \* dictionaries made so far
    ready,          \* dictionaries whose __init__ has returned
    registered,     \* ExecutionContext._thread_local_objs
    init            \* the __init__ calls a thread is in

threads == <<pc, ident>>
boot    == <<bootlock, callable, started, took>>
values  == <<valuedict, mainident, recentkey, recentvalue>>
locals  == <<dicts, last, tries, ready, registered, init>>
vars == <<cur, pc, ident, bootlock, callable, started, took, valuedict, mainident,
          recentkey, recentvalue, dicts, last, tries, ready, registered, init>>

NoLast == [ec |-> NoOne, of |-> NoOne, dict |-> 0]

(* The main thread runs, and has its execution context.                    *)
Init ==
    /\ cur = Main
    /\ pc = [t \in Thread |-> IF t = Main THEN "run" ELSE "unborn"]
    /\ ident = [t \in Thread |-> IF t = Main THEN MainIdent ELSE 0]
    /\ bootlock = FALSE
    /\ callable = NoOne
    /\ started = [t \in Thread |-> NoOne]
    /\ took = [t \in Thread |-> NoOne]
    /\ valuedict = [j \in Ident |-> IF j = MainIdent THEN Main ELSE NoOne]
    /\ mainident = MainIdent
    /\ recentkey = MainIdent /\ recentvalue = Main
    /\ dicts = [l \in Local |-> [t \in Thread |-> 0]]
    /\ last = [l \in Local |-> NoLast]
    /\ tries = [l \in Local |-> [t \in Thread |-> 0]]
    /\ ready = {}
    /\ registered = [t \in Thread |-> {}]
    /\ init = [t \in Thread |-> <<>>]

-----------------------------------------------------------------------------
(* The GIL                                                                 *)

Goto(t, where) == pc' = [pc EXCEPT ![t] = where]

take_gil(t) ==
    /\ cur = NoOne
    /\ pc[t] \in {"created", "run", "locked", "failed"}
    /\ cur' = t
    /\ UNCHANGED <<threads, boot, values, locals>>

release_gil(t) ==
    /\ cur = t /\ pc[t] = "run"
    /\ cur' = NoOne
    /\ UNCHANGED <<threads, boot, values, locals>>

-----------------------------------------------------------------------------
(* start_new_thread and Bootstrapper                                       *)

(* Bootstrapper.acquire: the GIL is released while waiting for the lock.   *)
start_new_thread(t, u) ==
    /\ cur = t /\ pc[t] = "run"
    /\ pc[u] = "unborn" /\ \A v \in Thread : started[v] # u
    /\ started' = [started EXCEPT ![t] = u]
    /\ Goto(t, "locking") /\ cur' = NoOne
    /\ UNCHANGED <<ident, bootlock, callable, took, values, locals>>

lock_acquired(t) ==
    /\ pc[t] = "locking"
    /\ ~bootlock /\ bootlock' = TRUE
    /\ Goto(t, "locked")
    /\ UNCHANGED <<cur, ident, callable, started, took, values, locals>>

(* Defect: the lock is released as soon as the thread is launched.         *)
launch_Unlocks(t) ==
    /\ cur = t /\ pc[t] = "locked"
    /\ callable' = started[t]
    /\ bootlock' = FALSE
    /\ Goto(t, "launching") /\ cur' = NoOne
    /\ UNCHANGED <<ident, started, took, values, locals>>

(* The arguments are stored; c_thread_start releases the GIL.              *)
launch(t) ==
    /\ cur = t /\ pc[t] = "locked"
    /\ callable' = started[t]
    /\ Goto(t, "launching") /\ cur' = NoOne
    /\ UNCHANGED <<ident, bootlock, started, took, values, locals>>

(* pthread_create: a thread with an identifier no living thread has.       *)
RPyThreadStart(t) ==
    /\ pc[t] = "launching"
    /\ LET u == started[t] IN
       \/ \E i \in Ident :
            /\ \A v \in Thread : ident[v] # i
            /\ ident' = [ident EXCEPT ![u] = i]
            /\ pc' = [pc EXCEPT ![u] = "created", ![t] = "run"]
       \/ Goto(t, "failed") /\ UNCHANGED ident
    /\ started' = [started EXCEPT ![t] = NoOne]
    /\ UNCHANGED <<cur, bootlock, callable, took, values, locals>>

(* The new thread takes the callable; or the starter cleans up after a     *)
(* failure.  Both call release, and Lock.release releases the GIL.         *)
bootstrap(t) ==
    /\ cur = t /\ pc[t] \in {"created", "failed"}
    /\ took' = IF pc[t] = "created" THEN [took EXCEPT ![t] = callable] ELSE took
    /\ callable' = NoOne
    /\ Goto(t, "releasing") /\ cur' = NoOne
    /\ UNCHANGED <<ident, bootlock, started, values, locals>>

lock_released(t) ==
    /\ pc[t] = "releasing"
    /\ bootlock' = FALSE
    /\ Goto(t, "run")
    /\ UNCHANGED <<cur, ident, callable, started, took, values, locals>>

-----------------------------------------------------------------------------
(* OSThreadLocals                                                          *)

getvalue(t) == IF ident[t] = recentkey THEN recentvalue ELSE valuedict[ident[t]]

(* Defects: the minimal cache is left alone; every thread that gets an     *)
(* execution context is taken for the main thread.                         *)
setvalue_Uncached(t, value) ==
    /\ mainident' = IF value # NoOne /\ \A i \in Ident : valuedict[i] = NoOne
                    THEN ident[t] ELSE mainident
    /\ valuedict' = [valuedict EXCEPT ![ident[t]] = value]
    /\ UNCHANGED <<recentkey, recentvalue>>

setvalue_AlwaysMain(t, value) ==
    /\ mainident' = IF value # NoOne THEN ident[t] ELSE mainident
    /\ valuedict' = [valuedict EXCEPT ![ident[t]] = value]
    /\ recentkey' = ident[t]
    /\ recentvalue' = value

setvalue(t, value) ==
    /\ mainident' = IF value # NoOne /\ \A i \in Ident : valuedict[i] = NoOne
                    THEN ident[t] ELSE mainident
    /\ valuedict' = [valuedict EXCEPT ![ident[t]] = value]
    /\ recentkey' = ident[t]
    /\ recentvalue' = value

ismainthread(t) == ident[t] = mainident

(* space.getexecutioncontext; it returns ec.                               *)
getexecutioncontext(t, ec) ==
    \/ /\ getvalue(t) # NoOne
       /\ ec = getvalue(t)
       /\ recentkey' = ident[t] /\ recentvalue' = ec
       /\ UNCHANGED <<valuedict, mainident>>
    \/ /\ getvalue(t) = NoOne
       /\ ec = t
       /\ setvalue(t, t)

Runs(t) == cur = t /\ pc[t] = "run"

(* Almost anything the program does looks up the execution context.        *)
execute(t) ==
    /\ Runs(t)
    /\ \E ec \in Thread : getexecutioncontext(t, ec)
    /\ UNCHANGED <<cur, threads, boot, locals>>

(* Bootstrapper.run ends: leave_thread and thread_is_stopping; then the    *)
(* thread ends, and the system may use its identifier again.  A thread     *)
(* that has run a function has an execution context.                       *)
leave_thread(t) ==
    /\ Runs(t) /\ t # Main /\ init[t] = <<>>
    /\ getvalue(t) # NoOne
    /\ LET ec == getvalue(t)
           mine == registered[ec] IN
       /\ dicts' = [l \in Local |-> IF l \in mine THEN [dicts[l] EXCEPT ![ec] = 0] ELSE dicts[l]]
       /\ last' = [l \in Local |-> IF l \in mine THEN NoLast ELSE last[l]]
       /\ registered' = [registered EXCEPT ![ec] = {}]
    /\ setvalue(t, NoOne)
    /\ Goto(t, "gone") /\ ident' = [ident EXCEPT ![t] = 0]
    /\ cur' = NoOne
    /\ UNCHANGED <<boot, tries, ready, init>>

-----------------------------------------------------------------------------
(* thread._local                                                           *)

Exists(l) == \E t \in Thread : tries[l][t] > 0

(* Defect: the execution context does not learn of the dictionary.         *)
Register_Not(ec, l) == UNCHANGED registered

Register(ec, l) == registered' = [registered EXCEPT ![ec] = @ \cup {l}]

NewDict(ec, l) ==
    /\ tries[l][ec] < MaxTries
    /\ tries' = [tries EXCEPT ![l][ec] = @ + 1]
    /\ dicts' = [dicts EXCEPT ![l][ec] = tries[l][ec] + 1]

(* Defects: last_ec is set and last_dict is not; the number of the next    *)
(* dictionary is cached.                                                   *)
Cache_HalfSet(ec, l, n) == last' = [last EXCEPT ![l].ec = ec]

Cache_Next(ec, l, n) == last' = [last EXCEPT ![l] = [ec |-> ec, of |-> ec, dict |-> n + 1]]

Cache(ec, l, n) == last' = [last EXCEPT ![l] = [ec |-> ec, of |-> ec, dict |-> n]]

Enter(t, l, kind) == init' = [init EXCEPT ![t] = Append(@, [local |-> l, kind |-> kind])]

(* Local.__init__ prepares the creator's dictionary; then the type calls   *)
(* the app-level __init__.                                                 *)
new_local(t, l) ==
    /\ Runs(t) /\ ~Exists(l)
    /\ \E ec \in Thread :
         /\ getexecutioncontext(t, ec)
         /\ NewDict(ec, l)
         /\ Register(ec, l)
         /\ Cache(ec, l, tries[l][ec] + 1)
    /\ Enter(t, l, "new")
    /\ UNCHANGED <<cur, threads, boot, ready>>

(* A thread reaches an object once its creation has ended, or in __init__. *)
Reaches(t, l) ==
    \/ \E n \in 1..Len(init[t]) : init[t][n].local = l
    \/ Exists(l) /\ \A u \in Thread : \A n \in 1..Len(init[u]) :
                       init[u][n] # [local |-> l, kind |-> "new"]

(* Local.getdict, up to the call of __init__ where there is one.           *)
getdict(t, l) ==
    /\ Runs(t) /\ Reaches(t, l)
    /\ \E ec \in Thread :
         /\ getexecutioncontext(t, ec)
         /\ \/ last[l].ec = ec /\ UNCHANGED <<dicts, last, tries, init>>
            \/ /\ last[l].ec # ec /\ dicts[l][ec] # 0
               /\ Cache(ec, l, dicts[l][ec])
               /\ UNCHANGED <<dicts, tries, init>>
            \/ /\ last[l].ec # ec /\ dicts[l][ec] = 0
               /\ NewDict(ec, l)
               /\ Enter(t, l, "access")
               /\ UNCHANGED last
    /\ UNCHANGED <<cur, threads, boot, ready, registered>>

Innermost(t) == init[t][Len(init[t])]

Leave(t) == init' = [init EXCEPT ![t] = SubSeq(@, 1, Len(@) - 1)]

(* __init__ returns: create_new_dict registers, and getdict caches.        *)
init_returns(t) ==
    /\ Runs(t) /\ init[t] # <<>>
    /\ LET l == Innermost(t).local
           n == tries[l][t] IN
       /\ ready' = ready \cup {<<l, t, n>>}
       /\ \/ Innermost(t).kind = "new" /\ UNCHANGED <<last, registered>>
          \/ /\ Innermost(t).kind = "access"
             /\ Register(t, l)
             /\ Cache(t, l, n)
    /\ Leave(t)
    /\ UNCHANGED <<cur, threads, boot, values, dicts, tries>>

(* __init__ raises: create_new_dict deletes what it has stored.  The       *)
(* object is cached for the thread if __init__ has used its attributes.    *)
init_raises(t) ==
    /\ Runs(t) /\ init[t] # <<>> /\ Innermost(t).kind = "access"
    /\ (IF last[Innermost(t).local].ec = t THEN "cached" ELSE "uncached") \in InitRaises
    /\ dicts' = [dicts EXCEPT ![Innermost(t).local][t] = 0]
    /\ Leave(t)
    /\ UNCHANGED <<cur, threads, boot, values, last, tries, ready, registered>>

-----------------------------------------------------------------------------
(* Defect: the child keeps the parent's bootstrap lock.                    *)
fork_KeepsLock(t) ==
    /\ Runs(t)
    /\ pc' = [u \in Thread |-> IF u = t \/ pc[u] \in {"unborn", "gone"} THEN pc[u] ELSE "lost"]
    /\ ident' = [u \in Thread |-> IF pc'[u] = "lost" /\ IdentsReused THEN 0 ELSE ident[u]]
    /\ started' = [u \in Thread |-> NoOne]
    /\ UNCHANGED <<cur, bootlock, callable, took, values, locals>>

(* fork, and reinit_threads in the child, which the behaviour follows from *)
(* here on: it has none of the other threads, and a new bootstrap lock.    *)
(* OSThreadLocals and the dictionaries of thread._local are kept.          *)
fork(t) ==
    /\ Runs(t)
    /\ pc' = [u \in Thread |-> IF u = t \/ pc[u] \in {"unborn", "gone"} THEN pc[u] ELSE "lost"]
    /\ ident' = [u \in Thread |-> IF pc'[u] = "lost" /\ IdentsReused THEN 0 ELSE ident[u]]
    /\ started' = [u \in Thread |-> NoOne]
    /\ bootlock' = FALSE
    /\ callable' = NoOne
    /\ UNCHANGED <<cur, took, values, locals>>

(* The last thread has ended, and the process with it.                     *)
exited == (\A t \in Thread : pc[t] \in {"unborn", "gone", "lost"}) /\ UNCHANGED vars

-----------------------------------------------------------------------------
Start(t) == \/ lock_acquired(t) \/ launch(t) \/ RPyThreadStart(t)
            \/ bootstrap(t) \/ lock_released(t)

ThreadStep(t) ==
    \/ take_gil(t) \/ release_gil(t)
    \/ \E u \in Thread : start_new_thread(t, u)
    \/ Start(t)
    \/ execute(t) \/ leave_thread(t)
    \/ \E l \in Local : new_local(t, l) \/ getdict(t, l)
    \/ init_returns(t) \/ init_raises(t)
    \/ fork(t)

Next == exited \/ \E t \in Thread : ThreadStep(t)

Spec == Init /\ [][Next]_vars

(* No thread keeps the GIL, nor is kept from it, for ever; a free lock is  *)
(* not refused for ever; the system's calls return.                        *)
Fairness == \A t \in Thread :
    /\ SF_vars(take_gil(t))
    /\ WF_vars(release_gil(t))
    /\ SF_vars(lock_acquired(t))
    /\ WF_vars(launch(t) \/ RPyThreadStart(t) \/ bootstrap(t) \/ lock_released(t))

FairSpec == Spec /\ Fairness

-----------------------------------------------------------------------------
TypeOK ==
    /\ cur \in Thread \cup {NoOne}
    /\ pc \in [Thread -> {"unborn", "created", "run", "gone", "locking", "locked",
                          "launching", "failed", "releasing", "lost"}]
    /\ ident \in [Thread -> Ident \cup {0}]
    /\ bootlock \in BOOLEAN
    /\ callable \in Thread \cup {NoOne}
    /\ started \in [Thread -> Thread \cup {NoOne}]
    /\ took \in [Thread -> Thread \cup {NoOne}]
    /\ valuedict \in [Ident -> Thread \cup {NoOne}]
    /\ mainident \in Ident /\ recentkey \in Ident
    /\ recentvalue \in Thread \cup {NoOne}
    /\ dicts \in [Local -> [Thread -> 0..MaxTries]]
    /\ tries \in [Local -> [Thread -> 0..MaxTries]]
    /\ last \in [Local -> [ec : Thread \cup {NoOne}, of : Thread \cup {NoOne}, dict : 0..MaxTries]]
    /\ ready \subseteq Local \X Thread \X (1..MaxTries)
    /\ registered \in [Thread -> SUBSET Local]
    /\ init \in [Thread -> Seq([local : Local, kind : {"new", "access"}])]

(* Each new thread runs the callable it was started for: "to prevent two   *)
(* parallel starting threads from messing with each other's start-up data".*)
RightCallable == \A t \in Thread : took[t] \in {NoOne, t}

(* No thread is handed the execution context of another one, although the  *)
(* identifier it has may be that of a thread that has ended, and a minimal *)
(* cache stands before the dictionary.                                     *)
OwnContext == \A t \in Thread : pc[t] \in {"run", "created"} => getvalue(t) \in {NoOne, t}

(* Only the main thread is taken for it: signals are handled nowhere else. *)
OnlyMain == \A t \in Thread : pc[t] \notin {"unborn", "gone", "lost"} =>
                                 (ismainthread(t) <=> t = Main)

InInit(t, l) == \E n \in 1..Len(init[t]) : init[t][n].local = l

(* What an access of l by t, outside of __init__, returns without calling  *)
(* __init__ has been initialised by an __init__ that returned, in t.       *)
Seen(t, l) == IF last[l].ec = t THEN <<l, last[l].of, last[l].dict>> ELSE <<l, t, dicts[l][t]>>

LocalInitialised == \A t \in Thread, l \in Local :
    (last[l].ec = t \/ dicts[l][t] # 0) /\ ~InInit(t, l)
        => Seen(t, l) \in ready /\ Seen(t, l)[2] = t

(* What the program can tell of a thread and of a dictionary; what belongs *)
(* to no thread's life as it should be has gone astray.                    *)
LifeOf(t) ==
    CASE pc[t] = "unborn" -> IF \E u \in Thread : started[u] = t THEN "asked" ELSE "none"
      [] pc[t] = "created" -> "asked"
      [] pc[t] = "gone" -> "ended"
      [] pc[t] = "lost" -> "lost"
      [] OTHER -> IF t = Main \/ took[t] = t THEN "running" ELSE "astray"

DataOf(t, l) ==
    LET n == Seen(t, l)[3] IN
    CASE Seen(t, l)[2] # t -> [is |-> "astray"]
      [] Seen(t, l)[2] = t /\ n = 0 -> [is |-> "absent"]
      [] Seen(t, l)[2] = t /\ n # 0 /\ InInit(t, l) -> [is |-> "raw", dict |-> n]
      [] OTHER -> [is |-> IF Seen(t, l) \in ready THEN "ready" ELSE "astray", dict |-> n]

(* Threads and their dictionaries are what ThreadLife promises: nothing is *)
(* left of the identifiers that are used again, of the lock that hands     *)
(* over the callable, and of the caches, which only make things faster.    *)
Life == INSTANCE ThreadLife WITH
    Number <- 1..MaxTries,
    life   <- [t \in Thread |-> LifeOf(t)],
    data   <- [l \in Local |-> [t \in Thread |-> DataOf(t, l)]]

ThreadsAsLives == Life!Spec

(* What thread_is_stopping deletes exists, and it leaves nothing: no       *)
(* dictionary of a thread outlives it, in an object or in its cache.       *)
LocalCleaned == \A t \in Thread, l \in Local :
    /\ l \in registered[t] => dicts[l][t] # 0
    /\ pc[t] = "gone" => dicts[l][t] = 0 /\ last[l].ec # t

(* start_new_thread returns, also when the system refuses a thread, and in *)
(* a child forked while another thread was starting one.                   *)
StartReturns == \A t \in Thread : pc[t] = "locking" ~> pc[t] \in {"run", "lost"}
=============================================================================
