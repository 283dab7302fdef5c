# Specifications of the taint-tracking PyPy interpreter

TLA+ models of the parts of this repository whose correctness depends on the
order in which things happen: the taint labels the fork adds to PyPy's
interpreter, the asynchronous actions between two opcodes, the delivery of
signals, the global interpreter lock, the start and end of threads, the import
lock, `fork`, and the generational garbage collector with its write barriers.
TLC checks the models on small instances; TLAPS proves every safety property of
theirs for every instance. Six short modules say what the components promise, in
terms of a program that does not know how they work, and the detailed ones are
proved to implement them.

## 1. Inventory

The repository is the PyPy 2.x tree (an interpreter for Python 2.7 written in
RPython, and the toolchain that translates it) with one addition: every wrapped
object may carry integer *taint labels*, and every frame records the labels of
the conditions it has branched on.

| Component | State | Operations | Interacts with |
|---|---|---|---|
| Taint labels (`baseobjspace.py`, `pyopcode.py`, `interp_taint.py`, `unicodetype.py`) | `W_Root.taints`: absent, or a dictionary of labels | `addtaint`, `cleartaint`, `settaint`, `gettaint_unwrapped`; `merge_taints` and `checked_settaint` in the opcodes; string and codec methods | the dictionaries are passed by reference to control taint |
| Control taint (`pyframe.py`, `generator.py`) | `TaintSpace`: a map from a jump's offset to a dictionary, and a parent | conditional jumps, `PyFrame.run`, generators' `send_ex`, `get_taints` | frame stack of the thread's execution context |
| Asynchronous actions (`executioncontext.py`, `interp_gc.py`) | the ticker, `fired_actions`, `_fired`, `dying_objects`, `finalizers_lock_count` | `fire`, `bytecode_trace`, `action_dispatcher`, `perform` of each action | app-level callbacks re-enter it; the GC and C signal handlers write to it |
| Signals (`interp_signal.py`, `signals.c`) | `pypysig_flags`, `pypysig_occurred`, `pypysig_counter`, `pending_signal`, `fire_in_main_thread` | C handler, `pypysig_poll`, `pypysig_pushback`, `CheckSignalAction.perform`, `_after_thread_switch` | the C counter *is* the ticker; handlers run in the main thread only |
| GIL (`thread_pthread.c`, `gil.py`) | a mutex, a condition variable, `pending_acquires` | `RPyGilAllocate`, `Acquire`, `Release`, `YieldThread` | every external call; `GILReleaseAction`; fork |
| Threads (`os_thread.py`, `threadlocals.py`, `os_local.py`, `rthread.py`) | the `bootstrapper` and its lock, `_valuedict` and its minimal cache, `Local.dicts` and its cache | `start_new_thread`, `bootstrap`, `getexecutioncontext`, `leave_thread`, `Local.getdict`, `reinit_threads` | releases the GIL inside; calls app-level `__init__`; fork |
| Import lock (`importing.py`, `interp_imp.py`) | `lockowner`, `lockcounter`, the C lock; `sys.modules` | `acquire_lock`, `release_lock`, `absolute_import`, `load_part`, `reinit_lock` | releases the GIL while it waits; module bodies are app-level code; fork |
| Fork (`interp_posix.py`) | lists of hooks | `before`, `parent`, `child` hooks around the system call | GIL, threads, import lock |
| Garbage collector (`minimark.py`) | nursery, flags and card marks in headers, lists of objects that may point to young ones, prebuilt roots, weakrefs | allocation, `write_barrier`, `write_barrier_from_array`, `writebarrier_before_copy`, minor and major collections | compiled code calls the barriers, or leaves them out |
| Barriers of compiled code (`rewrite.py`, `x86/assembler.py`) | `recent_mallocs` | stores with no barrier, the plain one, or the inline card marking | garbage collector |
| Application locks (`os_lock.py`, the lock functions of `thread_pthread.c`) | semaphores | acquire, release | GIL |
| Frame block stack, generators' exceptions | blocks, `last_instr`, unrollers | `SETUP_*`, `POP_BLOCK`, `END_FINALLY` | sequential |
| Object space, method cache, mapdict, celldict | version tags, caches | attribute writes and cached reads | the JIT's quasi-immutable fields |
| JIT, continulets, app-level weakrefs | loops and their ages; stacks; lifelines | - | all of the above |
| Compiler, toolchain, extension modules, standard library | - | sequential translation, or input and output | - |

What is hard here, and what correctness means:

* **Aliasing.** `gettaint_unwrapped` returns an object's own dictionary, and the
  jumps store it without a copy. Labels must nevertheless behave as values: no
  operation on one object may change another, and the interpreter's two shared
  booleans must never pick up a label from a comparison.
* **Re-entrance.** An action calls app-level code, whose opcodes run the
  dispatcher again, while the outer one is in the middle of a list. Actions must
  be neither lost nor run twice, also when a callback raises. A collection may
  call finalizers wherever the interpreter allocates, also in the middle of `fire`
  and of `UserDelAction.perform`, and these fire actions themselves.
* **Unsynchronised state.** The ticker is decremented in three machine steps while
  a C signal handler writes -1 to it; the handler sets a flag, `occurred` and the
  ticker one after the other while another thread is scanning the flags; a signal
  may be polled by a thread that may not handle it. No signal may be lost.
* **Condition variable without a loop.** The GIL's signals may come late, or to
  the wrong thread, and waits may end without one. No wakeup may be lost, and
  whoever wants the lock gets it.
* **Identity.** Thread identifiers are reused, and caches stand in front of the
  dictionaries keyed by them. No thread may be given another thread's execution
  context, callable or thread-local dictionary.
* **A check without the lock.** Imports look in `sys.modules` before they take the
  import lock, and the lock lets the GIL go while it waits. No thread may see a
  module that another one is still executing, and the lock must be given back as
  often as it was taken, also when a module body raises.
* **Fork.** The child has one thread and the memory of all of them. Nobody may
  wait there for a thread that is gone.
* **Remembered sets.** An old object that points to a young one must be found by
  the next minor collection. Four barriers write to three lists and four flags,
  and a collection goes through the lists while it adds to them.

`PROJECT.json` lists all components with their status and all hazards, each with
its source line and the properties that would catch it.

## 2. Modules

| Module | Models | Definitions to read first |
|---|---|---|
| `ObjTaint` | the promise: sets of labels by value | `Next` |
| `OwedCalls` | the promise: each signal handled once, each `__del__` called once | `Handle`, `Finalize` |
| `GlobalLock` | the promise: one inside, of those who asked | `Next` |
| `ThreadLife` | the promise: each thread runs its own callable, with dictionaries of its own | `Make`, `End` |
| `ModuleTable` | the promise: a module's code runs once at a time, under one lock | `Begin`, `End` |
| `TaintFlow` | taint labels and control taint; implements `ObjTaint` | `Rewrite`, `conditional_jump`, `run`, `resume` |
| `ActionFlag` | actions and signals; implements `OwedCalls` | `Fire`, `fire_store`, `BeginDispatch`, `pushback`, `pypysig_poll`, `grab_actions` |
| `Gil` | the GIL, one step per operation on shared memory; implements `GlobalLock` | `Signal`, `yield_*`, `release_*` |
| `ThreadStart` | thread start, execution contexts, `thread._local`; implements `ThreadLife` | `launch`, `bootstrap`, `getexecutioncontext`, `getdict` |
| `ImportLock` | imports, the recursive lock, the fork hooks; implements `ModuleTable` | `c_thread_acquirelock`, `absolute_import`, `load_part` |
| `Heap` | the promise: objects stay until they cannot be reached | `Disappear` |
| `MiniMark` | the collector and its barriers; implements `Heap` | `remember_young_pointer`, `DragOut`, `collect_cardrefs_to_nursery`, `minor_end` |
| `TaintFlowProofs`, `ActionFlagProofs`, `GilProofs`, `ThreadStartProofs`, `ImportLockProofs`, `MiniMarkProofs` | the theorems about these modules | |
| `OwedCallsProofs`, `ImportTableProofs` | that `ActionFlag` implements `OwedCalls`, `ImportLock` implements `ModuleTable` | `OwedInv`, `TableInv` |
| `MC*` | the values of constants for TLC | |

Actions have the names of the functions they stand for. An operator whose comment
begins with "Defect" is a variant of the operator after it with a plausible bug;
it is used only to show that a property would notice (PROJECT.json, `mutants`).

**TaintFlow.** `dict` is the heap of label dictionaries, `taints` the slot of each
object, `tmap` and `parent` the TaintSpaces, `frames` each thread's stack and
`gens` the unfinished generators. In the code `settaint` updates a dictionary in
place when the object has a non-empty one and makes a new one otherwise;
`Rewrite` does the same, so it matters who else refers to the dictionary. The
actions take arbitrary live objects as operands: which of them are on a value
stack is not relevant to the flow of labels. Opcodes of the same shape share an
action (`unaryoperation`, `binaryoperation`, `slice`, `settaint_from`), and those
that store no labels are `untainted_result`. Collection of unreachable objects,
frames and dictionaries is a step that may happen at any time. The dictionary of
labels is a set (every label is mapped to 1).

**ActionFlag.** A thread's `stack` has one record per activation of
`action_dispatcher`, with the place it has reached, the rest of the list of
actions and of dying objects it has taken. `ticker` is `pypysig_counter.value`.
With a bytecode counter (thread module in use) `decrement_ticker` is two actions,
and the C handler may come between them; without it the ticker is only read. The
C handler runs at any step, on any processor: the three writes of
`pypysig_pushback` are three actions, and `pushing[s]` says which of them the
handler of signal `s` has done. `pypysig_poll` clears `occurred` in one step
(`check_signal`) and then looks at one flag per step. `external_call` and
`release_gil` switch the thread and run the hook `_after_thread_switch`; how the
GIL does this is the subject of `Gil`, and here some thread gets it.

`fire` is two actions. It marks the action and reads the list (`Fire`, inside the
action of whoever calls it), then it allocates, and then it stores the list with
the new action at its end and arms the ticker (`fire_store`). `storing` is that
list while `fire` is on its way, and the thread does nothing else meanwhile
(`Holds`). A finalizer may run there: `register_callback`, and the `fire` in it,
is a step that may happen wherever the interpreter allocates, also between the
two. What it has put in the list is then overwritten (`Overwriting` says that this
is about to happen). The `fire` of a finalizer is one step (`FireAtOnce`), because
`execute_finalizers` of the collector does not call itself again.
`UserDelAction.perform` is two actions for the same reason (`user_del`,
`take_dying`): it allocates the new list while the old one is still in place.

What `ActionFlag` promises is `OwedCalls`: a debt is a signal that has arrived, one
that was put aside by a thread that may not handle it, or a dead object; it is paid
by a call of the handler in the main thread, or of `__del__`, and nothing else
makes it disappear or pays it twice. The mapping takes the places of an activation
to "calling this" or "resting", `dead` to the objects of all lists of dying objects
together, and `raised` to the flags. The list of actions, the ticker, `occurred`
and the scan are not part of the promise: they are how it is kept in time, which is
what `SignalArmed`, `ActionsKept` and `DyingScheduled` are about.

**Gil.** `pc[t]` names the next operation of a thread. Mutex and condition
variable are the operating system's: the mutex goes to any thread that asks, a
signal wakes any one waiter, and a waiter may wake without a signal
(`Spurious`). `fork` leaves the child with one thread, which runs
`RPyGilAllocate` again. To `GlobalLock` a thread is inside, or it wants to be, or
neither; that nobody is inside without having asked, that `RPyGilYieldThread`
gives the lock up only for others, and that a child's new lock is asked for by
the thread it has, are its steps.

**ThreadStart.** A thread is named for one life; its execution context and the
callable it is to run have its name, which makes mix-ups visible. `ident` is what
the system calls it, and is given again when it ends. The GIL is `cur`: it is
released where the code releases it (waiting for the bootstrap lock, releasing
it, `pthread_create`, and between any two opcodes). `Local.dicts` holds the
*number* of the dictionary, so that a dictionary that was deleted and made again
is another one. After `fork` the model goes on with the child, in which the other
threads are gone and `reinit_threads` has run. `ThreadLife` knows neither
identifiers nor locks nor caches: a thread is asked for, runs, and ends or is lost
in a fork, and the dictionary an access would return is absent, raw (in its
`__init__`) or ready. A thread that had another one's callable, or a dictionary
that changed or came back by what another thread did, would be no step of it.

**ImportLock.** `stack[t]` holds what a thread does under the lock, innermost last:
finding, reading or executing a part of a dotted name, holding the lock by
`imp.acquire_lock`, or being between the hooks of `fork`. `acquire_lock` and
`release_lock` are split where the C functions let the GIL go. A module is absent,
partial (in `sys.modules`, its body running) or complete; a body may raise, and
its module is taken out again. A fork is two actions, with the system call between
the hooks; after it the model goes on with the child or with the parent. In
`ModuleTable` the stacks are gone: a holder runs the code of modules that the
table has as partial, begins one only if the table has nothing under the name, and
lets go when nothing runs.

**Heap and MiniMark.** In `Heap` an object is reachable or may disappear, and
weakrefs are cleared in that instant. In `MiniMark` an object is in the nursery,
young outside of it, old or prebuilt. A pointer says whether it goes to the nursery or
outside of it: an object keeps its name when it moves, so a pointer that was not
updated is seen to dangle. The flags of the object header are the sets `track`,
`noheap`, `visited` and `cardsset`; card marks are pairs of an array and a card. A
collection takes one object from one of its lists per step, in any order, which
covers every order of the address stacks of the code. A store goes through one of
the barriers: `write_barrier`, `write_barrier_from_array`, those compiled code
calls, or none for an object it has just allocated (`JitBarrierFree`). The
refinement mapping forgets places and flags; an object that a minor or major
collection gives up disappears in one step with its weakrefs.

How they fit together: `ActionFlag`, `ThreadStart` and `ImportLock` use an
abstract GIL (one holder, an arbitrary successor). This is `GlobalLock` with the
requests left out, and `Gil` is proved to implement that; that everyone who wants
it gets it is a liveness property TLC checks. `ThreadStart!OnlyMain`
is what `ActionFlag` assumes of `ismainthread`. `Heap` is what every other module
assumes of memory; the collection steps of `TaintFlow` and the deaths in
`ActionFlag` are its `Disappear`.

## 3. What the runs show

| Run | Instance | Shows |
|---|---|---|
| `taint_objects` | True, None, two more objects, 2 labels, 5 dictionaries, 1 frame with 1 jump | `TypeOK`, `NoDictShared`, `ByValue` (TaintFlow implements `ObjTaint`), `BoolsKept`, `DetachedFrozen` |
| `taint_threads` | 2 threads, 3 TaintSpaces, 2 objects, stacks up to 3 deep | `CallInherits`, `ControlKept` |
| `action_alone` | 1 thread, no counter, 2 signals, 1 dying object, finalizers inside `fire` too, dispatchers nested 2 deep, fairness | `TypeOK`, `ActionsKept`, `QueueArmed`, `DyingScheduled`, `CallsAsOwed` (ActionFlag implements `OwedCalls`), `DelDelivered` |
| `action_threads` | 2 threads with counter, 1 signal, callbacks may raise, fairness | `SignalArmed`, `SignalDelivered` |
| `gil` | 3 threads, spurious wakeups, fork, fairness | `TypeOK`, `GilAsLock` (Gil implements `GlobalLock`), `NoLostWakeup`, `AcquireReturns`, `YieldReturns` |
| `thread_start` | 3 threads, 3 identifiers, 1 `_local` object, refused threads, fork, fairness | `TypeOK`, `RightCallable`, `OwnContext`, `OnlyMain`, `ThreadsAsLives` (ThreadStart implements `ThreadLife`), `LocalCleaned`, `StartReturns` |
| `import_lock` | 3 threads, a package and its submodule, bodies that import and raise, fork, fairness | `TypeOK`, `AcquiredFree`, `HeldWhileImporting`, `NoPartialSeen`, `ImportsAsTable` (ImportLock implements `ModuleTable`), `LockReleased` |
| `gc_cards` | 2 arrays of 2 items with cards, an array of length 0 in the nursery, 2 roots | `NoDangling`, `BarrierKept`, `Consistent` |
| `gc_prebuilt` | a prebuilt object, a large young one, a small one, a weakref, 2 roots | `TypeOK`, `NoHeapPtrs`, `MajorExact`, `ImplementsHeap` |

Three runs end in a counterexample, each of one property that the repository
states and the code does not keep:

* `action_trace_raises` (`ActionsKept`): `fire()` promises "Request for the
  action to be run before the next opcode." A trace function that raises leaves
  the dispatcher, and the actions behind it in the list are lost while they stay
  marked as fired. Since `fire()` ignores a marked action, they are lost for ever:
  if `UserDelAction` is among them, no `__del__` is called any more.
* `thread_local_raises` (`LocalInitialised`): "failed, forget w_dict". An
  `__init__` that has used an attribute before it raises leaves the forgotten
  dictionary in the object's cache; the next access returns it, uninitialised.
* `gc_jit` (`NoDangling`): "no need for a write barrier in the case of previous
  malloc". Compiled code stores a nursery object in an array that it has just
  allocated. If the array was too large for the nursery it has
  `GCFLAG_TRACK_YOUNG_PTRS` and clean cards, the next minor collection does not
  look at the slot, and the array points to memory that was given back.

The code loses `UserDelAction` in a second way, which no exception has to bring
about. `fire` sets `_fired` (executioncontext.py:329) before it allocates (331-332).
A finalizer that runs in the allocation finds `fired_actions` as it was, lists
`UserDelAction`, and the outer `fire`, of the trace action, stores its own list
over it. `UserDelAction` is marked and in no list from then on, and no `__del__` is
called any more. It takes a major collection in that allocation, and an object
with a `__del__` that dies in it. The simple invariant, that every marked action is
in a list (`FiredScheduled` in `ActionFlagProofs`), is therefore false of this code;
as an invariant of the instance `action_alone` it has a counterexample of three
steps (`settrace`, `register_callback`, `fire_store`). `ActionsKept` is what
is true as long as no trace function raises: no other step loses an action, of any thread and at any nesting, and the
action lost is always `UserDelAction`. `DelDelivered` assumes that the loss never
happens (`[]~Overwriting`); without this assumption it is violated.

Some properties hold under a condition only. The condition is a constant, the
passing runs (and the theorems) have it, and giving the constant its other value
violates the property named:

| Constant | In the passing runs | Otherwise |
|---|---|---|
| `MayRaise` (ActionFlag) | no "trace" for `ActionsKept`, no "handler" for `QueueArmed` and, without a counter, `SignalArmed` | a trace function that raises loses actions; a handler that raises leaves the list with the ticker reset |
| `InitRaises` (ThreadStart) | `{"uncached"}` | `LocalInitialised`, `ThreadsAsLives`, `LocalCleaned`: the failed dictionary stays in the cache |
| `IdentsReused` (ThreadStart) | FALSE | `OwnContext`, `OnlyMain`, `ThreadsAsLives`: `reinit_threads` keeps the contexts of the threads a fork has left behind |
| `ForkWithLock` (ImportLock) | FALSE | `HeldWhileImporting`, `NoPartialSeen`, `ImportsAsTable`: `reinit_lock` zeroes the owner in a child that is still importing |
| `CopyToPrebuilt` (MiniMark) | FALSE | `NoHeapPtrs`: `writebarrier_before_copy` returns early when no card of the source is marked, and the destination keeps `GCFLAG_NO_HEAP_PTRS` |
| `JitFreshLarge` (MiniMark) | FALSE | `NoDangling`: the run `gc_jit` |

### Bounds

* `Dict`: five dictionaries, one for each of four objects and one that only a
  TaintSpace keeps. With all five in use a step that needs a new one is disabled;
  the instance with six, where none ever is, passes as well (8040 states, more
  than two minutes), and the theorems hold for any number. Likewise a result that
  needs a fresh object waits until one of the two that are not prebuilt is dropped.
* `Space`, `MaxDepth` (TaintFlow): a caller, a generator and a frame that resumes
  it, on either of two threads: the smallest setting in which a generator's parent
  is not the frame below it.
* `MaxDepth` (ActionFlag): nested dispatchers. Two are enough for an inner one to
  take the list while an outer one works through its own; the run with two threads
  is about signals and has one. The theorems do not depend on it.
* `Sig`: two signals are enough for one to be flagged behind and one before the
  place a scan has reached. One C handler per signal at a time: a second one for
  the same signal would write the same values.
* `CheckInterval` = 1 opcode: every value of the ticker (-1, 0, the reset value)
  occurs, and the decrement races with every one of them.
* `Del` = one object, registered again after its `__del__` (resurrection), so the
  list of dying objects grows while an earlier one is being worked on.
* `Ident`: as many identifiers as threads, so a new thread may get a fresh one or
  that of a dead thread. `MaxTries` = 2 dictionaries per object and thread: one
  that fails and one that replaces it.
* `MaxDepth` (ImportLock) = 2: a body that imports the other module, or a hand-held
  lock with an import inside. A package and its submodule import each other, which
  is the shortest cycle.
* `gc_cards`: two items with one card each, so that a card can be marked for the
  wrong item; two arrays, so that each can be in both lists, and copies go both
  ways. 1.65 million states. `gc_prebuilt`: one object of each kind there is;
  1.34 million states. Symmetry between the roots and between the arrays is sound,
  since nothing distinguishes them; neither run has a liveness property.

### Fairness

* `ActionFlag`: the interpreter executes opcodes of the thread that holds the GIL,
  every thread gets the GIL again and again (shown by `gil`), and a called function
  returns at each nesting depth. Strong fairness, because other threads' turns and
  nested dispatchers disable these steps for a while. A C handler that has begun
  ends (weak), and so does a `fire` (weak; it only allocates). Nothing is assumed of the arrival of signals, of finalizers and the
  program's own calls. `DelDelivered` needs finalizers to stay enabled and signals
  to stop, and that no `fire` overwrites what a finalizer has listed, and says so: an endless series of handlers keeps the dispatcher in its
  loop over signals. `SignalDelivered` is for a signal that none of a smaller
  number keeps overtaking, since `pypysig_poll` takes the least.
* `Gil`: the C functions run to their end (weak), the mutex is not refused for ever
  to one thread (strong, a property of the operating system's mutex), and a thread
  that runs while others want the lock yields again and again (the ticker).
* `ThreadStart`: no thread keeps the GIL for ever and none is kept from it, a free
  lock is not refused for ever, `pthread_create` returns.
* `ImportLock`: the same of the GIL and the lock, and module bodies end (strong,
  for each depth of the stack: a nested import interrupts the outer one).

## 4. What is proved

All theorems are of `Spec`, without fairness, for every value of the constants
that satisfies the named assumption of the module. Every safety property of every
passing run is a theorem.

**TaintFlowProofs.** `Inv == TypeOK /\ NoDictShared` is inductive as it stands:
`NoDictShared` also says that dead objects have no dictionary, which is needed
when an object is made again. From it: `TypeCorrect`, `NeverShared`;
`Refinement` (`Spec => ByValue`), by the lemma `RewriteByValue` that changing a
dictionary in place changes the labels of exactly one object; `SharedBools`
(`BoolsKept`), because `checked_settaint` never writes to a prebuilt boolean and
every write by reference reaches one object only; `DetachedFinal`
(`DetachedFrozen`), because a dictionary is written through an object's slot only.
`CallsInherit` needs `OnceOnStack`, that a space is on one stack at one place.
`ControlTaintKept` (`ControlKept`) rests on the chain of spaces being the least set
closed under `parent`, which no step but a frame's end makes smaller.

**ActionFlagProofs.** `TypeCorrect`, and on it:
* `DyingNeverForgotten` (`DyingScheduled`): inductive with the types, and with the
  fact that `decrement_ticker` does not run while `perform` takes the dying objects.
* `FiredActionsArmed` (`"handler" \notin MayRaise => []QueueArmed`): the
  strengthening `Armed` says that while an activation is in its periodic phase the
  list is still to be taken, and adds what `decrement_ticker` has read. `Single`
  says that a `fire` and a `decrement_ticker` never overlap.
* `NoActionTwice` (`[]QueuedOnce`; proved only, no run checks it): needs `Once`,
  that a marked action is at one position of one list in all lists together, and
  that an unmarked one is in none, the list that a `fire` is about to store
  included; then `fire`, which lists unmarked actions only, keeps it.
* `NoActionLost` (`"trace" \notin MayRaise => ActionsKept`): needs
  `RestEmpty`, that an activation which has not taken the list has nothing left to
  run, so that leaving it early by a handler's exception loses nothing, and
  `Behind`, that the list `fire` stores has all actions of the list it replaces,
  but for `UserDelAction`. `NothingLost` draws the conclusion: if a finalizer never fires it
  in that place (`[]~Overwriting`), every marked action is in a list
  (`[]FiredScheduled`).
* `SignalsArmed` (`[]SignalArmed`, with a counter, or when no handler raises):
  `Flagged` follows each signal through the three writes of its handler and the
  scan of the flags: between clearing `occurred` and the end of the scan, what is
  flagged is seen by the scan or has set `occurred` again. `Aside` says of a signal
  that was put aside which thread will look at it: the thread with the GIL if it
  polls, else the main thread after the next switch, and a -1 in the ticker counts
  only if `decrement_ticker` has not read an older value.

**OwedCallsProofs.** `CallsOwed` (`CallsAsOwed`) holds whatever may raise, with and
without a counter. A handler or a `__del__` must be called for exactly one debt,
which needs `OwedInv`: the activation that goes through the flags is the innermost
one of the thread with the GIL, and nothing is put aside meanwhile (`ScanAlone`;
otherwise `pending_signal` could be overwritten); a dying object is at one place of
one list, of the global one and those that every nested
`UserDelAction.perform` has taken (`DelsOnce`). Every step is first
shown to be of one of ten kinds (`Effects`), by what it does to the debts; the rest
of the proof is about the kinds.

**GilProofs.** `Inv`: before allocation only the main thread is there; afterwards
whoever is inside owns the mutex. With it `PendingCounts` (the count equals the
cardinality of the set of threads between their two additions; proved only, no run
checks it) and `GilExcludes` (which `GilAsLock` implies). `Refinement` (`GilAsLock`)
needs `PendingCounts`, since a thread yields when the count says that another one
wants the lock, and `YieldWanted` (below). `GilNeverStuck` is the part of "everyone
gets in" that needs no fairness: as long as a thread waits, some thread's next
operation does not have to. It needs the converse of `Inv`, that the owner of the
mutex is inside (`OwnerIsInside`), and `NoLostWakeup`. `NoWakeupLost` needs `YieldWanted`: a thread that is
about to sleep has seen another one that wants the mutex, and that one does not
sleep on the condition. A fork keeps all of it in the child.

**ThreadStartProofs.** `BootInv /\ Contexts` is inductive on its own, since
thread-local dictionaries do not act back on it. `Handing` says that between
taking the bootstrap lock and releasing it there is one thread, first the starter
and then the new thread, and that the callable in `bootstrapper` is the one in
transit; `RightCallable` follows (`StartUpData`). `Contexts` says that identifiers
of living threads lead to their own context, unused ones to none, that the minimal
cache agrees with the dictionary, and that the main thread's entry never goes, so
that the dictionary is never empty again: `ContextsOwn` and `OneMain`. These and
what follows need `~IdentsReused`, that a child does not reuse the identifiers of
the threads it lost. `LocalInv` adds, for each object and thread, that a dictionary is registered or still in its
`__init__`, never both, and is the last one made. `LocalsInitialised` and
`LocalsCleaned` need `"cached" \notin InitRaises`, which the run
`thread_local_raises` shows to be necessary; `TypeCorrect` does not.
`BootLockAlwaysKept` needs no condition either: a taken bootstrap lock is always
kept by a starter or a started thread that can go on with the GIL alone, and the
GIL is never kept by a thread that waits in the system, also in a child that was
forked in the middle of a start.

`ThreadsLive` (`ThreadsAsLives`) joins all of it: `Stage` and `Stored` say in terms
of the threads' places and of the dictionaries what the mapping says in terms of
`took`, `last` and `ready`, and each step is then one of `ThreadLife`'s or none. It
adds `Launched`, that a thread which has got to the program has its own callable,
and to `LocalInv` that the creator of an object is registered while it is in
`__init__`, so that it is never in two of them for one object.

**ImportLockProofs.** Two inductive invariants. `LockInv` holds in every process,
however it was forked: who is where in `acquire_lock` and `release_lock`, and that
the counter does not exceed the frames that will release the lock (`Counted`). From
it `ImportTypeCorrect`, `AssertionsHold` (`AcquiredFree`) and `ImportLockKept`: a
taken lock is kept by a living thread that can go on, so that nobody waits in a
child for a thread that is gone. `IInv` needs `~ForkWithLock`; it joins
`HeldWhileImporting` with `Shape` (what the entries of a stack can be, one above
the other), `Lock` (who owns the lock at each place where the GIL is let go) and
`Partial` (a module whose body runs is in the owner's stack, and nothing else is
partial). From it `ReleasesMatch` (`HeldWhileImporting`), `ImportsSerial`
(`OneImporter`) and `ImportsComplete` (`NoPartialSeen`).

**ImportTableProofs.** Under the same condition, `ImportsImplementTable`
(`ImportsAsTable`). What the mapping needs beyond `IInv` is that the stacks agree
with `sys.modules` (`FramesTrue`): a frame that executes a module finds it partial,
one that is about to execute it finds it absent, although the look into
`sys.modules` that found it absent was one or more steps earlier, and no module is
executed inside its own execution. The last frame's end may be the release of the
lock as well, so that one step of `ImportLock` is an `End` that also lets go.

**MiniMarkProofs.** Under `Sound == ~CopyToPrebuilt /\ ~JitFreshLarge`, for any
objects, array lengths, card sizes and roots. `IInv` has ten parts, each with a
comment in the module: `Tracked` and `CardFlags` say which flags go with which
list, `Barrier` that a pointer to a young object is in a slot the collection will
find, `Pointers` that what a pointer says of its target's place is true or about to
be corrected, `Weakrefs` that a weakref is listed as long as its content may have
to change, `Marking` the invariant of the tracing of a major collection. Barriers
are handled once: `BarrierStep` describes what any of them may do, and each is
shown to be one. From `IInv`: `PointersValid` (`NoDangling`), `BarrierEnough`
(`BarrierKept`), `NoHeapPtrsRight`, `ConsistencyCheck` (`Consistent`),
`MajorCollectsAll` (`MajorExact`) and `Refinement` (`ImplementsHeap`), where the end
of each collection is shown to be a `Disappear` of unreachable objects: the set of
what was visited has the roots and is closed under pointers. `TypeCorrect` needs no
condition.

Only model-checked: liveness, which rests on fairness and is out of reach of the
prover (`DelDelivered`, `SignalDelivered`, `AcquireReturns`, `YieldReturns`,
`StartReturns`, `LockReleased`). What is proved of it is the safety part: there is
always someone who can go on (`GilNeverStuck`, `BootLockAlwaysKept`,
`ImportLockKept`), and what is owed is armed (`SignalsArmed`, `NoActionLost`,
`DyingNeverForgotten`). Reachability and the chain of spaces are stated as
least closed sets instead of recursive functions, so that no theorem needs
induction over data.

## 5. Not modelled, and abstractions to know of

* The writes of `pypysig_pushback` take effect in the order in which they are
  written (the C variables are volatile; the memory order of the processor is not
  modelled). `pypysig_poll` clears a flag and sets `occurred` again in one step:
  a handler between the two would write the same values.
* Finalizers do not nest (`finalizer_lock_count` of the collector), so the `fire` of
  a finalizer is one step. `fire` is taken to allocate whenever it lists an action;
  an `append` that finds room does not, and then nothing can come between, which is
  one of the behaviours the model has. `UserDelAction.finalizers_lock_count` is
  reduced to whether it is above 0: `enable_finalizers` may leave it so, and fires
  the action in either case.
* `checksignals()`, which performs the signal action outside of the dispatcher;
  profile functions; `signal.set_wakeup_fd`, alarms.
* A `thread._local` whose creating `__init__` raises is taken to be garbage, as it
  is unless `__init__` has leaked it.
* Fork: the hooks of `signal`, a system call that fails, and `forkpty`, which runs
  no hooks at all.
* Imports: `reload`, `imp.load_module`, import hooks, finding and reading files, and
  the from-list of `importhook`, which imports the submodules it names by the same
  `load_part`.
* A thread whose callable never asks for an execution context has none in
  `leave_thread`.
* The collector: finalizers and `__del__` ordering, identity hashes and shadows,
  `shrink_array`, large objects that may not move, the thresholds that start a
  collection (one may start whenever the program runs), the arena allocator of
  `minimarkpage.py`, stack roots of compiled frames. Cards are copied in whole
  bytes of the source; that this stays within a shorter destination is left out.
* The labels of `BINARY_POWER` and `INPLACE_POWER` are those of `untainted_result`.
  Frames rebuilt by `descr__setstate__` have no `taint_space`.
* `interpreter/cfg.py`, meant to end control taint at a post-dominator, is a stub
  that nothing imports; control taint therefore lasts as long as its frame, and
  `ControlKept` states it that way.
* Most of the tree is data or sequential code: tables of Unicode, the standard
  library, the compiler and the RPython toolchain. Their size is the reason why
  the mapped lines are a small part of the repository.
* The components without a module in `PROJECT.json`, with the reason there.

## 6. Plan

What is left, in order of importance; each item is one module with its runs, then
its proofs.

1. Finalizers in `MiniMark` (the order of `__del__` calls, the second marking) and
   identity hashes (shadows of nursery objects).
2. Application locks (`os_lock.py`) and the semaphores of `thread_pthread.c`, with
   timed acquires.
3. `FrameBlocks`: the block stack, `END_FINALLY` and the unrollers, generators'
   `close` and `throw`, against a reference semantics of try/finally.
4. `MethodCache` (version tags), `MapDict` and `CellDict`: a cached read returns
   what an uncached one would.
5. `LoopAging` (`memmgr.py`) and `QuasiImmut`: a loop that depends on a field is
   never entered after the field changed.
6. `Lifeline` (weakrefs and callbacks) and `Continulet`, the latter composed with
   `TaintFlow`, since a switch moves frames between stacks.
