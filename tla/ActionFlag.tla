----------------------------- MODULE ActionFlag -----------------------------
(***************************************************************************)
(* Asynchronous actions of the interpreter: the ticker, the list of fired  *)
(* actions, the dispatcher that runs between two opcodes, the delivery of  *)
(* signals to the main thread, and the calls of __del__.                   *)
(*                                                                         *)
(* Each thread has a stack of activations of action_dispatcher: a handler, *)
(* a trace function or a __del__ that one of them calls runs opcodes, and  *)
(* these may call the dispatcher again.  `at` says where an activation is: *)
(*   "poll"    in CheckSignalAction.perform; "scan" in the loop over the   *)
(*             flags of pypysig_poll, with the last number looked at       *)
(*   "handler" in the signal handler perform has called                    *)
(*   "gil"     before GILReleaseAction.perform                             *)
(*   "grab"    before the list of fired actions is taken                   *)
(*   "actions" in the loop over the list taken                             *)
(*   "taking"  in UserDelAction.perform, before the list of the dying      *)
(*             objects is replaced; "dels" in its loop over that list      *)
(*   "trace", "del"  in the function the current action has called         *)
(***************************************************************************)
EXTENDS Integers, Sequences, FiniteSets

CONSTANTS Thread, Main,
          Sig,            \* signal numbers with a handler
          Del,            \* objects with a __del__
          CheckInterval,  \* checkinterval_scaled, in steps of one opcode
          HasCounter,     \* has_bytecode_counter: the thread module is used
          MayRaise,       \* which of "handler" and "trace" may raise
          MaxDepth        \* bound on nested activations of the dispatcher

ASSUME ActionConstants ==
    /\ Main \in Thread
    /\ Sig \subseteq Nat /\ IsFiniteSet(Sig)
    /\ CheckInterval \in Nat \ {0}
    /\ HasCounter \in BOOLEAN
    /\ ~HasCounter => Thread = {Main}
    /\ MayRaise \subseteq {"handler", "trace"}
    /\ MaxDepth \in Nat

Action == {"del", "trace"}
None == -1                      \* no pending signal
Nothing == CheckInterval + 1    \* decrement_ticker is not running

VARIABLES
    cur,            \* the thread that holds the GIL
    stack,          \* activations of the dispatcher, per thread
    ticker,         \* pypysig_counter.value
    loaded,         \* decrement_ticker between its read and its write
    fired,          \* action._fired
    queue,          \* fired_actions, <<>> for None
    storing,        \* fire between its mark and its store: the list with
                    \* the new action at its end; else <<>>
    sigflags,       \* pypysig_flags
    occurred,       \* pypysig_occurred
    pushing,        \* how far pypysig_pushback of each signal has come
    pending,        \* CheckSignalAction.pending_signal
    fireInMain,     \* CheckSignalAction.fire_in_main_thread
    dying,          \* UserDelAction.dying_objects
    locked          \* UserDelAction.finalizers_lock_count > 0

firing  == <<fired, queue, storing, ticker>>
flags   == <<sigflags, occurred, pushing>>
signals == <<flags, pending, fireInMain>>
dels    == <<dying, locked>>
vars == <<cur, stack, ticker, loaded, fired, queue, storing,
          sigflags, occurred, pushing, pending, fireInMain, dying, locked>>

Init == /\ cur = Main
        /\ stack = [t \in Thread |-> <<>>]
        /\ ticker = 0
        /\ loaded = Nothing
        /\ fired = [a \in Action |-> FALSE]
        /\ queue = <<>> /\ storing = <<>>
        /\ sigflags = {} /\ occurred = FALSE
        /\ pushing = [s \in Sig |-> "idle"]
        /\ pending = None /\ fireInMain = FALSE
        /\ dying = <<>> /\ locked = FALSE

-----------------------------------------------------------------------------
Top(t) == stack[t][Len(stack[t])]

(* The program, rather than the dispatcher, is what the thread executes.   *)
InProgram(t) == stack[t] # <<>> => Top(t).at \in {"handler", "trace", "del"}

Holds(t) == cur = t /\ loaded = Nothing /\ storing = <<>>

At(t, where) == Holds(t) /\ stack[t] # <<>> /\ Top(t).at = where

(* The innermost activation of t moves on, with some fields changed.       *)
Move(t, top) == stack' = [stack EXCEPT ![t][Len(stack[t])] = top]
Goto(t, where) == Move(t, [Top(t) EXCEPT !.at = where, !.what = None])
Pop(t) == stack' = [stack EXCEPT ![t] = SubSeq(@, 1, Len(@) - 1)]

(* AbstractActionFlag.fire begins: an action not fired yet is marked, and  *)
(* the list read.  Then the code allocates, a new list or room in the old  *)
(* one, and a collection may call interp-level finalizers.                 *)
Fire(a) ==
    \/ fired[a] /\ UNCHANGED <<fired, storing>>
    \/ ~fired[a] /\ fired' = [fired EXCEPT ![a] = TRUE] /\ storing' = Append(queue, a)

(* Defect: fire leaves the ticker alone.                                   *)
fire_store_Unarmed(t) ==
    /\ cur = t /\ storing # <<>>
    /\ queue' = storing /\ storing' = <<>>
    /\ UNCHANGED <<cur, stack, ticker, loaded, fired, signals, dels>>

(* The end of fire: whatever was listed since the list was read is lost.   *)
fire_store(t) ==
    /\ cur = t /\ storing # <<>>
    /\ queue' = storing /\ storing' = <<>> /\ ticker' = -1
    /\ UNCHANGED <<cur, stack, loaded, fired, signals, dels>>

(* fire called by a finalizer, which no other one interrupts.              *)
FireAtOnce(a) ==
    /\ UNCHANGED storing
    /\ \/ fired[a] /\ UNCHANGED <<fired, queue, ticker>>
       \/ /\ ~fired[a]
          /\ fired' = [fired EXCEPT ![a] = TRUE]
          /\ queue' = Append(queue, a)
          /\ ticker' = -1

-----------------------------------------------------------------------------
(* The C signal handler: it runs at any moment, also inside                *)
(* decrement_ticker and pypysig_poll, and on any processor.  (A second one *)
(* for the same signal waits for the first: it would write the same.)      *)

Stage(s, from, to) ==
    /\ pushing[s] = from
    /\ pushing' = [pushing EXCEPT ![s] = to]
    /\ UNCHANGED <<cur, stack, loaded, fired, queue, storing, pending, fireInMain, dels>>

(* pypysig_pushback: the flag, pypysig_occurred and the counter, in turn.  *)
signal_setflag_handler(s) ==
    Stage(s, "idle", "flagged") /\ sigflags' = sigflags \cup {s} /\ UNCHANGED <<occurred, ticker>>

pushback_occurred(s) ==
    Stage(s, "flagged", "noticed") /\ occurred' = TRUE /\ UNCHANGED <<sigflags, ticker>>

pushback_counter(s) ==
    Stage(s, "noticed", "idle") /\ ticker' = -1 /\ UNCHANGED <<sigflags, occurred>>

pushback(s) == signal_setflag_handler(s) \/ pushback_occurred(s) \/ pushback_counter(s)

-----------------------------------------------------------------------------
(* The program between two opcodes                                         *)

(* thread.interrupt_main: pypysig_pushback by the thread that has the GIL. *)
set_interrupt(t, s) ==
    /\ Holds(t) /\ InProgram(t)
    /\ sigflags' = sigflags \cup {s} /\ occurred' = TRUE /\ ticker' = -1
    /\ fireInMain' = TRUE
    /\ UNCHANGED <<cur, stack, loaded, fired, queue, storing, pushing, pending, dels>>

(* sys.settrace, call_tracing, returning from a hidden frame               *)
settrace(t) ==
    /\ Holds(t) /\ InProgram(t)
    /\ Fire("trace")
    /\ UNCHANGED <<cur, stack, ticker, loaded, queue, signals, dels>>

Listed(a, list) == \E k \in 1..Len(list) : list[k] = a

(* o is waiting for its __del__.                                           *)
Waits(o) == \/ Listed(o, dying)
            \/ \E t \in Thread : \E k \in 1..Len(stack[t]) : Listed(o, stack[t][k].todo)

(* The GC finds o dead: at any allocation, even inside the dispatcher or   *)
(* inside fire.                                                            *)
register_callback(o) ==
    /\ loaded = Nothing
    /\ ~Waits(o)
    /\ dying' = Append(dying, o)
    /\ FireAtOnce("del")
    /\ UNCHANGED <<cur, stack, loaded, signals, locked>>

(* gc.disable_finalizers and gc.enable_finalizers, which gc.disable and    *)
(* gc.enable call once: the count that they change may stay above 0.       *)
disable_finalizers(t) ==
    /\ Holds(t) /\ InProgram(t)
    /\ locked' = TRUE
    /\ UNCHANGED <<cur, stack, loaded, firing, signals, dying>>

(* Defect: the objects that died meanwhile are not scheduled.              *)
enable_finalizers_Silent(t) ==
    /\ Holds(t) /\ InProgram(t)
    /\ locked /\ locked' \in BOOLEAN
    /\ UNCHANGED <<cur, stack, loaded, firing, signals, dying>>

enable_finalizers(t) ==
    /\ Holds(t) /\ InProgram(t)
    /\ locked /\ locked' \in BOOLEAN
    /\ Fire("del")
    /\ UNCHANGED <<cur, stack, ticker, loaded, queue, signals, dying>>

(* sys.setcheckinterval *)
setcheckinterval(t) ==
    /\ Holds(t) /\ InProgram(t)
    /\ ticker' = -1
    /\ UNCHANGED <<cur, stack, loaded, fired, queue, storing, signals, dels>>

(* CheckSignalAction._after_thread_switch, by the thread that has the GIL; *)
(* a hook of the thread module.                                            *)
Rearms(t) == HasCounter /\ fireInMain /\ t = Main

(* Defect: the main thread is not told of a signal another one has polled. *)
AfterSwitch_Off(t) == UNCHANGED <<fireInMain, ticker>>

AfterSwitch(t) ==
    \/ Rearms(t) /\ fireInMain' = FALSE /\ ticker' = -1
    \/ ~Rearms(t) /\ UNCHANGED <<fireInMain, ticker>>

(* An external call releases the GIL; some thread takes it.                *)
external_call(t, u) ==
    /\ Holds(t) /\ InProgram(t)
    /\ cur' = u
    /\ AfterSwitch(u)
    /\ UNCHANGED <<stack, loaded, fired, queue, storing, flags, pending, dels>>

-----------------------------------------------------------------------------
(* bytecode_trace                                                          *)

(* Defect: an opcode too many before the next dispatch.                    *)
BeginDispatch_OffByOne(t) ==
    /\ Len(stack[t]) < MaxDepth
    /\ stack' = [stack EXCEPT ![t] =
                   Append(@, [at |-> "poll", rest |-> <<>>, todo |-> <<>>, what |-> None])]
    /\ ticker' = CheckInterval + 1

(* action_dispatcher begins: first reset the ticker.                       *)
BeginDispatch(t) ==
    /\ Len(stack[t]) < MaxDepth
    /\ stack' = [stack EXCEPT ![t] =
                   Append(@, [at |-> "poll", rest |-> <<>>, todo |-> <<>>, what |-> None])]
    /\ ticker' = CheckInterval

Unticked == UNCHANGED <<cur, fired, queue, storing, signals, dels>>

(* Without a counter the ticker is only read.                              *)
opcode(t) ==
    /\ ~HasCounter
    /\ Holds(t) /\ InProgram(t)
    /\ ticker < 0 /\ BeginDispatch(t)
    /\ UNCHANGED loaded /\ Unticked

(* With one, it is read, decremented and written back.                     *)
decrement_load(t) ==
    /\ HasCounter
    /\ Holds(t) /\ InProgram(t) /\ (ticker - 1 < 0 => Len(stack[t]) < MaxDepth)
    /\ loaded' = ticker
    /\ UNCHANGED <<stack, ticker>> /\ Unticked

decrement_store(t) ==
    /\ cur = t /\ loaded # Nothing
    /\ loaded' = Nothing
    /\ \/ loaded - 1 < 0 /\ BeginDispatch(t)
       \/ loaded - 1 >= 0 /\ ticker' = loaded - 1 /\ UNCHANGED stack
    /\ Unticked

(* bytecode_trace_after_exception *)
after_exception(t) ==
    /\ Holds(t) /\ InProgram(t)
    /\ ticker < 0 /\ BeginDispatch(t)
    /\ UNCHANGED loaded /\ Unticked

-----------------------------------------------------------------------------
(* The periodic actions                                                    *)

StopPolling(t) == Move(t, [Top(t) EXCEPT !.at = "gil", !.what = None])

CallHandler(t, n) == Move(t, [Top(t) EXCEPT !.at = "handler", !.what = n])

(* Defect: the signal is put aside, and nobody is told.                    *)
Handle_PutAside(t, n) ==
    \/ n = None /\ StopPolling(t) /\ UNCHANGED <<pending, fireInMain>>
    \/ n # None /\ t = Main /\ CallHandler(t, n) /\ pending' = None /\ UNCHANGED fireInMain
    \/ n # None /\ t # Main /\ StopPolling(t) /\ pending' = n /\ UNCHANGED fireInMain

(* What perform does with the signal n it has got: the main thread calls   *)
(* the handler, another one puts it aside.                                 *)
Handle(t, n) ==
    \/ n = None /\ StopPolling(t) /\ UNCHANGED <<pending, fireInMain>>
    \/ n # None /\ t = Main /\ CallHandler(t, n) /\ pending' = None /\ UNCHANGED fireInMain
    \/ n # None /\ t # Main /\ StopPolling(t) /\ pending' = n /\ fireInMain' = TRUE

(* CheckSignalAction.perform, one turn of its loop, up to pypysig_poll.    *)
check_signal(t) ==
    /\ At(t, "poll")
    /\ \/ pending # None /\ Handle(t, pending) /\ UNCHANGED occurred
       \/ pending = None /\ ~occurred /\ Handle(t, None) /\ UNCHANGED occurred
       \/ /\ pending = None /\ occurred
          /\ occurred' = FALSE
          /\ Move(t, [Top(t) EXCEPT !.at = "scan", !.what = None])
          /\ UNCHANGED <<pending, fireInMain>>
    /\ UNCHANGED <<cur, loaded, firing, sigflags, pushing, dels>>

Ahead(t) == {s \in Sig : s > Top(t).what}

(* pypysig_poll, one turn of its loop over the flags.                      *)
pypysig_poll(t) ==
    /\ At(t, "scan")
    /\ \/ Ahead(t) = {} /\ Handle(t, None) /\ UNCHANGED <<sigflags, occurred>>
       \/ \E i \in Ahead(t) :
            /\ \A j \in Ahead(t) : i <= j
            /\ \/ /\ i \notin sigflags
                  /\ Move(t, [Top(t) EXCEPT !.what = i])
                  /\ UNCHANGED <<sigflags, occurred, pending, fireInMain>>
               \/ /\ i \in sigflags
                  /\ sigflags' = sigflags \ {i} /\ occurred' = TRUE
                  /\ Handle(t, i)
    /\ UNCHANGED <<cur, loaded, firing, pushing, dels>>

(* do_yield_thread: nothing when no thread waits for the GIL; else one     *)
(* gets it, which may be t again.                                          *)
release_gil(t, u) ==
    /\ At(t, "gil")
    /\ cur' = u
    /\ Goto(t, "grab")
    /\ \/ u = t /\ UNCHANGED <<fireInMain, ticker>>
       \/ AfterSwitch(u)
    /\ UNCHANGED <<loaded, fired, queue, storing, flags, pending, dels>>

-----------------------------------------------------------------------------
(* The other actions                                                       *)

grab_actions(t) ==
    /\ At(t, "grab")
    /\ Move(t, [Top(t) EXCEPT !.at = "actions", !.rest = queue])
    /\ queue' = <<>>
    /\ UNCHANGED <<cur, ticker, loaded, fired, storing, signals, dels>>

end_dispatch(t) ==
    /\ At(t, "actions") /\ Top(t).rest = <<>>
    /\ Pop(t)
    /\ UNCHANGED <<cur, loaded, firing, signals, dels>>

NextAction(t, a) == /\ At(t, "actions")
                    /\ Top(t).rest # <<>> /\ Head(Top(t).rest) = a

(* Defects: the action is unmarked only after perform; perform drops the   *)
(* dying objects while finalizers are disabled.                            *)
user_del_MarkedLong(t) ==
    /\ NextAction(t, "del")
    /\ Move(t, [Top(t) EXCEPT !.at = IF locked THEN @ ELSE "taking", !.rest = Tail(@)])
    /\ UNCHANGED <<cur, firing, loaded, signals, dels>>

user_del_Forgets(t) ==
    /\ NextAction(t, "del")
    /\ fired' = [fired EXCEPT !["del"] = FALSE]
    /\ \/ /\ locked /\ dying' = <<>>
          /\ Move(t, [Top(t) EXCEPT !.rest = Tail(@)])
       \/ /\ ~locked /\ UNCHANGED dying
          /\ Move(t, [Top(t) EXCEPT !.at = "taking", !.rest = Tail(@)])
    /\ UNCHANGED <<cur, ticker, loaded, queue, storing, signals, locked>>

(* UserDelAction.perform returns at once while finalizers are disabled.    *)
user_del(t) ==
    /\ NextAction(t, "del")
    /\ fired' = [fired EXCEPT !["del"] = FALSE]
    /\ \/ locked /\ Move(t, [Top(t) EXCEPT !.rest = Tail(@)])
       \/ ~locked /\ Move(t, [Top(t) EXCEPT !.at = "taking", !.rest = Tail(@)])
    /\ UNCHANGED <<cur, ticker, loaded, queue, storing, signals, dels>>

(* Defect: perform does not empty the list it goes through.                *)
take_dying_Shares(t) ==
    /\ At(t, "taking")
    /\ Move(t, [Top(t) EXCEPT !.at = "dels", !.todo = dying])
    /\ UNCHANGED <<cur, firing, loaded, signals, dels>>

(* Else it takes all the dying objects, those included that a collection   *)
(* finds while it allocates the new list.                                  *)
take_dying(t) ==
    /\ At(t, "taking")
    /\ Move(t, [Top(t) EXCEPT !.at = "dels", !.todo = dying])
    /\ dying' = <<>>
    /\ UNCHANGED <<cur, firing, loaded, signals, locked>>

next_del(t) ==
    /\ At(t, "dels")
    /\ \/ /\ Top(t).todo = <<>>
          /\ Goto(t, "actions")
       \/ /\ Top(t).todo # <<>>
          /\ Move(t, [Top(t) EXCEPT !.at = "del", !.what = Head(Top(t).todo), !.todo = Tail(@)])
    /\ UNCHANGED <<cur, loaded, firing, signals, dels>>

(* FrameTraceAction.perform: nothing when no function is set or one is     *)
(* running; else it fires itself again, at once or after the call.  (One   *)
(* that is running does not count inside of call_tracing.)                 *)
frame_trace(t) ==
    /\ NextAction(t, "trace")
    /\ LET after == [Top(t) EXCEPT !.rest = Tail(@)] IN
       \/ /\ Move(t, after)
          /\ fired' = [fired EXCEPT !["trace"] = FALSE]
          /\ UNCHANGED storing
       \/ /\ Move(t, after)
          /\ storing' = Append(queue, "trace")
          /\ UNCHANGED fired
       \/ /\ Move(t, [after EXCEPT !.at = "trace"])
          /\ fired' = [fired EXCEPT !["trace"] = FALSE]
          /\ UNCHANGED storing
    /\ UNCHANGED <<cur, ticker, loaded, queue, signals, dels>>

(* What the dispatcher called returns, or a __del__ raises: its exception  *)
(* is printed and dropped.                                                 *)
callback_returns(t) ==
    \/ At(t, "handler") /\ Goto(t, "poll") /\ UNCHANGED <<cur, loaded, firing, signals, dels>>
    \/ At(t, "del") /\ Goto(t, "dels") /\ UNCHANGED <<cur, loaded, firing, signals, dels>>
    \/ At(t, "trace") /\ Fire("trace") /\ Goto(t, "actions")
         /\ UNCHANGED <<cur, ticker, loaded, queue, signals, dels>>

(* An exception of a signal handler or a trace function leaves perform and *)
(* the dispatcher with it.                                                 *)
callback_raises(t) ==
    \/ "handler" \in MayRaise /\ At(t, "handler")
         /\ Pop(t) /\ UNCHANGED <<cur, loaded, firing, signals, dels>>
    \/ "trace" \in MayRaise /\ At(t, "trace")
         /\ Fire("trace") /\ Pop(t) /\ UNCHANGED <<cur, ticker, loaded, queue, signals, dels>>

-----------------------------------------------------------------------------
Interpret(t) == \/ opcode(t) \/ decrement_load(t) \/ decrement_store(t)
                \/ check_signal(t) \/ pypysig_poll(t) \/ grab_actions(t) \/ end_dispatch(t)
                \/ user_del(t) \/ take_dying(t) \/ next_del(t) \/ frame_trace(t)
                \/ callback_returns(t)

Program(t) == \/ settrace(t) \/ setcheckinterval(t)
              \/ disable_finalizers(t) \/ enable_finalizers(t)
              \/ after_exception(t) \/ callback_raises(t)
              \/ \E s \in Sig : set_interrupt(t, s)

Switch(u) == \E t \in Thread : external_call(t, u) \/ release_gil(t, u)

Outside == \/ \E s \in Sig : pushback(s)
           \/ \E o \in Del : register_callback(o)

Next == \/ \E t \in Thread : Interpret(t) \/ Program(t) \/ Switch(t) \/ fire_store(t)
        \/ Outside

Spec == Init /\ [][Next]_vars

(* Opcodes end, each thread gets the GIL again and again, and the function *)
(* an activation has called executes finitely many opcodes.                *)
Fairness ==
    /\ \A t \in Thread :
          /\ SF_vars(Interpret(t))
          /\ SF_vars(Switch(t))
          /\ \A depth \in 1..MaxDepth : SF_vars(Len(stack[t]) = depth /\ callback_returns(t))
    /\ \A t \in Thread : WF_vars(fire_store(t))
    /\ \A s \in Sig : WF_vars(pushback_occurred(s) \/ pushback_counter(s))

FairSpec == Spec /\ Fairness

-----------------------------------------------------------------------------
Activation == [at : {"poll", "scan", "handler", "gil", "grab", "actions", "taking", "dels", "trace", "del"},
               rest : Seq(Action), todo : Seq(Del), what : Sig \cup Del \cup {None}]

TypeOK ==
    /\ cur \in Thread
    /\ stack \in [Thread -> Seq(Activation)]
    /\ ticker \in -1..CheckInterval
    /\ loaded \in -1..CheckInterval + 1
    /\ fired \in [Action -> BOOLEAN]
    /\ queue \in Seq(Action) /\ storing \in Seq(Action)
    /\ sigflags \subseteq Sig /\ occurred \in BOOLEAN
    /\ pushing \in [Sig -> {"idle", "flagged", "noticed"}]
    /\ pending \in Sig \cup {None} /\ fireInMain \in BOOLEAN
    /\ dying \in Seq(Del) /\ locked \in BOOLEAN

(* An action is in the list of fired actions, in the one that a fire() is  *)
(* about to store, or in one a dispatcher has taken and not finished.      *)
Scheduled(a) ==
    \/ Listed(a, queue) \/ Listed(a, storing)
    \/ \E t \in Thread : \E k \in 1..Len(stack[t]) : Listed(a, stack[t][k].rest)

(* A finalizer has fired "del" inside a fire() that had read the list      *)
(* before: storing that list drops "del".                                  *)
Overwriting == storing # <<>> /\ Listed("del", queue) /\ ~Listed("del", storing)

(* An action that is marked and in no list can never be fired again: fire  *)
(* would do nothing.  So one that is marked is put in a list in that step  *)
(* and stays in one until it is unmarked; and only the end of a fire() in  *)
(* which a finalizer ran loses one, always UserDelAction.                  *)
ActionsKept ==
    [][\A a \in Action : fired'[a] =>
          \/ Scheduled(a)'
          \/ fired[a] /\ ~Scheduled(a)
          \/ a = "del" /\ Overwriting /\ queue' = storing]_vars

PeriodicPhase(t) == \E k \in 1..Len(stack[t]) :
                       stack[t][k].at \in {"poll", "scan", "handler", "gil", "grab"}

(* "Request for the action to be run before the next opcode": while        *)
(* actions are listed, the ticker forces the dispatcher at the next opcode *)
(* or a dispatcher is on its way to take the list.                         *)
QueueArmed == queue # <<>> => ticker < 0 \/ \E t \in Thread : PeriodicPhase(t)

(* No action is in two lists, or twice in one: it runs once per firing.    *)
QueuedOnce ==
    /\ \A i, j \in 1..Len(queue) : queue[i] = queue[j] => i = j
    /\ \A t \in Thread : \A k \in 1..Len(stack[t]), i \in 1..Len(queue) :
          ~Listed(queue[i], stack[t][k].rest)

(* Objects waiting for their __del__ are never forgotten: the action that  *)
(* calls it is marked as fired, or its perform is about to take them, or   *)
(* finalizers are disabled, and enabling them fires it.                    *)
Taking(t) == stack[t] # <<>> /\ Top(t).at = "taking"

DyingScheduled == dying # <<>> => fired["del"] \/ locked \/ Taking(cur)

Polling(t) == \E k \in 1..Len(stack[t]) : stack[t][k].at \in {"poll", "handler"}

(* The loop over the flags has still to look at s.                         *)
WillSee(t, s) == \E k \in 1..Len(stack[t]) : stack[t][k].at = "scan" /\ s > stack[t][k].what

(* A signal that is flagged is about to be looked at: once the C handler   *)
(* has written pypysig_occurred, that is set or the loop over the flags    *)
(* has still to come by; once it has armed the ticker, that is negative or *)
(* a thread polls (with a counter the C handler's -1 may be lost to a      *)
(* decrement, but the counter runs down).  A signal polled by a thread     *)
(* that may not handle it waits for the main thread's next turn.           *)
SignalArmed ==
    /\ \A s \in sigflags :
         LET seen == \E t \in Thread : WillSee(t, s) IN
         /\ pushing[s] # "flagged" => occurred \/ seen
         /\ pushing[s] = "idle" =>
               HasCounter \/ ticker < 0 \/ seen \/ \E t \in Thread : Polling(t)
    /\ pending # None => fireInMain \/ ticker < 0 \/ \E t \in Thread : Polling(t)

(* Nothing cancels a call that is owed: a flagged signal is handled in the *)
(* main thread, or put aside by another one and then handled; each object  *)
(* that dies gets one __del__; and both whatever raises.                   *)
Calling(activation) ==
    IF activation.at \in {"handler", "del"}
      THEN [kind |-> activation.at, arg |-> activation.what]
      ELSE [kind |-> IF activation.at = "trace" THEN "trace" ELSE "none"]

Activity == [t \in Thread |-> [k \in 1..Len(stack[t]) |-> Calling(stack[t][k])]]

Owed == INSTANCE OwedCalls WITH
    raised <- sigflags,
    aside  <- {pending} \ {None},
    dead   <- {o \in Del : Waits(o)},
    calls  <- Activity

CallsAsOwed == Owed!Spec

Calls(t, where, x) == \E k \in 1..Len(stack[t]) : stack[t][k].at = where /\ stack[t][k].what = x

(* Every signal flagged is handled, in the main thread, once no signal of  *)
(* a smaller number keeps coming before it: pypysig_poll takes the least.  *)
First(s) == \A r \in sigflags : r >= s

SignalDelivered == \A s \in Sig :
    <>[]First(s) => (s \in sigflags ~> Calls(Main, "handler", s))

(* Every dying object gets its __del__ called, once finalizers stay        *)
(* enabled and signals stop arriving (the handlers of an endless series of *)
(* signals keep a dispatcher from ever reaching the other actions), if no  *)
(* fire() ever overwrites what a finalizer has listed: that is the only    *)
(* way in which UserDelAction is lost.                                     *)
Quiet == ~locked /\ sigflags = {}

DelDelivered == \A o \in Del :
    []~Overwriting /\ <>[]Quiet => (Listed(o, dying) ~> \E t \in Thread : Calls(t, "del", o))
=============================================================================
