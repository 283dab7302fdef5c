-------------------------- MODULE OwedCallsProofs --------------------------
(***************************************************************************)
(* ActionFlag implements OwedCalls: whatever nests, interleaves or raises, *)
(* a signal that arrived is handled once in the main thread and nothing    *)
(* else becomes of it, and a dying object's __del__ is called once.        *)
(***************************************************************************)
EXTENDS ActionFlagProofs

Todo(t, k) == stack[t][k].todo

(* pypysig_poll is never interrupted: the activation that goes through the *)
(* flags is the innermost one of the thread that has the GIL, and no       *)
(* signal is put aside meanwhile.                                          *)
ScanAlone == \A t \in Thread : \A k \in 1..Len(stack[t]) :
    stack[t][k].at = "scan" => t = cur /\ k = Len(stack[t]) /\ pending = None

(* decrement_ticker is part of an opcode of the program.                   *)
Loading == loaded # Nothing => InProgram(cur)

(* Only UserDelAction.perform holds dying objects.                         *)
TodoEmpty == \A t \in Thread : \A k \in 1..Len(stack[t]) :
    stack[t][k].at \notin {"dels", "del"} => Todo(t, k) = <<>>

(* A dying object is at one place of one list.                             *)
DelsOnce ==
    /\ Distinct(dying)
    /\ \A t \in Thread : \A k \in 1..Len(stack[t]) :
          /\ Distinct(Todo(t, k))
          /\ \A o \in Del : Listed(o, Todo(t, k)) => ~Listed(o, dying)
    /\ \A t, u \in Thread : \A k \in 1..Len(stack[t]), j \in 1..Len(stack[u]) : \A o \in Del :
          Listed(o, Todo(t, k)) /\ Listed(o, Todo(u, j)) => t = u /\ k = j

OwedInv == TypeOK /\ ScanAlone /\ Loading /\ TodoEmpty /\ DelsOnce
-----------------------------------------------------------------------------
(***************************************************************************)
(* What the steps of ActionFlag do to the debts.  Every step is of one of  *)
(* these kinds.                                                            *)
(***************************************************************************)
debts == <<dying, sigflags, pending>>

Idles == UNCHANGED <<stack, debts>> /\ (cur' = cur \/ InProgram(cur))

Arrives(s) == sigflags' = sigflags \cup {s} /\ UNCHANGED <<cur, stack, dying, pending>>

Dies(o) == ~Waits(o) /\ dying' = Append(dying, o) /\ UNCHANGED <<cur, stack, sigflags, pending>>

Begins == InProgram(cur) /\ BeginDispatch(cur) /\ UNCHANGED <<cur, debts>>

Ends == /\ stack[cur] # <<>> /\ Top(cur).at \in {"actions", "handler", "trace"}
        /\ Pop(cur) /\ UNCHANGED <<cur, debts>>

(* The innermost activation of the running thread becomes top ...          *)
Moves(top) == stack[cur] # <<>> /\ Move(cur, top) /\ top \in Activation

(* ... and no debt changes ...                                             *)
GoesOn(top) ==
    /\ Moves(top) /\ UNCHANGED debts
    /\ cur' = cur \/ Top(cur).at = "gil"
    /\ top.todo = Top(cur).todo
    /\ top.at \notin {"handler", "del"}
    /\ top.at = "trace" => Top(cur).at = "actions"
    /\ top.at = "scan" => pending = None /\ cur' = cur
    /\ Top(cur).at \in {"dels", "del"} => top.at = "dels" \/ top.todo = <<>>

(* ... or one does.                                                        *)
Handles(top, s) ==
    /\ Moves(top) /\ UNCHANGED <<cur, dying>>
    /\ cur = Main /\ Top(cur).at \in {"poll", "scan"}
    /\ top.at = "handler" /\ top.what = s /\ top.todo = Top(cur).todo
    /\ \/ pending = s /\ UNCHANGED sigflags
       \/ pending = None /\ s \in sigflags /\ sigflags' = sigflags \ {s}
    /\ pending' = None

PutsAside(top, s) ==
    /\ Moves(top) /\ UNCHANGED <<cur, dying>>
    /\ cur # Main /\ Top(cur).at = "scan"
    /\ top.at = "gil" /\ top.todo = Top(cur).todo
    /\ s \in sigflags /\ sigflags' = sigflags \ {s}
    /\ pending = None /\ pending' = s

TakesDying(top) ==
    /\ Moves(top) /\ UNCHANGED <<cur, sigflags, pending>>
    /\ Top(cur).at = "taking" /\ top.at = "dels"
    /\ top.todo = dying /\ dying' = <<>>

Finalizes(top) ==
    /\ Moves(top) /\ UNCHANGED <<cur, debts>>
    /\ Top(cur).at = "dels" /\ Top(cur).todo # <<>>
    /\ top.at = "del" /\ top.what = Head(Top(cur).todo)
    /\ top.todo = Tail(Top(cur).todo)

Effects ==
    \/ Idles \/ Begins \/ Ends
    \/ \E s \in Sig : Arrives(s)
    \/ \E o \in Del : Dies(o)
    \/ \E top \in Activation : \/ GoesOn(top) \/ TakesDying(top) \/ Finalizes(top)
                              \/ \E s \in Sig : Handles(top, s) \/ PutsAside(top, s)

(* perform and pypysig_poll: each signal they look at is handled or put    *)
(* aside, by the thread that may do the one or the other.                  *)
LEMMA PollEffects ==
    ASSUME TypeOK, ScanAlone, NEW t \in Thread, check_signal(t) \/ pypysig_poll(t)
    PROVE  Effects
<1>1. /\ cur = t /\ stack[t] # <<>> /\ Top(t) \in Activation /\ Top(t).at \in {"poll", "scan"}
      /\ cur' = cur /\ dying' = dying
  BY PollMoves DEF dels
<1>2. None \notin Sig
  BY ActionConstants DEF None
<1> DEFINE stop == [Top(t) EXCEPT !.at = "gil", !.what = None]
           call(n) == [Top(t) EXCEPT !.at = "handler", !.what = n]
           scan(n) == [Top(t) EXCEPT !.at = "scan", !.what = n]
<1>3. stop \in Activation /\ stop.at = "gil" /\ stop.todo = Top(t).todo
  BY <1>1 DEF Activation
<1>4. \A n \in Sig : /\ call(n) \in Activation /\ call(n).at = "handler"
                      /\ call(n).what = n /\ call(n).todo = Top(t).todo
  BY <1>1 DEF Activation
<1>5. \A n \in Sig \cup {None} : /\ scan(n) \in Activation /\ scan(n).at = "scan"
                                /\ scan(n).todo = Top(t).todo
  BY <1>1 DEF Activation
<1>6. ASSUME Move(t, stop), UNCHANGED <<sigflags, pending>>
      PROVE  Effects
  <2>1. GoesOn(stop)
    BY <1>1, <1>3, <1>6 DEF GoesOn, Moves, debts
  <2> QED
    BY <1>3, <2>1 DEF Effects
<1>7. CASE check_signal(t)
  <2>1. ASSUME NEW n \in Sig, pending = n, t = Main, Move(t, call(n)),
               pending' = None, UNCHANGED sigflags
        PROVE  Effects
    <3>1. Handles(call(n), n)
      BY <1>1, <1>4, <2>1 DEF Handles, Moves
    <3> QED
      BY <1>4, <3>1 DEF Effects
  <2>2. ASSUME pending = None, Move(t, scan(None)), UNCHANGED <<sigflags, pending>>
        PROVE  Effects
    <3>1. GoesOn(scan(None))
      BY <1>1, <1>5, <2>2 DEF GoesOn, Moves, debts
    <3> QED
      BY <1>5, <3>1 DEF Effects
  <2>3. pending \in Sig \/ pending = None
    BY DEF TypeOK
  <2> QED
    BY <1>2, <1>6, <1>7, <2>1, <2>2, <2>3 DEF check_signal, Handle, StopPolling, CallHandler
<1>8. CASE pypysig_poll(t)
  <2>1. Top(t).at = "scan" /\ pending = None
    <3>1. Top(t).at = "scan"
      BY <1>8 DEF pypysig_poll, At
    <3>2. Len(stack[t]) \in 1..Len(stack[t])
      BY <1>1, TopActivation DEF TypeOK, StackOK
    <3> QED
      BY <3>1, <3>2 DEF ScanAlone, Top
  <2>2. ASSUME NEW i \in Sig, Move(t, [Top(t) EXCEPT !.what = i]),
               UNCHANGED <<sigflags, pending>>
        PROVE  Effects
    <3>1. [Top(t) EXCEPT !.what = i] = scan(i)
      BY <1>1, <2>1 DEF Activation
    <3>2. GoesOn(scan(i))
      BY <1>1, <1>5, <2>1, <2>2, <3>1 DEF GoesOn, Moves, debts
    <3> QED
      BY <1>5, <3>2 DEF Effects
  <2>3. ASSUME NEW i \in Sig, i \in sigflags, sigflags' = sigflags \ {i},
               t = Main, Move(t, call(i)), pending' = None
        PROVE  Effects
    <3>1. Handles(call(i), i)
      BY <1>1, <1>4, <2>1, <2>3 DEF Handles, Moves
    <3> QED
      BY <1>4, <3>1 DEF Effects
  <2>4. ASSUME NEW i \in Sig, i \in sigflags, sigflags' = sigflags \ {i},
               t # Main, Move(t, stop), pending' = i
        PROVE  Effects
    <3>1. PutsAside(stop, i)
      BY <1>1, <1>3, <2>1, <2>4 DEF PutsAside, Moves
    <3> QED
      BY <1>3, <3>1 DEF Effects
  <2>5. CASE Handle(t, None) /\ UNCHANGED sigflags
    BY <1>6, <2>5 DEF Handle, StopPolling
  <2> QED
    BY <1>2, <1>8, <2>2, <2>3, <2>4, <2>5 DEF pypysig_poll, Ahead, Handle, StopPolling, CallHandler
<1> QED
  BY <1>7, <1>8

(* Every step is of one of the kinds.                                      *)
LEMMA NextEffects ==
    ASSUME TypeOK, ScanAlone, Loading, [Next]_vars
    PROVE  Effects
<1> USE DEF Holds, At
<1>1. StackOK
  BY DEF TypeOK, StackOK
<1>2. ASSUME NEW t \in Thread, opcode(t) \/ after_exception(t) \/ decrement_load(t) \/ decrement_store(t)
      PROVE  Effects
  <2>1. cur = t /\ InProgram(t) /\ UNCHANGED <<cur, debts>> /\ (stack' = stack \/ BeginDispatch(t))
    BY <1>2 DEF opcode, after_exception, decrement_load, decrement_store, Loading,
       Unticked, signals, flags, dels, debts
  <2>2. Idles \/ Begins
    BY <2>1 DEF Idles, Begins, debts
  <2> QED
    BY <2>2 DEF Effects
<1>3. ASSUME NEW t \in Thread, check_signal(t) \/ pypysig_poll(t)
      PROVE  Effects
  BY <1>3, PollEffects
<1>4. ASSUME NEW t \in Thread, NEW top \in Activation,
             cur = t, stack[t] # <<>>, Move(t, top), UNCHANGED debts,
             top.todo = Top(t).todo, top.at \notin {"handler", "del", "scan"},
             top.at = "trace" => Top(t).at = "actions",
             Top(t).at \in {"dels", "del"} => top.at = "dels" \/ top.todo = <<>>,
             cur' = cur \/ Top(t).at = "gil"
      PROVE  Effects
  <2>1. GoesOn(top)
    BY <1>4 DEF GoesOn, Moves
  <2> QED
    BY <2>1 DEF Effects
<1>5. ASSUME NEW t \in Thread, NEW u \in Thread, release_gil(t, u)
      PROVE  Effects
  <2>1. Top(t) \in Activation /\ cur = t /\ stack[t] # <<>> /\ Top(t).at = "gil" /\ UNCHANGED debts
    BY <1>1, <1>5, TopActivation DEF release_gil, flags, dels, debts
  <2> DEFINE top == [Top(t) EXCEPT !.at = "grab", !.what = None]
  <2>2. top \in Activation /\ top.at = "grab" /\ top.todo = Top(t).todo /\ Move(t, top)
    BY <1>5, <2>1 DEF Activation, release_gil, Goto
  <2> QED
    BY <1>4, <2>1, <2>2
<1>6. ASSUME NEW t \in Thread, grab_actions(t)
      PROVE  Effects
  <2>1. Top(t) \in Activation /\ cur = t /\ cur' = cur /\ stack[t] # <<>> /\ Top(t).at = "grab" /\ UNCHANGED debts
    BY <1>1, <1>6, TopActivation DEF grab_actions, signals, flags, dels, debts
  <2> DEFINE top == [Top(t) EXCEPT !.at = "actions", !.rest = queue]
  <2>2. top \in Activation /\ top.at = "actions" /\ top.todo = Top(t).todo /\ Move(t, top)
    BY <1>6, <2>1 DEF Activation, TypeOK, grab_actions
  <2> QED
    BY <1>4, <2>1, <2>2
<1>7. ASSUME NEW t \in Thread, end_dispatch(t) \/ callback_raises(t)
      PROVE  Effects
  <2>1. Ends
    BY <1>7 DEF end_dispatch, callback_raises, Ends, signals, flags, dels, debts
  <2> QED
    BY <2>1 DEF Effects
<1>8. ASSUME NEW t \in Thread, NEW a \in Action, NextAction(t, a)
      PROVE  /\ Top(t) \in Activation /\ cur = t /\ stack[t] # <<>> /\ Top(t).at = "actions"
             /\ [Top(t) EXCEPT !.rest = Tail(@)] \in Activation
             /\ [Top(t) EXCEPT !.at = "trace", !.rest = Tail(@)] \in Activation
             /\ [Top(t) EXCEPT !.at = "taking", !.rest = Tail(@)] \in Activation
  <2>1. Top(t) \in Activation /\ Tail(Top(t).rest) \in Seq(Action)
    BY <1>1, <1>8, TopActivation, Take DEF NextAction
  <2> QED
    BY <1>8, <2>1 DEF NextAction, Activation, TypeOK
<1>9. ASSUME NEW t \in Thread, user_del(t)
      PROVE  Effects
  <2> DEFINE top1 == [Top(t) EXCEPT !.rest = Tail(@)]
             top2 == [Top(t) EXCEPT !.at = "taking", !.rest = Tail(@)]
  <2>1. NextAction(t, "del") /\ UNCHANGED <<cur, debts>>
    BY <1>9 DEF user_del, signals, flags, dels, debts
  <2>2. /\ Top(t) \in Activation /\ cur = t /\ stack[t] # <<>> /\ Top(t).at = "actions"
        /\ top1 \in Activation /\ top2 \in Activation
    BY <1>8, <2>1 DEF Action
  <2>3. /\ top1.at = "actions" /\ top1.todo = Top(t).todo
        /\ top2.at = "taking" /\ top2.todo = Top(t).todo
    BY <2>2 DEF Activation
  <2>4. Move(t, top1) \/ Move(t, top2)
    BY <1>9 DEF user_del
  <2> HIDE DEF top1, top2
  <2> QED
    BY <1>4, <2>1, <2>2, <2>3, <2>4
<1>18. ASSUME NEW t \in Thread, take_dying(t)
       PROVE  Effects
  <2> DEFINE top == [Top(t) EXCEPT !.at = "dels", !.todo = dying]
  <2>1. /\ Top(t) \in Activation /\ cur = t /\ stack[t] # <<>> /\ Top(t).at = "taking"
        /\ UNCHANGED <<cur, sigflags, pending>>
    BY <1>1, <1>18, TopActivation DEF take_dying, signals, flags
  <2>2. top \in Activation /\ top.at = "dels" /\ top.todo = dying
    BY <2>1 DEF Activation, TypeOK
  <2>3. Move(t, top) /\ dying' = <<>>
    BY <1>18 DEF take_dying
  <2> HIDE DEF top
  <2>4. TakesDying(top)
    BY <2>1, <2>2, <2>3 DEF TakesDying, Moves
  <2> QED
    BY <2>2, <2>4 DEF Effects
<1>10. ASSUME NEW t \in Thread, frame_trace(t)
       PROVE  Effects
  <2> DEFINE top1 == [Top(t) EXCEPT !.rest = Tail(@)]
             top2 == [Top(t) EXCEPT !.at = "trace", !.rest = Tail(@)]
  <2>1. NextAction(t, "trace") /\ UNCHANGED <<cur, debts>>
    BY <1>10 DEF frame_trace, signals, flags, dels, debts
  <2>2. /\ Top(t) \in Activation /\ cur = t /\ stack[t] # <<>> /\ Top(t).at = "actions"
        /\ top1 \in Activation /\ top2 \in Activation
    BY <1>8, <2>1 DEF Action
  <2>3. /\ top1.at = "actions" /\ top1.todo = Top(t).todo
        /\ top2.at = "trace" /\ top2.todo = Top(t).todo
        /\ top2 = [top1 EXCEPT !.at = "trace"]
    BY <2>2 DEF Activation
  <2>4. Move(t, top1) \/ Move(t, top2)
    BY <1>10, <2>3 DEF frame_trace
  <2> HIDE DEF top1, top2
  <2> QED
    BY <1>4, <2>1, <2>2, <2>3, <2>4
<1>11. ASSUME NEW t \in Thread, next_del(t)
       PROVE  Effects
  <2> DEFINE top1 == [Top(t) EXCEPT !.at = "actions", !.what = None]
             top2 == [Top(t) EXCEPT !.at = "del", !.what = Head(Top(t).todo), !.todo = Tail(@)]
  <2>1. cur = t /\ stack[t] # <<>> /\ Top(t).at = "dels" /\ Top(t) \in Activation /\ UNCHANGED <<cur, debts>>
    BY <1>1, <1>11, TopActivation DEF next_del, signals, flags, dels, debts
  <2>2. /\ top1 \in Activation /\ top1.at = "actions" /\ top1.todo = Top(t).todo
        /\ Top(t).todo # <<>> => /\ top2 \in Activation /\ top2.at = "del"
                                 /\ top2.what = Head(Top(t).todo) /\ top2.todo = Tail(Top(t).todo)
    BY <2>1, Take DEF Activation
  <2>3. \/ Top(t).todo = <<>> /\ Move(t, top1)
        \/ Top(t).todo # <<>> /\ Move(t, top2)
    BY <1>11 DEF next_del, Goto
  <2> HIDE DEF top1, top2
  <2>4. CASE Top(t).todo = <<>> /\ Move(t, top1)
    BY <1>4, <2>1, <2>2, <2>4
  <2>5. CASE Top(t).todo # <<>> /\ Move(t, top2)
    <3>1. Finalizes(top2)
      BY <2>1, <2>2, <2>5 DEF Finalizes, Moves
    <3> QED
      BY <2>2, <2>5, <3>1 DEF Effects
  <2> QED
    BY <2>3, <2>4, <2>5
<1>12. ASSUME NEW t \in Thread, callback_returns(t)
       PROVE  Effects
  <2>1. cur = t /\ stack[t] # <<>> /\ Top(t) \in Activation /\ UNCHANGED <<cur, debts>>
    BY <1>1, <1>12, TopActivation DEF callback_returns, signals, flags, dels, debts
  <2>2. \A where \in {"poll", "dels", "actions"} :
           /\ [Top(t) EXCEPT !.at = where, !.what = None] \in Activation
           /\ [Top(t) EXCEPT !.at = where, !.what = None].at = where
           /\ [Top(t) EXCEPT !.at = where, !.what = None].todo = Top(t).todo
    BY <2>1 DEF Activation
  <2>3. \/ Top(t).at = "handler" /\ Move(t, [Top(t) EXCEPT !.at = "poll", !.what = None])
        \/ Top(t).at = "del" /\ Move(t, [Top(t) EXCEPT !.at = "dels", !.what = None])
        \/ Top(t).at = "trace" /\ Move(t, [Top(t) EXCEPT !.at = "actions", !.what = None])
    BY <1>12 DEF callback_returns, Goto
  <2> QED
    BY <1>4, <2>1, <2>2, <2>3
<1>13. ASSUME NEW t \in Thread, \/ settrace(t) \/ setcheckinterval(t) \/ fire_store(t)
                                \/ disable_finalizers(t) \/ enable_finalizers(t)
                                \/ \E u \in Thread : external_call(t, u)
       PROVE  Effects
  <2>1. Idles
    BY <1>13 DEF settrace, setcheckinterval, fire_store, disable_finalizers, enable_finalizers, external_call,
       Idles, signals, flags, dels, debts
  <2> QED
    BY <2>1 DEF Effects
<1>14. ASSUME NEW t \in Thread, NEW s \in Sig, set_interrupt(t, s)
       PROVE  Effects
  <2>1. Arrives(s)
    BY <1>14 DEF set_interrupt, dels, Arrives
  <2> QED
    BY <2>1 DEF Effects
<1>15. ASSUME NEW s \in Sig, pushback(s)
       PROVE  Effects
  <2>1. Idles \/ Arrives(s)
    BY <1>15 DEF pushback, signal_setflag_handler, pushback_occurred, pushback_counter, Stage,
       dels, Idles, Arrives, debts
  <2> QED
    BY <2>1 DEF Effects
<1>16. ASSUME NEW o \in Del, register_callback(o)
       PROVE  Effects
  <2>1. Dies(o)
    BY <1>16 DEF register_callback, signals, flags, Dies
  <2> QED
    BY <2>1 DEF Effects
<1>17. CASE UNCHANGED vars
  BY <1>17 DEF vars, Effects, Idles, debts
<1> QED
  BY <1>2, <1>3, <1>5, <1>6, <1>7, <1>9, <1>10, <1>11, <1>12, <1>13, <1>14, <1>15, <1>16, <1>17, <1>18
  DEF Next, Interpret, Program, Switch, Outside

-----------------------------------------------------------------------------
(***************************************************************************)
(* The invariant                                                           *)
(***************************************************************************)

(* What the activations are after a step, in terms of those before it.     *)
LEMMA StackEffect ==
    ASSUME TypeOK, Effects
    PROVE  /\ cur \in Thread /\ \A t \in Thread : Len(stack[t]) \in Nat /\ Len(stack'[t]) \in Nat
           /\ Begins => /\ \A t \in Thread : Len(stack'[t]) =
                                IF t = cur THEN Len(stack[t]) + 1 ELSE Len(stack[t])
                        /\ \A t \in Thread : \A k \in 1..Len(stack[t]) : stack'[t][k] = stack[t][k]
                        /\ stack'[cur][Len(stack[cur]) + 1] = Fresh
           /\ Ends => /\ Len(stack[cur]) > 0
                      /\ \A t \in Thread : Len(stack'[t]) =
                                IF t = cur THEN Len(stack[t]) - 1 ELSE Len(stack[t])
                      /\ \A t \in Thread : \A k \in 1..Len(stack'[t]) : stack'[t][k] = stack[t][k]
           /\ \A top : Moves(top) =>
                      /\ Len(stack[cur]) \in 1..Len(stack[cur])
                      /\ \A t \in Thread : Len(stack'[t]) = Len(stack[t])
                      /\ \A t \in Thread : \A k \in 1..Len(stack[t]) :
                            stack'[t][k] = IF t = cur /\ k = Len(stack[cur]) THEN top ELSE stack[t][k]
<1>1. cur \in Thread /\ StackOK
  BY DEF TypeOK, StackOK
<1>2. StackOK'
  <2>1. CASE UNCHANGED stack
    BY <1>1, <2>1 DEF StackOK
  <2>2. CASE Begins
    BY <1>1, <2>2, PushStack DEF Begins
  <2>3. CASE Ends
    BY <1>1, <2>3, PopStack DEF Ends
  <2>4. ASSUME NEW top, Moves(top) PROVE StackOK'
    BY <1>1, <2>4, MoveStack DEF Moves
  <2> QED
    BY <2>1, <2>2, <2>3, <2>4
    DEF Effects, Idles, Arrives, Dies, GoesOn, TakesDying, Finalizes, Handles, PutsAside
<1>3. \A t \in Thread : Len(stack[t]) \in Nat /\ Len(stack'[t]) \in Nat
  BY <1>1, <1>2 DEF StackOK
<1>4. ASSUME Begins
      PROVE  /\ \A t \in Thread : Len(stack'[t]) =
                     IF t = cur THEN Len(stack[t]) + 1 ELSE Len(stack[t])
             /\ \A t \in Thread : \A k \in 1..Len(stack[t]) : stack'[t][k] = stack[t][k]
             /\ stack'[cur][Len(stack[cur]) + 1] = Fresh
  BY <1>1, <1>4, PushStack DEF Begins
<1>5. ASSUME Ends
      PROVE  /\ Len(stack[cur]) > 0
             /\ \A t \in Thread : Len(stack'[t]) =
                     IF t = cur THEN Len(stack[t]) - 1 ELSE Len(stack[t])
             /\ \A t \in Thread : \A k \in 1..Len(stack'[t]) : stack'[t][k] = stack[t][k]
  <2>1. Len(stack[cur]) \in 1..Len(stack[cur])
    BY <1>1, <1>5, TopActivation DEF Ends
  <2> QED
    BY <1>1, <1>5, <2>1, PopStack DEF Ends
<1>6. ASSUME NEW top, Moves(top)
      PROVE  /\ Len(stack[cur]) \in 1..Len(stack[cur])
             /\ \A t \in Thread : Len(stack'[t]) = Len(stack[t])
             /\ \A t \in Thread : \A k \in 1..Len(stack[t]) :
                   stack'[t][k] = IF t = cur /\ k = Len(stack[cur]) THEN top ELSE stack[t][k]
  BY <1>1, <1>6, MoveStack, TopActivation DEF Moves
<1> QED
  BY <1>1, <1>3, <1>4, <1>5, <1>6

(* Only the thread with the GIL goes through the flags, in its innermost   *)
(* activation; it cannot lose the GIL or call anything meanwhile.          *)
LEMMA NextScanAlone ==
    ASSUME TypeOK, ScanAlone, Effects
    PROVE  ScanAlone'
<1>1. \A t \in Thread : \A k \in 1..Len(stack[t]) :
         stack[t][k].at = "scan" => stack[cur] # <<>> /\ Top(cur).at = "scan"
  BY StackEffect, EmptySeq DEF ScanAlone, Top
<1>2. None' = None
  BY DEF None
<1>3. CASE UNCHANGED <<stack, pending>> /\ (cur' = cur \/ InProgram(cur))
  <2>1. InProgram(cur) => \A t \in Thread : \A k \in 1..Len(stack[t]) : stack[t][k].at # "scan"
    BY <1>1 DEF InProgram
  <2> QED
    BY <1>2, <1>3, <2>1 DEF ScanAlone
<1>4. CASE Begins
  <2>1. \A t \in Thread : \A k \in 1..Len(stack[t]) : stack[t][k].at # "scan"
    BY <1>1, <1>4 DEF Begins, InProgram
  <2>2. \A t \in Thread : \A k \in 1..Len(stack'[t]) :
           k \in 1..Len(stack[t]) \/ (t = cur /\ k = Len(stack[cur]) + 1)
    BY <1>4, StackEffect
  <2>3. Fresh.at = "poll"
    BY DEF Fresh
  <2>4. /\ \A t \in Thread : \A k \in 1..Len(stack[t]) : stack'[t][k] = stack[t][k]
        /\ stack'[cur][Len(stack[cur]) + 1] = Fresh
    BY <1>4, StackEffect
  <2>5. \A t \in Thread : \A k \in 1..Len(stack'[t]) : stack'[t][k].at # "scan"
    BY <2>1, <2>2, <2>3, <2>4
  <2> QED
    BY <2>5 DEF ScanAlone
<1>5. CASE Ends
  <2>1. \A t \in Thread : \A k \in 1..Len(stack[t]) : stack[t][k].at # "scan"
    BY <1>1, <1>5 DEF Ends
  <2>2. \A t \in Thread : \A k \in 1..Len(stack'[t]) : k \in 1..Len(stack[t])
    BY <1>5, StackEffect
  <2> QED
    BY <1>5, <2>1, <2>2, StackEffect DEF ScanAlone
<1>6. ASSUME NEW top, Moves(top),
             top.at = "scan" => pending' = None /\ cur' = cur
      PROVE  ScanAlone'
  <2>1. \A t \in Thread : \A k \in 1..Len(stack[t]) :
           stack[t][k].at = "scan" => t = cur /\ k = Len(stack[cur])
    BY DEF ScanAlone
  <2> QED
    BY <1>2, <1>6, <2>1, StackEffect DEF ScanAlone
<1>7. ASSUME NEW top, GoesOn(top) \/ TakesDying(top) \/ Finalizes(top) \/ \E s \in Sig : Handles(top, s) \/ PutsAside(top, s)
      PROVE  Moves(top) /\ (top.at = "scan" => pending' = None /\ cur' = cur)
  BY <1>2, <1>7 DEF GoesOn, TakesDying, Finalizes, Handles, PutsAside, debts
<1> QED
  BY <1>3, <1>4, <1>5, <1>6, <1>7 DEF Effects, Idles, Arrives, Dies, debts

(* Between the read and the write of the ticker no thread goes on.         *)
LEMMA NextLoading ==
    ASSUME Loading, [Next]_vars
    PROVE  Loading'
<1>1. Nothing' = Nothing
  BY DEF Nothing
<1> DEFINE Step == \/ loaded' = Nothing
                   \/ loaded' = loaded /\ (loaded = Nothing \/ UNCHANGED <<cur, stack>>)
                   \/ UNCHANGED <<cur, stack>> /\ InProgram(cur)
<1>2. Step
  <2>1. ASSUME NEW t \in Thread, Interpret(t)
        PROVE  Step
    BY <1>1, <2>1
    DEF Interpret, opcode, decrement_load, decrement_store, check_signal, pypysig_poll,
        grab_actions, end_dispatch, user_del, take_dying, next_del, frame_trace,
        callback_returns, NextAction, At, Holds, Unticked
  <2>2. ASSUME NEW t \in Thread, Program(t) \/ Switch(t) \/ fire_store(t)
        PROVE  Step
    BY <2>2
    DEF Program, Switch, settrace, setcheckinterval, disable_finalizers, enable_finalizers,
        after_exception, callback_raises, set_interrupt, external_call, release_gil,
        fire_store, At, Holds
  <2>3. CASE Outside \/ UNCHANGED vars
    BY <2>3
    DEF Outside, vars, pushback, signal_setflag_handler, pushback_occurred, pushback_counter,
        Stage, register_callback
  <2> QED
    BY <2>1, <2>2, <2>3 DEF Next
<1>3. UNCHANGED <<cur, stack>> => (InProgram(cur)' <=> InProgram(cur))
  BY DEF InProgram, Top
<1> QED
  BY <1>1, <1>2, <1>3 DEF Loading

(* An activation that is done with the dying objects has none left.        *)
LEMMA NextTodoEmpty ==
    ASSUME TypeOK, TodoEmpty, Effects
    PROVE  TodoEmpty'
<1>1. CASE UNCHANGED stack
  BY <1>1 DEF TodoEmpty, Todo
<1>2. CASE Begins
  <2>1. \A t \in Thread : \A k \in 1..Len(stack'[t]) :
           k \in 1..Len(stack[t]) \/ (t = cur /\ k = Len(stack[cur]) + 1)
    BY <1>2, StackEffect
  <2>2. Fresh.todo = <<>>
    BY DEF Fresh
  <2> QED
    BY <1>2, <2>1, <2>2, StackEffect DEF TodoEmpty, Todo
<1>3. CASE Ends
  <2>1. \A t \in Thread : \A k \in 1..Len(stack'[t]) : k \in 1..Len(stack[t])
    BY <1>3, StackEffect
  <2> QED
    BY <1>3, <2>1, StackEffect DEF TodoEmpty, Todo
<1>4. ASSUME NEW top, Moves(top), top.at \notin {"dels", "del"} => top.todo = <<>>
      PROVE  TodoEmpty'
  BY <1>4, StackEffect DEF TodoEmpty, Todo
<1>5. ASSUME NEW top,
             GoesOn(top) \/ TakesDying(top) \/ Finalizes(top) \/ \E s \in Sig : Handles(top, s) \/ PutsAside(top, s)
      PROVE  Moves(top) /\ (top.at \notin {"dels", "del"} => top.todo = <<>>)
  <2>1. Moves(top)
    BY <1>5 DEF GoesOn, TakesDying, Finalizes, Handles, PutsAside
  <2>2. Top(cur).at \notin {"dels", "del"} => Top(cur).todo = <<>>
    BY <2>1, StackEffect DEF TodoEmpty, Todo, Top
  <2> QED
    BY <1>5, <2>1, <2>2 DEF GoesOn, TakesDying, Finalizes, Handles, PutsAside
<1> QED
  BY <1>1, <1>2, <1>3, <1>4, <1>5 DEF Effects, Idles, Arrives, Dies, debts

(* Objects in the lists of the dispatchers, and in the list of an          *)
(* activation that moves on.                                               *)
InTodo(o) == \E t \in Thread : \E k \in 1..Len(stack[t]) : Listed(o, Todo(t, k))

LEMMA TodoTypes ==
    ASSUME TypeOK
    PROVE  /\ dying \in Seq(Del)
           /\ \A t \in Thread : \A k \in 1..Len(stack[t]) : Todo(t, k) \in Seq(Del)
<1>1. \A t \in Thread : \A k \in 1..Len(stack[t]) : stack[t][k] \in Activation
  BY DEF TypeOK
<1> QED
  BY <1>1 DEF TypeOK, Activation, Todo

(* The lists hold what they held when the innermost one stays the same.    *)
LEMMA SameTodo ==
    ASSUME TypeOK, TodoEmpty, Effects,
           ~\E top \in Activation : TakesDying(top) \/ Finalizes(top)
    PROVE  /\ \A t \in Thread : \A k \in 1..Len(stack'[t]) :
                 Todo(t, k)' = <<>> \/ (k \in 1..Len(stack[t]) /\ Todo(t, k)' = Todo(t, k))
           /\ \A t \in Thread : \A k \in 1..Len(stack[t]) :
                 Todo(t, k) = <<>> \/ (k \in 1..Len(stack'[t]) /\ Todo(t, k)' = Todo(t, k))
<1>1. CASE UNCHANGED stack
  BY <1>1 DEF Todo
<1>2. CASE Begins
  <2>1. \A t \in Thread : \A k \in 1..Len(stack'[t]) :
           k \in 1..Len(stack[t]) \/ (t = cur /\ k = Len(stack[cur]) + 1)
    BY <1>2, StackEffect
  <2>2. Fresh.todo = <<>>
    BY DEF Fresh
  <2>3. \A t \in Thread : \A k \in 1..Len(stack[t]) : k \in 1..Len(stack'[t])
    BY <1>2, StackEffect
  <2> QED
    BY <1>2, <2>1, <2>2, <2>3, StackEffect DEF Todo
<1>3. CASE Ends
  <2>1. \A t \in Thread : \A k \in 1..Len(stack'[t]) : k \in 1..Len(stack[t])
    BY <1>3, StackEffect
  <2>2. \A t \in Thread : \A k \in 1..Len(stack[t]) :
           k \in 1..Len(stack'[t]) \/ (t = cur /\ k = Len(stack[cur]))
    BY <1>3, StackEffect
  <2>3. Todo(cur, Len(stack[cur])) = <<>>
    <3>1. Len(stack[cur]) \in 1..Len(stack[cur]) /\ cur \in Thread
      BY <1>3, StackEffect
    <3> QED
      BY <1>3, <3>1 DEF Ends, TodoEmpty, Todo, Top
  <2> QED
    BY <1>3, <2>1, <2>2, <2>3, StackEffect DEF Todo
<1>4. ASSUME NEW top, Moves(top), top.todo = Top(cur).todo
      PROVE  \A t \in Thread : /\ Len(stack'[t]) = Len(stack[t])
                               /\ \A k \in 1..Len(stack[t]) : Todo(t, k)' = Todo(t, k)
  BY <1>4, StackEffect DEF Todo, Top
<1> QED
  BY <1>1, <1>2, <1>3, <1>4 DEF Effects, Idles, Arrives, Dies, debts, GoesOn, Handles, PutsAside

(* No step makes a dying object wait in two places.                        *)
LEMMA NextDelsOnce ==
    ASSUME TypeOK, TodoEmpty, DelsOnce, Effects
    PROVE  DelsOnce'
<1>1. Distinct(<<>>) /\ \A o : ~Listed(o, <<>>)
  BY DEF Distinct, Listed
<1>2. CASE ~\E top \in Activation : TakesDying(top) \/ Finalizes(top)
  <2>1. \A t \in Thread : \A k \in 1..Len(stack'[t]) :
           Todo(t, k)' = <<>> \/ (k \in 1..Len(stack[t]) /\ Todo(t, k)' = Todo(t, k))
    BY <1>2, SameTodo
  <2>2. \A t \in Thread : \A k \in 1..Len(stack'[t]) :
           /\ Distinct(Todo(t, k)')
           /\ \A o \in Del : Listed(o, Todo(t, k)') => k \in 1..Len(stack[t]) /\ Listed(o, Todo(t, k))
    BY <1>1, <2>1 DEF DelsOnce
  <2>3. \A t, u \in Thread : \A k \in 1..Len(stack'[t]), j \in 1..Len(stack'[u]) : \A o \in Del :
           Listed(o, Todo(t, k)') /\ Listed(o, Todo(u, j)') => t = u /\ k = j
    BY <2>2 DEF DelsOnce
  <2>4. /\ Distinct(dying')
        /\ \A o \in Del : Listed(o, dying') => Listed(o, dying) \/ ~InTodo(o)
    <3>1. CASE UNCHANGED dying
      BY <3>1 DEF DelsOnce
    <3>2. ASSUME NEW o \in Del, ~Waits(o), dying' = Append(dying, o)
          PROVE  /\ Distinct(dying')
                 /\ \A p \in Del : Listed(p, dying') => Listed(p, dying) \/ ~InTodo(p)
      <4>1. \A p \in Del : Listed(p, dying') <=> Listed(p, dying) \/ p = o
        BY <3>2, TodoTypes, AppendProperties DEF Listed
      <4>2. Distinct(dying')
        BY <3>2, TodoTypes, AppendProperties DEF DelsOnce, Distinct, Waits, Listed
      <4> QED
        BY <3>2, <4>1, <4>2 DEF Waits, InTodo, Todo
    <3> QED
      BY <1>2, <3>1, <3>2 DEF Effects, Idles, Begins, Ends, Arrives, Dies, debts,
         GoesOn, Handles, PutsAside
  <2>5. \A t \in Thread : \A k \in 1..Len(stack'[t]) : \A o \in Del :
           Listed(o, Todo(t, k)') => ~Listed(o, dying')
    BY <2>2, <2>4 DEF DelsOnce, InTodo
  <2> QED
    BY <2>2, <2>3, <2>4, <2>5 DEF DelsOnce, Todo
<1>3. ASSUME NEW top \in Activation, TakesDying(top)
      PROVE  DelsOnce'
  <2>1. /\ cur \in Thread /\ Len(stack[cur]) \in 1..Len(stack[cur])
        /\ \A t \in Thread : Len(stack'[t]) = Len(stack[t])
        /\ \A t \in Thread : \A k \in 1..Len(stack[t]) :
              Todo(t, k)' = IF t = cur /\ k = Len(stack[cur]) THEN dying ELSE Todo(t, k)
    BY <1>3, StackEffect DEF TakesDying, Todo
  <2>2. dying' = <<>>
    BY <1>3 DEF TakesDying
  <2>3. \A t, u \in Thread : \A k \in 1..Len(stack'[t]), j \in 1..Len(stack'[u]) : \A o \in Del :
           Listed(o, Todo(t, k)') /\ Listed(o, Todo(u, j)') => t = u /\ k = j
    BY <2>1 DEF DelsOnce
  <2>4. \A t \in Thread : \A k \in 1..Len(stack'[t]) : Distinct(Todo(t, k)')
    BY <2>1 DEF DelsOnce
  <2> QED
    BY <1>1, <2>2, <2>3, <2>4 DEF DelsOnce, Todo
<1>4. ASSUME NEW top \in Activation, Finalizes(top)
      PROVE  DelsOnce'
  <2> DEFINE n == Len(stack[cur])
             d == Todo(cur, n)
  <2>1. /\ cur \in Thread /\ n \in 1..Len(stack[cur])
        /\ \A t \in Thread : Len(stack'[t]) = Len(stack[t])
        /\ \A t \in Thread : \A k \in 1..Len(stack[t]) :
              Todo(t, k)' = IF t = cur /\ k = n THEN Tail(d) ELSE Todo(t, k)
        /\ d # <<>> /\ dying' = dying
    BY <1>4, StackEffect DEF Finalizes, Todo, Top, debts
  <2>2. d \in Seq(Del) /\ Distinct(d)
    BY <2>1, TodoTypes DEF DelsOnce
  <2>3. /\ Len(Tail(d)) \in Nat /\ Len(d) = Len(Tail(d)) + 1
        /\ \A i \in 1..Len(Tail(d)) : Tail(d)[i] = d[i + 1] /\ i + 1 \in 1..Len(d)
    BY <2>1, <2>2, HeadTailProperties, EmptySeq
  <2> HIDE DEF d, n
  <2>4. Distinct(Tail(d)) /\ \A o : Listed(o, Tail(d)) => Listed(o, d)
    <3>1. \A o : Listed(o, Tail(d)) => Listed(o, d)
      BY <2>3 DEF Listed
    <3>2. ASSUME NEW i \in 1..Len(Tail(d)), NEW j \in 1..Len(Tail(d)), Tail(d)[i] = Tail(d)[j]
          PROVE  i = j
      <4>1. i + 1 = j + 1
        BY <2>2, <2>3, <3>2 DEF Distinct
      <4> QED
        BY <4>1
    <3> QED
      BY <3>1, <3>2 DEF Distinct
  <2>5. \A t \in Thread : \A k \in 1..Len(stack'[t]) :
           /\ k \in 1..Len(stack[t]) /\ Distinct(Todo(t, k)')
           /\ \A o \in Del : Listed(o, Todo(t, k)') => Listed(o, Todo(t, k))
    <3> SUFFICES ASSUME NEW t \in Thread, NEW k \in 1..Len(stack'[t])
                 PROVE  /\ k \in 1..Len(stack[t]) /\ Distinct(Todo(t, k)')
                        /\ \A o \in Del : Listed(o, Todo(t, k)') => Listed(o, Todo(t, k))
      OBVIOUS
    <3>1. k \in 1..Len(stack[t])
      BY <2>1
    <3>2. CASE t = cur /\ k = n
      <4>1. Todo(t, k)' = Tail(d) /\ Todo(t, k) = d
        BY <2>1, <3>1, <3>2 DEF d
      <4> QED
        BY <2>4, <3>1, <4>1
    <3>3. CASE ~(t = cur /\ k = n)
      <4>1. Todo(t, k)' = Todo(t, k) /\ Distinct(Todo(t, k))
        BY <2>1, <3>1, <3>3 DEF DelsOnce
      <4> QED
        BY <3>1, <4>1
    <3> QED
      BY <3>2, <3>3
  <2>6. \A t, u \in Thread : \A k \in 1..Len(stack'[t]), j \in 1..Len(stack'[u]) : \A o \in Del :
           Listed(o, Todo(t, k)') /\ Listed(o, Todo(u, j)') => t = u /\ k = j
    BY <2>5 DEF DelsOnce
  <2>7. Distinct(dying') /\ \A t \in Thread : \A k \in 1..Len(stack'[t]) : \A o \in Del :
           Listed(o, Todo(t, k)') => ~Listed(o, dying')
    BY <2>1, <2>5 DEF DelsOnce
  <2> QED
    BY <2>5, <2>6, <2>7 DEF DelsOnce, Todo
<1> QED
  BY <1>2, <1>3, <1>4

-----------------------------------------------------------------------------
(***************************************************************************)
(* The refinement                                                          *)
(***************************************************************************)
CallRecord == {Calling(a) : a \in Activation}

(* What is being called follows the stack of activations.                  *)
LEMMA ActivityOf ==
    ASSUME NEW s \in [Thread -> Seq(Activation)], NEW f,
           f = [t \in Thread |-> [k \in 1..Len(s[t]) |-> Calling(s[t][k])]]
    PROVE  /\ f \in [Thread -> Seq(CallRecord)]
           /\ \A t \in Thread : Len(f[t]) = Len(s[t])
           /\ \A t \in Thread : \A k \in 1..Len(s[t]) : f[t][k] = Calling(s[t][k])
<1> SUFFICES ASSUME NEW t \in Thread
             PROVE  /\ f[t] \in Seq(CallRecord) /\ Len(f[t]) = Len(s[t])
                    /\ \A k \in 1..Len(s[t]) : f[t][k] = Calling(s[t][k])
  OBVIOUS
<1> DEFINE n == Len(s[t])
           g == [k \in 1..n |-> Calling(s[t][k])]
<1>1. n \in Nat /\ \A k \in 1..n : s[t][k] \in Activation
  OBVIOUS
<1>2. f[t] = g
  OBVIOUS
<1>3. g \in [1..n -> CallRecord]
  BY <1>1 DEF CallRecord
<1> HIDE DEF g, n
<1>4. g \in Seq(CallRecord)
  BY <1>1, <1>3, SeqDef
<1>5. Len(g) = n
  <2>1. Len(g) \in Nat /\ DOMAIN g = 1..Len(g) /\ DOMAIN g = 1..n
    BY <1>3, <1>4, LenProperties
  <2>2. \A i \in Int : i \in 1..Len(g) <=> i \in 1..n
    BY <2>1
  <2>3. ~ Len(g) < n
    <3>1. n \notin 1..Len(g) <=> n \notin 1..n
      BY <1>1, <2>2
    <3> QED
      BY <1>1, <2>1, <3>1
  <2>4. ~ n < Len(g)
    <3>1. Len(g) \in 1..Len(g) <=> Len(g) \in 1..n
      BY <2>1, <2>2
    <3> QED
      BY <1>1, <2>1, <3>1
  <2>5. \A a, b \in Nat : ~ a < b /\ ~ b < a => a = b
    OBVIOUS
  <2> QED
    BY <1>1, <2>1, <2>3, <2>4, <2>5, Zenon
<1> QED
  BY <1>2, <1>4, <1>5 DEF g, n

(* The record of an activation says whether it is calling something.       *)
LEMMA CallKinds ==
    ASSUME NEW a \in Activation
    PROVE  /\ a.at \notin {"handler", "trace", "del"} <=> Calling(a) = Owed!Resting
           /\ a.at = "del" <=> Calling(a).kind = "del"
           /\ a.at = "handler" => Calling(a) = Owed!Handler(a.what)
           /\ a.at = "del" => Calling(a) = Owed!Finalizer(a.what)
           /\ a.at = "trace" => Calling(a) = Owed!TraceFunction
<1>1. CASE a.at \in {"handler", "del"}
  <2>1. /\ Calling(a) = [kind |-> a.at, arg |-> a.what] /\ Calling(a).kind = a.at
        /\ Owed!Resting.kind = "none"
    BY <1>1 DEF Calling, Owed!Resting
  <2> QED
    BY <1>1, <2>1 DEF Owed!Handler, Owed!Finalizer
<1>2. CASE a.at \notin {"handler", "del"}
  <2>1. Calling(a) = [kind |-> IF a.at = "trace" THEN "trace" ELSE "none"]
    BY <1>2 DEF Calling
  <2> QED
    BY <1>2, <2>1 DEF Owed!Resting, Owed!TraceFunction
<1> QED
  BY <1>1, <1>2

LEMMA FreshRests == Calling(Fresh) = Owed!Resting
BY DEF Fresh, Calling, Owed!Resting

(* Activity in this state and in the next one.                             *)
LEMMA ActivityNow ==
    ASSUME TypeOK
    PROVE  /\ Activity \in [Thread -> Seq(CallRecord)]
           /\ \A t \in Thread : Len(Activity[t]) = Len(stack[t])
           /\ \A t \in Thread : \A k \in 1..Len(stack[t]) : Activity[t][k] = Calling(stack[t][k])
<1>1. stack \in [Thread -> Seq(Activation)]
  BY DEF TypeOK
<1>2. Activity = [t \in Thread |-> [k \in 1..Len(stack[t]) |-> Calling(stack[t][k])]]
  BY DEF Activity
<1> HIDE DEF Activity
<1> QED
  BY <1>1, <1>2, ActivityOf

LEMMA ActivityThen ==
    ASSUME TypeOK'
    PROVE  /\ Activity' \in [Thread -> Seq(CallRecord)]
           /\ \A t \in Thread : Len(Activity'[t]) = Len(stack'[t])
           /\ \A t \in Thread : \A k \in 1..Len(stack'[t]) : Activity'[t][k] = Calling(stack'[t][k])
<1>1. stack' \in [Thread -> Seq(Activation)]
  BY DEF TypeOK, Activation
<1>2. Activity' = [t \in Thread |-> [k \in 1..Len(stack'[t]) |-> Calling(stack'[t][k])]]
  BY DEF Activity, Calling
<1> HIDE DEF Activity
<1> QED
  BY <1>1, <1>2, ActivityOf

(* A program is in a call or outside of all dispatchers; what the          *)
(* innermost activation does is what its thread is calling.                *)
LEMMA InnerCall ==
    ASSUME TypeOK, NEW t \in Thread
    PROVE  /\ Activity[t] = <<>> <=> stack[t] = <<>>
           /\ InProgram(t) <=> ~Owed!Rests(t)
           /\ stack[t] # <<>> => /\ Top(t) \in Activation
                                 /\ Owed!Inner(t) = Calling(Top(t))
                                 /\ Owed!Rests(t) \/ Owed!InCall(t)
                                 /\ Owed!Rests(t) <=> Top(t).at \notin {"handler", "trace", "del"}
<1>1. StackOK
  BY DEF TypeOK, StackOK
<1>2. Activity[t] \in Seq(CallRecord) /\ stack[t] \in Seq(Activation) /\ Len(Activity[t]) = Len(stack[t])
  BY <1>1, ActivityNow DEF StackOK
<1>3. Activity[t] = <<>> <=> stack[t] = <<>>
  BY <1>2, EmptySeq
<1>4. ASSUME stack[t] # <<>>
      PROVE  Top(t) \in Activation /\ Owed!Inner(t) = Calling(Top(t))
  <2>1. Len(stack[t]) \in 1..Len(stack[t]) /\ Top(t) \in Activation
    BY <1>1, <1>4, TopActivation
  <2> QED
    BY <1>2, <2>1, ActivityNow DEF Owed!Inner, Top
<1> QED
  BY <1>3, <1>4, CallKinds DEF Owed!Rests, Owed!InCall, InProgram

(* A step that moves the innermost activation changes one call.            *)
LEMMA CallBecomes ==
    ASSUME TypeOK, TypeOK', Effects, NEW top \in Activation, Moves(top)
    PROVE  Owed!Becomes(cur, Calling(top))
<1> DEFINE n == Len(stack[cur])
           g == [Activity[cur] EXCEPT ![n] = Calling(top)]
<1>1. cur \in Thread /\ n \in 1..n /\ Activity[cur] \in Seq(CallRecord) /\ Len(Activity[cur]) = n
      /\ Calling(top) \in CallRecord
  BY StackEffect, ActivityNow DEF CallRecord
<1>2. /\ g \in Seq(CallRecord) /\ Len(g) = n
      /\ \A k \in 1..n : g[k] = IF k = n THEN Calling(top) ELSE Activity[cur][k]
  BY <1>1, ExceptSeq
<1>3. \A t \in Thread : Activity'[t] \in Seq(CallRecord) /\ Activity[t] \in Seq(CallRecord)
  BY ActivityNow, ActivityThen
<1>4. Activity'[cur] = g
  <2>1. Len(Activity'[cur]) = n
    BY <1>1, StackEffect, ActivityThen
  <2>2. \A k \in 1..n : Activity'[cur][k] = g[k]
    BY <1>1, <1>2, StackEffect, ActivityNow, ActivityThen
  <2>3. /\ Activity'[cur] \in Seq(CallRecord) /\ g \in Seq(CallRecord)
        /\ Len(Activity'[cur]) = Len(g)
        /\ \A k \in 1..Len(Activity'[cur]) : Activity'[cur][k] = g[k]
    BY <1>1, <1>2, <1>3, <2>1, <2>2
  <2> HIDE DEF g
  <2> QED
    BY <2>3, SeqEqual
<1>5. ASSUME NEW t \in Thread, t # cur PROVE Activity'[t] = Activity[t]
  <2>1. Len(Activity'[t]) = Len(Activity[t])
    BY StackEffect, ActivityNow, ActivityThen
  <2>2. \A k \in 1..Len(Activity'[t]) : Activity'[t][k] = Activity[t][k]
    BY <1>5, <2>1, StackEffect, ActivityNow, ActivityThen
  <2> QED
    BY <1>3, <2>1, <2>2, SeqEqual
<1>6. Activity' = [Activity EXCEPT ![cur] = g]
  BY <1>4, <1>5, ActivityNow, ActivityThen
<1> QED
  BY <1>1, <1>6 DEF Owed!Becomes

(* A step that begins or ends a dispatcher adds or removes one.            *)
LEMMA CallsEntered ==
    ASSUME TypeOK, TypeOK', Effects, Begins
    PROVE  /\ ~Owed!Rests(cur)
           /\ Activity' = [Activity EXCEPT ![cur] = Append(@, Owed!Resting)]
<1> DEFINE n == Len(stack[cur])
           g == Append(Activity[cur], Owed!Resting)
<1>1. cur \in Thread /\ n \in Nat /\ Activity[cur] \in Seq(CallRecord) /\ Len(Activity[cur]) = n
  BY StackEffect, ActivityNow
<1>2. Fresh \in Activation
  BY DEF Fresh, Activation
<1>3. Owed!Resting \in CallRecord
  BY <1>2, FreshRests DEF CallRecord
<1>4. /\ g \in Seq(CallRecord) /\ Len(g) = n + 1
      /\ \A k \in 1..n : g[k] = Activity[cur][k]
      /\ g[n + 1] = Owed!Resting
  BY <1>1, <1>3, AppendProperties
<1>5. \A t \in Thread : Activity'[t] \in Seq(CallRecord) /\ Activity[t] \in Seq(CallRecord)
  BY ActivityNow, ActivityThen
<1>6. Activity'[cur] = g
  <2>1. Len(Activity'[cur]) = n + 1
    BY <1>1, StackEffect, ActivityThen
  <2>2. \A k \in 1..n : Activity'[cur][k] = g[k]
    BY <1>1, <1>4, <2>1, StackEffect, ActivityNow, ActivityThen
  <2>3. Activity'[cur][n + 1] = g[n + 1]
    BY <1>1, <1>4, StackEffect, ActivityThen, FreshRests
  <2>4. \A k \in 1..n + 1 : Activity'[cur][k] = g[k]
    BY <1>1, <2>2, <2>3
  <2> HIDE DEF g
  <2> QED
    BY <1>1, <1>4, <1>5, <2>1, <2>4, SeqEqual
<1>7. ASSUME NEW t \in Thread, t # cur PROVE Activity'[t] = Activity[t]
  <2>1. Len(Activity'[t]) = Len(Activity[t])
    BY <1>7, StackEffect, ActivityNow, ActivityThen
  <2>2. \A k \in 1..Len(Activity'[t]) : Activity'[t][k] = Activity[t][k]
    BY <1>7, <2>1, StackEffect, ActivityNow, ActivityThen
  <2> QED
    BY <1>5, <2>1, <2>2, SeqEqual
<1>8. Activity' = [Activity EXCEPT ![cur] = g]
  BY <1>6, <1>7, ActivityNow, ActivityThen
<1> QED
  BY <1>1, <1>8, InnerCall, ActivityNow DEF Begins

LEMMA CallsLeft ==
    ASSUME TypeOK, TypeOK', Effects, Ends
    PROVE  /\ Activity[cur] # <<>> /\ Owed!Inner(cur).kind # "del"
           /\ Activity' = [Activity EXCEPT ![cur] = SubSeq(@, 1, Len(@) - 1)]
<1> DEFINE n == Len(stack[cur])
           g == SubSeq(Activity[cur], 1, n - 1)
<1>1. cur \in Thread /\ n \in Nat \ {0} /\ Activity[cur] \in Seq(CallRecord) /\ Len(Activity[cur]) = n
  BY StackEffect, ActivityNow
<1>2. g \in Seq(CallRecord) /\ Len(g) = n - 1 /\ \A k \in 1..n - 1 : g[k] = Activity[cur][k]
  BY <1>1
<1>3. \A t \in Thread : Activity'[t] \in Seq(CallRecord) /\ Activity[t] \in Seq(CallRecord)
  BY ActivityNow, ActivityThen
<1>4. Activity'[cur] = g
  <2>1. Len(Activity'[cur]) = n - 1 /\ Len(stack'[cur]) = n - 1
    BY <1>1, StackEffect, ActivityThen
  <2>2. ASSUME NEW k \in 1..n - 1 PROVE Activity'[cur][k] = g[k]
    <3>1. k \in 1..n /\ k \in 1..Len(stack'[cur])
      BY <1>1, <2>1
    <3>2. stack'[cur][k] = stack[cur][k]
      BY <1>1, <3>1, StackEffect
    <3>3. g[k] = Calling(stack[cur][k])
      BY <1>1, <1>2, <3>1, ActivityNow
    <3> HIDE DEF g, n
    <3> QED
      BY <1>1, <3>1, <3>2, <3>3, ActivityThen
  <2> HIDE DEF g
  <2> QED
    BY <1>1, <1>2, <1>3, <2>1, <2>2, SeqEqual
<1>5. ASSUME NEW t \in Thread, t # cur PROVE Activity'[t] = Activity[t]
  <2>1. Len(Activity'[t]) = Len(Activity[t])
    BY <1>5, StackEffect, ActivityNow, ActivityThen
  <2>2. \A k \in 1..Len(Activity'[t]) : Activity'[t][k] = Activity[t][k]
    BY <1>5, <2>1, StackEffect, ActivityNow, ActivityThen
  <2> QED
    BY <1>3, <2>1, <2>2, SeqEqual
<1>6. Activity' = [Activity EXCEPT ![cur] = g]
  BY <1>4, <1>5, ActivityNow, ActivityThen
<1>7. Activity[cur] # <<>> /\ Owed!Inner(cur).kind # "del"
  BY <1>1, InnerCall, CallKinds DEF Ends
<1> QED
  BY <1>1, <1>6, <1>7, ActivityNow

(* The dying objects: where they wait is of no importance to the program,  *)
(* only whether they do.                                                   *)
LEMMA WaitsDef ==
    ASSUME NEW o
    PROVE  Waits(o) <=> Listed(o, dying) \/ InTodo(o)
BY DEF Waits, InTodo, Todo

LEMMA NothingListed == ASSUME NEW o PROVE ~Listed(o, <<>>)
BY DEF Listed

LEMMA SameWaits ==
    ASSUME TypeOK, TodoEmpty, Effects, UNCHANGED dying,
           ~\E top \in Activation : TakesDying(top) \/ Finalizes(top)
    PROVE  \A o : Waits(o)' <=> Waits(o)
<1> TAKE o
<1>1. InTodo(o)' <=> InTodo(o)
  <2>1. ASSUME NEW t \in Thread, NEW k \in 1..Len(stack'[t]), Listed(o, Todo(t, k)')
        PROVE  InTodo(o)
    BY <2>1, SameTodo, NothingListed DEF InTodo
  <2>2. ASSUME NEW t \in Thread, NEW k \in 1..Len(stack[t]), Listed(o, Todo(t, k))
        PROVE  InTodo(o)'
    <3>1. k \in 1..Len(stack'[t]) /\ Todo(t, k)' = Todo(t, k)
      BY <2>2, SameTodo, NothingListed
    <3>2. Listed(o, Todo(t, k)')
      BY <2>2, <3>1
    <3> QED
      BY <3>1, <3>2 DEF InTodo, Todo, Listed
  <2>3. InTodo(o)' => \E t \in Thread : \E k \in 1..Len(stack'[t]) : Listed(o, Todo(t, k)')
    BY DEF InTodo, Todo, Listed
  <2> QED
    BY <2>1, <2>2, <2>3 DEF InTodo
<1> QED
  BY <1>1 DEF Waits, InTodo, Todo, Listed

(* A dispatcher that takes the dying objects keeps them all.               *)
LEMMA TakenWaits ==
    ASSUME TypeOK, TodoEmpty, Effects, NEW top \in Activation, TakesDying(top)
    PROVE  \A o : Waits(o)' <=> Waits(o)
<1> TAKE o
<1>0. PICK c \in Thread, n \in Nat : c = cur /\ n = Len(stack[c])
  BY StackEffect
<1>1. Moves(top) /\ n \in 1..n /\ Top(cur) = stack[c][n]
  BY <1>0, StackEffect DEF TakesDying, Top
<1>2. Todo(c, n) = <<>> /\ Todo(c, n)' = dying /\ dying' = <<>>
  BY <1>0, <1>1, StackEffect DEF TakesDying, TodoEmpty, Todo
<1>3. \A t \in Thread : \A k \in 1..Len(stack[t]) : ~(t = c /\ k = n) => Todo(t, k)' = Todo(t, k)
  BY <1>0, <1>1, StackEffect DEF Todo
<1>4. \A t \in Thread : Len(stack'[t]) = Len(stack[t])
  BY <1>0, <1>1, StackEffect
<1>5. InTodo(o)' <=> InTodo(o) \/ Listed(o, dying)
  <2>1. InTodo(o)' <=> \E t \in Thread : \E k \in 1..Len(stack[t]) : Listed(o, Todo(t, k)')
    BY <1>4 DEF InTodo, Todo, Listed
  <2>2. n \in 1..Len(stack[c]) /\ ~Listed(o, Todo(c, n))
    BY <1>0, <1>1, <1>2, NothingListed
  <2>3. Listed(o, Todo(c, n)') <=> Listed(o, dying)
    BY <1>2
  <2>4. \A t \in Thread : \A k \in 1..Len(stack[t]) :
           ~(t = c /\ k = n) => (Listed(o, Todo(t, k)') <=> Listed(o, Todo(t, k)))
    BY <1>3
  <2> QED
    BY <2>1, <2>2, <2>3, <2>4, Zenon DEF InTodo
<1> QED
  BY <1>2, <1>5, NothingListed DEF Waits, InTodo, Todo, Listed

(* The one whose __del__ is called next waits no longer; the others do.    *)
LEMMA FinalizedWaits ==
    ASSUME TypeOK, DelsOnce, Effects, NEW top \in Activation, Finalizes(top)
    PROVE  /\ top.what \in Del /\ Waits(top.what)
           /\ \A o \in Del : Waits(o)' <=> Waits(o) /\ o # top.what
<1>0. PICK c \in Thread, n \in Nat : c = cur /\ n = Len(stack[c])
  BY StackEffect
<1> DEFINE list == Todo(c, n)
<1>1. Moves(top) /\ n \in 1..n /\ Top(cur) = stack[c][n]
  BY <1>0, StackEffect DEF Finalizes, Top
<1>2. list \in Seq(Del) /\ list # <<>> /\ top.what = Head(list) /\ Todo(c, n)' = Tail(list) /\ dying' = dying
  BY <1>0, <1>1, StackEffect, TodoTypes DEF Finalizes, Todo, debts
<1>3. \A t \in Thread : \A k \in 1..Len(stack[t]) : ~(t = c /\ k = n) => Todo(t, k)' = Todo(t, k)
  BY <1>0, <1>1, StackEffect DEF Todo
<1>4. \A t \in Thread : Len(stack'[t]) = Len(stack[t])
  BY <1>0, <1>1, StackEffect
<1>5. Distinct(list)
  BY <1>0, <1>1 DEF DelsOnce
<1>6. top.what \in Del /\ Listed(top.what, list)
  <2>1. 1 \in 1..Len(list) /\ list[1] = top.what /\ Head(list) \in Del
    BY <1>2
  <2> QED
    BY <1>2, <2>1 DEF Listed
<1>7. \A o : Listed(o, Tail(list)) <=> Listed(o, list) /\ o # top.what
  <2>1. /\ Len(list) \in Nat \ {0} /\ Len(Tail(list)) = Len(list) - 1 /\ list[1] = top.what
        /\ \A k \in 1..Len(list) - 1 : Tail(list)[k] = list[k + 1]
    BY <1>2, HeadTailProperties
  <2> HIDE DEF list
  <2>2. ASSUME NEW o, Listed(o, Tail(list)) PROVE Listed(o, list) /\ o # top.what
    <3>1. PICK k \in 1..Len(list) - 1 : Tail(list)[k] = o
      BY <2>1, <2>2 DEF Listed
    <3>2. k + 1 \in 1..Len(list) /\ 1 \in 1..Len(list) /\ k + 1 # 1 /\ list[k + 1] = o
      BY <2>1, <3>1
    <3> QED
      BY <1>5, <2>1, <3>2 DEF Listed, Distinct
  <2>3. ASSUME NEW o, Listed(o, list), o # top.what PROVE Listed(o, Tail(list))
    <3>1. PICK k \in 1..Len(list) : list[k] = o
      BY <2>3 DEF Listed
    <3>2. k - 1 \in 1..Len(list) - 1 /\ (k - 1) + 1 = k
      BY <2>1, <2>3, <3>1
    <3>3. Tail(list)[k - 1] = o /\ k - 1 \in 1..Len(Tail(list))
      BY <2>1, <3>1, <3>2
    <3> QED
      BY <3>3 DEF Listed
  <2> QED
    BY <2>2, <2>3
<1>8. ASSUME NEW o \in Del PROVE InTodo(o)' <=> InTodo(o) /\ o # top.what
  <2>1. InTodo(o)' <=> \E t \in Thread : \E k \in 1..Len(stack[t]) : Listed(o, Todo(t, k)')
    BY <1>4 DEF InTodo, Todo, Listed
  <2>2. \A t \in Thread : \A k \in 1..Len(stack[t]) :
           ~(t = c /\ k = n) => ~Listed(top.what, Todo(t, k))
    BY <1>0, <1>1, <1>6 DEF DelsOnce
  <2> QED
    BY <1>1, <1>2, <1>3, <1>7, <2>1, <2>2 DEF InTodo
<1>9. ~Listed(top.what, dying)
  BY <1>0, <1>1, <1>6 DEF DelsOnce
<1>10. InTodo(top.what)
  BY <1>0, <1>1, <1>6 DEF InTodo
<1>11. \A o : Waits(o)' <=> Listed(o, dying) \/ InTodo(o)'
  BY <1>2 DEF Waits, InTodo, Todo, Listed
<1> QED
  BY <1>6, <1>8, <1>9, <1>10, <1>11, WaitsDef

(* Each effect is a step of the debts, or none.                            *)
LEMMA IdlesRefines ==
    ASSUME Idles
    PROVE  UNCHANGED Owed!vars
<1>1. Activity' = Activity
  BY DEF Idles, Activity
<1>2. \A o : Waits(o)' <=> Waits(o)
  BY DEF Idles, debts, Waits
<1>3. {o \in Del : Waits(o)}' = {o \in Del : Waits(o)}
  BY <1>2
<1> QED
  BY <1>1, <1>3 DEF Owed!vars, Idles, debts, None

(* What the step does to what the interpreter owes, in OwedCalls' terms.   *)
Raised == sigflags
Put == {pending} \ {None}
Dead == {o \in Del : Waits(o)}

LEMMA OwedVars ==
    /\ Owed!debts = <<Raised, Put, Dead>>
    /\ Owed!vars = <<Raised, Put, Dead, Activity>>
    /\ UNCHANGED Owed!debts <=> UNCHANGED <<Raised, Put, Dead>>
    /\ UNCHANGED Owed!vars <=> UNCHANGED <<Raised, Put, Dead, Activity>>
BY DEF Owed!debts, Owed!vars, Raised, Put, Dead

LEMMA DeadKept ==
    ASSUME OwedInv, Effects, ~\E top \in Activation : Finalizes(top),
           dying' = dying \/ \E top \in Activation : TakesDying(top)
    PROVE  Dead' = Dead
<1>1. \A o : Waits(o)' <=> Waits(o)
  BY SameWaits, TakenWaits DEF OwedInv
<1> QED
  BY <1>1 DEF Dead

LEMMA BeginsRefines ==
    ASSUME OwedInv, OwedInv', Effects, Begins
    PROVE  Owed!Enter(cur)
<1>1. ~\E top \in Activation : Finalizes(top)
  <2>1. \A top : Moves(top) => Len(stack'[cur]) = Len(stack[cur])
    BY StackEffect DEF OwedInv
  <2>2. Len(stack'[cur]) = Len(stack[cur]) + 1 /\ Len(stack[cur]) \in Nat
    BY StackEffect DEF OwedInv
  <2> QED
    BY <2>1, <2>2 DEF Finalizes
<1>2. UNCHANGED <<Raised, Put, Dead>>
  BY <1>1, DeadKept DEF Begins, debts, Raised, Put, None
<1> QED
  BY <1>2, CallsEntered, OwedVars DEF Owed!Enter, OwedInv

LEMMA EndsRefines ==
    ASSUME OwedInv, OwedInv', Effects, Ends
    PROVE  Owed!Leave(cur)
<1>1. ~\E top \in Activation : Finalizes(top)
  <2>1. \A top : Moves(top) => Len(stack'[cur]) = Len(stack[cur])
    BY StackEffect DEF OwedInv
  <2>2. Len(stack'[cur]) = Len(stack[cur]) - 1 /\ Len(stack[cur]) \in Nat
    BY StackEffect DEF OwedInv
  <2> QED
    BY <2>1, <2>2 DEF Finalizes
<1>2. UNCHANGED <<Raised, Put, Dead>>
  BY <1>1, DeadKept DEF Ends, debts, Raised, Put, None
<1> QED
  BY <1>2, CallsLeft, OwedVars DEF Owed!Leave, OwedInv

(* Moving on changes the innermost call; when the one before and the one   *)
(* after are the same, nothing.                                            *)
LEMMA SameCall ==
    ASSUME OwedInv, OwedInv', Effects, NEW top \in Activation, Moves(top),
           Calling(top) = Calling(Top(cur))
    PROVE  Activity' = Activity
<1>1. cur \in Thread /\ stack[cur] # <<>>
  BY StackEffect DEF OwedInv, Moves
<1>2. /\ Activity \in [Thread -> Seq(CallRecord)]
      /\ Activity[cur] \in Seq(CallRecord)
      /\ Activity[cur] # <<>>
      /\ Activity[cur][Len(Activity[cur])] = Calling(top)
  BY <1>1, ActivityNow, InnerCall DEF OwedInv, Owed!Inner
<1>3. Activity' = [Activity EXCEPT ![cur][Len(Activity[cur])] = Calling(top)]
  BY CallBecomes DEF OwedInv, Owed!Becomes
<1> HIDE DEF Activity
<1>4. [Activity[cur] EXCEPT ![Len(Activity[cur])] = Calling(top)] = Activity[cur]
  <2>1. Activity[cur] = [k \in DOMAIN Activity[cur] |-> Activity[cur][k]]
    BY <1>2
  <2> QED
    BY <1>2, <2>1
<1>5. [Activity EXCEPT ![cur][Len(Activity[cur])] = Calling(top)] = [Activity EXCEPT ![cur] = Activity[cur]]
  BY <1>2, <1>4
<1> QED
  BY <1>1, <1>2, <1>3, <1>5

LEMMA GoesOnRefines ==
    ASSUME OwedInv, OwedInv', Effects, NEW top \in Activation, GoesOn(top)
    PROVE  \/ UNCHANGED Owed!vars
           \/ Owed!Return(cur) \/ Owed!Trace(cur)
<1>1. Moves(top) /\ cur \in Thread /\ stack[cur] # <<>>
  BY StackEffect DEF GoesOn, Moves, OwedInv
<1>2. Owed!Becomes(cur, Calling(top))
  BY <1>1, CallBecomes DEF OwedInv
<1>3. Dead' = Dead
  <2>1. ASSUME NEW final \in Activation, Finalizes(final)
        PROVE  FALSE
    <3>1. final = top
      BY <1>1, <2>1, StackEffect DEF Finalizes, OwedInv
    <3> QED
      BY <2>1, <3>1 DEF GoesOn, Finalizes
  <2> QED
    BY <2>1, DeadKept DEF GoesOn, debts
<1>4. UNCHANGED <<Raised, Put, Dead>>
  BY <1>3 DEF GoesOn, debts, Raised, Put, None
<1>5. Top(cur) \in Activation
  BY <1>1, InnerCall DEF OwedInv
<1>6. CASE top.at = "trace"
  <2>1. Owed!Rests(cur)
    BY <1>1, <1>6, InnerCall DEF OwedInv, GoesOn
  <2> QED
    BY <1>2, <1>4, <1>6, <2>1, CallKinds, OwedVars DEF Owed!Trace
<1>7. CASE top.at # "trace" /\ Top(cur).at \in {"handler", "trace", "del"}
  <2>1. Owed!InCall(cur)
    BY <1>1, <1>7, InnerCall DEF OwedInv
  <2>2. Calling(top) = Owed!Resting
    BY <1>7, CallKinds DEF GoesOn
  <2> QED
    BY <1>2, <1>4, <2>1, <2>2, OwedVars DEF Owed!Return
<1>8. CASE top.at # "trace" /\ Top(cur).at \notin {"handler", "trace", "del"}
  <2>1. Calling(top) = Calling(Top(cur))
    BY <1>5, <1>8, CallKinds DEF GoesOn
  <2> QED
    BY <1>1, <1>4, <2>1, SameCall, OwedVars
<1> QED
  BY <1>6, <1>7, <1>8

LEMMA TakesDyingRefines ==
    ASSUME OwedInv, OwedInv', Effects, NEW top \in Activation, TakesDying(top)
    PROVE  UNCHANGED Owed!vars
<1>1. Moves(top) /\ cur \in Thread /\ stack[cur] # <<>>
  BY StackEffect DEF TakesDying, Moves, OwedInv
<1>2. Top(cur) \in Activation
  BY <1>1, InnerCall DEF OwedInv
<1>3. Calling(top) = Calling(Top(cur))
  BY <1>2, CallKinds DEF TakesDying
<1>4. ASSUME NEW final \in Activation, Finalizes(final)
      PROVE  FALSE
  BY <1>4 DEF TakesDying, Finalizes
<1>5. Dead' = Dead
  BY <1>4, DeadKept
<1> QED
  BY <1>1, <1>3, <1>5, SameCall, OwedVars DEF TakesDying, Raised, Put, None

LEMMA FinalizesRefines ==
    ASSUME OwedInv, OwedInv', Effects, NEW top \in Activation, Finalizes(top)
    PROVE  \E o \in Del : Owed!Finalize(cur, o)
<1>1. Moves(top) /\ cur \in Thread /\ stack[cur] # <<>>
  BY StackEffect DEF Finalizes, Moves, OwedInv
<1>2. top.what \in Del /\ Waits(top.what) /\ \A o \in Del : Waits(o)' <=> Waits(o) /\ o # top.what
  BY FinalizedWaits DEF OwedInv
<1>3. top.what \in {o \in Del : Waits(o)} /\ Dead' = {o \in Del : Waits(o)} \ {top.what}
  BY <1>2 DEF Dead
<1>4. Owed!Rests(cur)
  BY <1>1, InnerCall DEF OwedInv, Finalizes
<1>5. Owed!Becomes(cur, Owed!Finalizer(top.what))
  BY <1>1, CallBecomes, CallKinds DEF OwedInv, Finalizes
<1>6. Owed!Finalize(cur, top.what)
  BY <1>3, <1>4, <1>5 DEF Owed!Finalize, Dead, Finalizes, debts, None
<1> QED
  BY <1>2, <1>6

(* Handling a signal, or putting it aside, moves it there.                 *)
LEMMA HandlesRefines ==
    ASSUME OwedInv, OwedInv', Effects, NEW top \in Activation, NEW s \in Sig, Handles(top, s)
    PROVE  Owed!Handle(s)
<1>1. Moves(top) /\ cur = Main /\ cur \in Thread /\ stack[cur] # <<>>
  BY StackEffect DEF Handles, Moves, OwedInv
<1>2. Owed!Rests(Main)
  BY <1>1, InnerCall DEF OwedInv, Handles
<1>3. Owed!Becomes(Main, Owed!Handler(s))
  BY <1>1, CallBecomes, CallKinds DEF OwedInv, Handles
<1>4. ASSUME NEW final \in Activation, Finalizes(final)
      PROVE  FALSE
  BY <1>4 DEF Handles, Finalizes
<1>5. {o \in Del : Waits(o)}' = {o \in Del : Waits(o)}
  BY <1>4, DeadKept DEF Handles, Dead
<1>6. s # None /\ None' = None
  BY ActionConstants DEF None
<1>7. \/ s \in {pending} \ {None} /\ ({pending} \ {None})' = {} /\ UNCHANGED sigflags
      \/ s \in sigflags /\ sigflags' = sigflags \ {s} /\ UNCHANGED ({pending} \ {None})
  BY <1>6 DEF Handles
<1> QED
  BY <1>2, <1>3, <1>5, <1>7 DEF Owed!Handle

LEMMA PutsAsideRefines ==
    ASSUME OwedInv, OwedInv', Effects, NEW top \in Activation, NEW s \in Sig, PutsAside(top, s)
    PROVE  Owed!SetAside(cur, s)
<1>1. Moves(top) /\ cur # Main /\ cur \in Thread /\ stack[cur] # <<>>
  BY StackEffect DEF PutsAside, Moves, OwedInv
<1>2. Owed!Rests(cur)
  BY <1>1, InnerCall DEF OwedInv, PutsAside
<1>3. Activity' = Activity
  <2>1. Top(cur) \in Activation
    BY <1>1, InnerCall DEF OwedInv
  <2>2. Calling(top) = Calling(Top(cur))
    BY <2>1, CallKinds DEF PutsAside
  <2> QED
    BY <1>1, <2>2, SameCall
<1>4. ASSUME NEW final \in Activation, Finalizes(final)
      PROVE  FALSE
  BY <1>4 DEF PutsAside, Finalizes
<1>5. {o \in Del : Waits(o)}' = {o \in Del : Waits(o)}
  BY <1>4, DeadKept DEF PutsAside, Dead
<1>6. s # None /\ None' = None
  BY ActionConstants DEF None
<1>7. {pending} \ {None} = {} /\ ({pending} \ {None})' = {s}
  BY <1>6 DEF PutsAside
<1> QED
  BY <1>1, <1>2, <1>3, <1>5, <1>7 DEF Owed!SetAside, PutsAside

LEMMA ArrivesRefines ==
    ASSUME OwedInv, Effects, NEW s \in Sig, Arrives(s)
    PROVE  Owed!Arrive(s)
<1>1. Activity' = Activity
  BY DEF Arrives, Activity
<1>2. \A o : Waits(o)' <=> Waits(o)
  BY DEF Arrives, Waits
<1>3. {o \in Del : Waits(o)}' = {o \in Del : Waits(o)}
  BY <1>2
<1> QED
  BY <1>1, <1>3 DEF Owed!Arrive, Arrives, None

LEMMA DiesRefines ==
    ASSUME OwedInv, Effects, NEW o \in Del, Dies(o)
    PROVE  Owed!Die(o)
<1>1. Activity' = Activity
  BY DEF Dies, Activity
<1>2. \A x : Listed(x, dying') <=> Listed(x, dying) \/ x = o
  <2>1. dying \in Seq(Del) /\ dying' = Append(dying, o)
    BY TodoTypes DEF Dies, OwedInv
  <2>2. /\ Len(dying) \in Nat /\ Len(dying') = Len(dying) + 1 /\ dying'[Len(dying) + 1] = o
        /\ \A k \in 1..Len(dying) : dying'[k] = dying[k]
    BY <2>1, AppendProperties
  <2> QED
    BY <2>2 DEF Listed
<1>3. \A x : Waits(x)' <=> Waits(x) \/ x = o
  <2> TAKE x
  <2>1. Waits(x)' <=> \/ Listed(x, dying')
                     \/ \E t \in Thread : \E k \in 1..Len(stack[t]) : Listed(x, stack[t][k].todo)
    BY DEF Waits, Dies, Listed
  <2> QED
    BY <1>2, <2>1 DEF Waits
<1>4. /\ o \notin {x \in Del : Waits(x)}
      /\ {x \in Del : Waits(x)}' = {x \in Del : Waits(x)} \cup {o}
  BY <1>3 DEF Dies
<1> QED
  BY <1>1, <1>4 DEF Owed!Die, Dies, None

(***************************************************************************)
(* The theorems                                                            *)
(***************************************************************************)
LEMMA OwedInit == Init => OwedInv /\ Owed!Init
<1> SUFFICES ASSUME Init PROVE OwedInv /\ Owed!Init
  OBVIOUS
<1>1. TypeOK
  BY InitType
<1>2. \A t \in Thread : stack[t] = <<>> /\ Len(stack[t]) = 0
  BY DEF Init
<1>3. dying = <<>> /\ \A o : ~Waits(o)
  BY <1>2, NothingListed DEF Init, Waits
<1>4. ScanAlone /\ TodoEmpty /\ Loading /\ DelsOnce
  <2>1. Distinct(dying)
    BY <1>3 DEF Distinct
  <2>2. loaded = Nothing
    BY DEF Init
  <2> QED
    BY <1>2, <2>1, <2>2 DEF ScanAlone, TodoEmpty, Loading, DelsOnce
<1>5. {o \in Del : Waits(o)} = {} /\ {pending} \ {None} = {} /\ sigflags = {}
  BY <1>3 DEF Init
<1>6. Activity = [t \in Thread |-> <<>>]
  <2>1. \A t \in Thread : Activity[t] = <<>>
    BY <1>1, <1>2, InnerCall
  <2> QED
    BY <1>1, <2>1, ActivityNow
<1> QED
  BY <1>1, <1>4, <1>5, <1>6 DEF OwedInv, Owed!Init

LEMMA OwedNext ==
    ASSUME OwedInv, [Next]_vars
    PROVE  OwedInv' /\ [Owed!Next]_(Owed!vars)
<1>1. Effects
  BY NextEffects DEF OwedInv
<1>2. OwedInv'
  BY <1>1, NextType, NextScanAlone, NextLoading, NextTodoEmpty, NextDelsOnce DEF OwedInv
<1>3. cur \in Thread
  BY DEF OwedInv, TypeOK
<1>4. CASE Idles
  BY <1>2, <1>4, IdlesRefines
<1>5. CASE Begins \/ Ends
  BY <1>1, <1>2, <1>3, <1>5, BeginsRefines, EndsRefines DEF Owed!Next
<1>6. ASSUME NEW s \in Sig, Arrives(s) PROVE Owed!Next
  BY <1>1, <1>6, ArrivesRefines DEF Owed!Next
<1>7. ASSUME NEW o \in Del, Dies(o) PROVE Owed!Next
  BY <1>1, <1>7, DiesRefines DEF Owed!Next
<1>8. ASSUME NEW top \in Activation, GoesOn(top) \/ TakesDying(top) \/ Finalizes(top)
      PROVE  [Owed!Next]_(Owed!vars)
  BY <1>1, <1>2, <1>3, <1>8, GoesOnRefines, TakesDyingRefines, FinalizesRefines DEF Owed!Next
<1>9. ASSUME NEW top \in Activation, NEW s \in Sig, Handles(top, s) \/ PutsAside(top, s)
      PROVE  Owed!Next
  BY <1>1, <1>2, <1>3, <1>9, HandlesRefines, PutsAsideRefines DEF Owed!Next
<1> QED
  BY <1>1, <1>2, <1>4, <1>5, <1>6, <1>7, <1>8, <1>9 DEF Effects

(* pypysig_poll runs undisturbed, and a dying object is at one place of    *)
(* one list: in the list of UserDelAction or of the one dispatcher that    *)
(* has taken it.                                                           *)
THEOREM OwedInvariant == Spec => []OwedInv
  <1>1. Init => OwedInv
    BY OwedInit
  <1>2. OwedInv /\ [Next]_vars => OwedInv'
    BY OwedNext
  <1> QED BY <1>1, <1>2, PTL DEF Spec

(* The dispatcher pays each debt once and by a call: a signal that arrives *)
(* is handled by the main thread, whoever polls it, each object that dies  *)
(* has its __del__ called once, and no nesting of dispatchers, exception,  *)
(* switch of threads or gc.disable drops or repeats one.                   *)
THEOREM CallsOwed == Spec => CallsAsOwed
  <1>1. Init => Owed!Init
    BY OwedInit
  <1>2. OwedInv /\ [Next]_vars => [Owed!Next]_(Owed!vars)
    BY OwedNext
  <1> QED BY <1>1, <1>2, OwedInvariant, PTL DEF Spec, CallsAsOwed, Owed!Spec
=============================================================================
