-------------------------- MODULE ActionFlagProofs --------------------------
(***************************************************************************)
(* Theorems about ActionFlag for every set of threads, signals and dying   *)
(* objects, every check interval and every depth of nested dispatchers.    *)
(***************************************************************************)
EXTENDS ActionFlag, SequenceTheorems, TLAPS

(***************************************************************************)
(* The stack of activations: what Move, Pop and a push do to it.           *)
(***************************************************************************)
StackOK == stack \in [Thread -> Seq(Activation)]

(* The innermost activation is one of the stack's.                         *)
LEMMA TopActivation ==
    ASSUME StackOK, NEW t \in Thread, stack[t] # <<>>
    PROVE  /\ Len(stack[t]) \in 1..Len(stack[t])
           /\ Top(t) \in Activation
BY DEF StackOK, Top

(* Taking the first element of a list an activation keeps.                 *)
LEMMA Take ==
    ASSUME NEW top \in Activation
    PROVE  /\ top.rest # <<>> => /\ Head(top.rest) \in Action
                                 /\ Tail(top.rest) \in Seq(Action)
                                 /\ Len(Tail(top.rest)) = Len(top.rest) - 1
                                 /\ \A i \in 1..Len(top.rest) - 1 : Tail(top.rest)[i] = top.rest[i + 1]
           /\ top.todo # <<>> => /\ Head(top.todo) \in Del
                                 /\ Tail(top.todo) \in Seq(Del)
<1>1. top.rest \in Seq(Action) /\ top.todo \in Seq(Del)
  BY DEF Activation
<1> QED
  BY <1>1, HeadTailProperties

(* Changing the innermost activation changes no other.                     *)
LEMMA MoveStack ==
    ASSUME StackOK, NEW t \in Thread, stack[t] # <<>>,
           NEW top \in Activation, Move(t, top)
    PROVE  /\ StackOK'
           /\ \A u \in Thread : Len(stack'[u]) = Len(stack[u])
           /\ \A u \in Thread : \A k \in 1..Len(stack[u]) :
                 stack'[u][k] = IF u = t /\ k = Len(stack[t]) THEN top ELSE stack[u][k]
<1>1. stack[t] \in Seq(Activation) /\ Len(stack[t]) \in 1..Len(stack[t])
  BY DEF StackOK
<1>2. stack' = [stack EXCEPT ![t] = [stack[t] EXCEPT ![Len(stack[t])] = top]]
  BY DEF Move, StackOK
<1> DEFINE s == [stack[t] EXCEPT ![Len(stack[t])] = top]
<1>3. /\ s \in Seq(Activation)
      /\ Len(s) = Len(stack[t])
      /\ \A k \in 1..Len(stack[t]) : s[k] = IF k = Len(stack[t]) THEN top ELSE stack[t][k]
  BY <1>1, ExceptSeq
<1>4. \A u \in Thread : stack'[u] = IF u = t THEN s ELSE stack[u]
  BY <1>2 DEF StackOK
<1> QED
  BY <1>2, <1>3, <1>4 DEF StackOK

(* Ending the innermost activation leaves those below as they were.        *)
LEMMA PopStack ==
    ASSUME StackOK, NEW t \in Thread, stack[t] # <<>>, Pop(t)
    PROVE  /\ StackOK'
           /\ \A u \in Thread : Len(stack'[u]) = IF u = t THEN Len(stack[t]) - 1 ELSE Len(stack[u])
           /\ \A u \in Thread : \A k \in 1..Len(stack'[u]) : stack'[u][k] = stack[u][k]
<1>1. stack[t] \in Seq(Activation) /\ Len(stack[t]) \in Nat \ {0}
  BY DEF StackOK
<1> DEFINE s == SubSeq(stack[t], 1, Len(stack[t]) - 1)
<1>2. /\ s \in Seq(Activation)
      /\ Len(s) = Len(stack[t]) - 1
      /\ \A k \in 1..Len(s) : s[k] = stack[t][k]
  BY <1>1
<1>3. stack' = [stack EXCEPT ![t] = s]
  BY DEF Pop, StackOK
<1>4. \A u \in Thread : stack'[u] = IF u = t THEN s ELSE stack[u]
  BY <1>3 DEF StackOK
<1> QED
  BY <1>2, <1>3, <1>4 DEF StackOK

Fresh == [at |-> "poll", rest |-> <<>>, todo |-> <<>>, what |-> None]

(* A new activation of the dispatcher begins above the others.             *)
LEMMA PushStack ==
    ASSUME StackOK, NEW t \in Thread, BeginDispatch(t)
    PROVE  /\ StackOK'
           /\ \A u \in Thread : Len(stack'[u]) = IF u = t THEN Len(stack[t]) + 1 ELSE Len(stack[u])
           /\ \A u \in Thread : \A k \in 1..Len(stack[u]) : stack'[u][k] = stack[u][k]
           /\ stack'[t][Len(stack[t]) + 1] = Fresh
<1>1. stack[t] \in Seq(Activation)
  BY DEF StackOK
<1>2. Fresh \in Activation
  BY DEF Fresh, Activation
<1>3. stack' = [stack EXCEPT ![t] = Append(stack[t], Fresh)]
  BY DEF BeginDispatch, StackOK, Fresh
<1>4. /\ Append(stack[t], Fresh) \in Seq(Activation)
      /\ Len(Append(stack[t], Fresh)) = Len(stack[t]) + 1
      /\ \A k \in 1..Len(stack[t]) : Append(stack[t], Fresh)[k] = stack[t][k]
      /\ Append(stack[t], Fresh)[Len(stack[t]) + 1] = Fresh
  BY <1>1, <1>2
<1> QED
  BY <1>3, <1>4 DEF StackOK

-----------------------------------------------------------------------------
(***************************************************************************)
(* Types                                                                   *)
(***************************************************************************)
LEMMA FireType ==
    ASSUME TypeOK, NEW a \in Action, Fire(a)
    PROVE  fired' \in [Action -> BOOLEAN] /\ storing' \in Seq(Action)
<1>1. CASE UNCHANGED <<fired, storing>>
  BY <1>1 DEF TypeOK
<1>2. CASE fired' = [fired EXCEPT ![a] = TRUE] /\ storing' = Append(queue, a)
  <2>1. storing' \in Seq(Action)
    BY <1>2, AppendProperties DEF TypeOK
  <2>2. fired' \in [Action -> BOOLEAN]
    BY <1>2 DEF TypeOK
  <2> QED
    BY <2>1, <2>2
<1> QED
  BY <1>1, <1>2 DEF Fire

LEMMA FireAtOnceType ==
    ASSUME TypeOK, NEW a \in Action, FireAtOnce(a)
    PROVE  /\ ticker' \in -1..CheckInterval
           /\ fired' \in [Action -> BOOLEAN]
           /\ queue' \in Seq(Action) /\ storing' \in Seq(Action)
<1>1. CASE UNCHANGED <<fired, queue, ticker>>
  BY <1>1 DEF FireAtOnce, TypeOK
<1>2. CASE /\ fired' = [fired EXCEPT ![a] = TRUE]
           /\ queue' = Append(queue, a)
           /\ ticker' = -1
  <2>1. queue' \in Seq(Action)
    BY <1>2, AppendProperties DEF TypeOK
  <2>2. fired' \in [Action -> BOOLEAN]
    BY <1>2 DEF TypeOK
  <2> QED
    BY <1>2, <2>1, <2>2, ActionConstants DEF FireAtOnce, TypeOK
<1> QED
  BY <1>1, <1>2 DEF FireAtOnce

(* perform goes on to the GIL, or to the handler of the signal it has got. *)
LEMMA HandleMoves ==
    ASSUME TypeOK, NEW t \in Thread, stack[t] # <<>>,
           NEW n \in Sig \cup {None}, Handle(t, n)
    PROVE  /\ \E top \in Activation :
                 /\ Move(t, top) /\ top.rest = Top(t).rest
                 /\ top.at \in {"handler", "gil"}
                 /\ n # None /\ t = Main => top.at = "handler"
           /\ pending' \in Sig \cup {None} /\ fireInMain' \in BOOLEAN
           /\ fireInMain => fireInMain'
           /\ \/ pending' = None
              \/ n # None /\ fireInMain'
              \/ n = None /\ UNCHANGED pending
<1>1. StackOK
  BY DEF TypeOK, StackOK
<1>2. Top(t) \in Activation
  BY <1>1, TopActivation
<1>3. /\ [Top(t) EXCEPT !.at = "gil", !.what = None] \in Activation
      /\ [Top(t) EXCEPT !.at = "handler", !.what = n] \in Activation
      /\ [Top(t) EXCEPT !.at = "gil", !.what = None].rest = Top(t).rest
      /\ [Top(t) EXCEPT !.at = "handler", !.what = n].rest = Top(t).rest
      /\ [Top(t) EXCEPT !.at = "gil", !.what = None].at = "gil"
      /\ [Top(t) EXCEPT !.at = "handler", !.what = n].at = "handler"
  BY <1>2 DEF Activation
<1> QED
  BY <1>3 DEF Handle, StopPolling, CallHandler, TypeOK

(* What a step of perform and of pypysig_poll leaves alone, and where it   *)
(* leads.                                                                  *)
LEMMA PollMoves ==
    ASSUME TypeOK, NEW t \in Thread, check_signal(t) \/ pypysig_poll(t)
    PROVE  /\ cur = t /\ stack[t] # <<>> /\ Top(t) \in Activation /\ Top(t).at \in {"poll", "scan"}
           /\ \E top \in Activation : /\ Move(t, top) /\ top.rest = Top(t).rest
                                     /\ top.at \in {"scan", "handler", "gil"}
           /\ sigflags' \subseteq Sig /\ occurred' \in BOOLEAN
           /\ pending' \in Sig \cup {None} /\ fireInMain' \in BOOLEAN
           /\ UNCHANGED <<cur, loaded, firing, pushing, dels>>
<1>1. StackOK
  BY DEF TypeOK, StackOK
<1>2. cur = t /\ stack[t] # <<>> /\ Top(t).at \in {"poll", "scan"}
  BY DEF check_signal, pypysig_poll, At, Holds
<1>3. Top(t) \in Activation
  BY <1>1, <1>2, TopActivation
<1>4. \A n \in Sig \cup {None} :
         LET top == [Top(t) EXCEPT !.at = "scan", !.what = n]
         IN  top \in Activation /\ top.rest = Top(t).rest /\ top.at = "scan"
  BY <1>3 DEF Activation
<1>5. [Top(t) EXCEPT !.what = None] \in Activation
  BY <1>3 DEF Activation
<1>6. UNCHANGED <<cur, loaded, firing, pushing, dels>>
  BY DEF check_signal, pypysig_poll
<1>7. CASE check_signal(t)
  <2>1. CASE pending # None /\ Handle(t, pending) /\ UNCHANGED <<occurred, sigflags>>
    BY <1>2, <1>3, <1>6, <2>1, HandleMoves DEF TypeOK
  <2>2. CASE Handle(t, None) /\ UNCHANGED <<occurred, sigflags>>
    BY <1>2, <1>3, <1>6, <2>2, HandleMoves DEF TypeOK
  <2>3. CASE /\ occurred' = FALSE
             /\ Move(t, [Top(t) EXCEPT !.at = "scan", !.what = None])
             /\ UNCHANGED <<pending, fireInMain, sigflags>>
    BY <1>2, <1>3, <1>4, <1>6, <2>3 DEF TypeOK
  <2> QED
    BY <1>7, <2>1, <2>2, <2>3 DEF check_signal
<1>8. CASE pypysig_poll(t)
  <2>1. CASE Handle(t, None) /\ UNCHANGED <<sigflags, occurred>>
    BY <1>2, <1>3, <1>6, <2>1, HandleMoves DEF TypeOK
  <2>2. ASSUME NEW i \in Sig, Move(t, [Top(t) EXCEPT !.what = i]),
               UNCHANGED <<sigflags, occurred, pending, fireInMain>>
        PROVE  \E top \in Activation : /\ Move(t, top) /\ top.rest = Top(t).rest
                                        /\ top.at \in {"scan", "handler", "gil"}
    <3>1. Top(t).at = "scan"
      BY <1>8 DEF pypysig_poll, At
    <3>2. LET top == [Top(t) EXCEPT !.what = i]
          IN  top \in Activation /\ top.rest = Top(t).rest /\ top.at = "scan"
      BY <1>3, <3>1 DEF Activation
    <3> QED
      BY <2>2, <3>2
  <2>3. ASSUME NEW i \in Sig, Handle(t, i)
        PROVE  /\ pending' \in Sig \cup {None} /\ fireInMain' \in BOOLEAN
               /\ \E top \in Activation : /\ Move(t, top) /\ top.rest = Top(t).rest
                                         /\ top.at \in {"scan", "handler", "gil"}
    BY <1>2, <2>3, HandleMoves
  <2>4. PICK i \in Sig \cup {None} :
          \/ Handle(t, None) /\ UNCHANGED <<sigflags, occurred>>
          \/ /\ i \in Sig
             /\ Move(t, [Top(t) EXCEPT !.what = i])
             /\ UNCHANGED <<sigflags, occurred, pending, fireInMain>>
          \/ /\ i \in Sig
             /\ sigflags' = sigflags \ {i} /\ occurred' = TRUE
             /\ Handle(t, i)
    BY <1>8 DEF pypysig_poll, Ahead
  <2> QED
    BY <1>2, <1>3, <1>6, <2>1, <2>2, <2>3, <2>4 DEF TypeOK
<1> QED
  BY <1>7, <1>8

(* A switch of threads keeps the types of what it may write.               *)
LEMMA SwitchType ==
    ASSUME TypeOK, NEW t, AfterSwitch(t)
    PROVE  fireInMain' \in BOOLEAN /\ ticker' \in -1..CheckInterval
<1>1. fireInMain' \in BOOLEAN
  BY Zenon DEF AfterSwitch, TypeOK
<1>2. ticker' = -1 \/ ticker' = ticker
  BY DEF AfterSwitch
<1> QED
  BY <1>1, <1>2, ActionConstants DEF TypeOK

(* The types hold when the interpreter starts.                             *)
LEMMA InitType == Init => TypeOK
<1> SUFFICES ASSUME Init PROVE TypeOK
  OBVIOUS
<1>1. locked \in BOOLEAN /\ fireInMain \in BOOLEAN /\ occurred \in BOOLEAN
  BY Zenon DEF Init
<1>4. fired \in [Action -> BOOLEAN]
  <2>1. fired = [a \in Action |-> FALSE]
    BY DEF Init
  <2> QED
    BY <2>1
<1>2. <<>> \in Seq(Activation) /\ <<>> \in Seq(Action) /\ <<>> \in Seq(Del)
  BY EmptySeq
<1>3. /\ stack \in [Thread -> Seq(Activation)] /\ dying \in Seq(Del)
      /\ queue \in Seq(Action) /\ storing \in Seq(Action)
  <2>1. stack = [t \in Thread |-> <<>>] /\ queue = <<>> /\ storing = <<>> /\ dying = <<>>
    BY DEF Init
  <2> QED
    BY <1>2, <2>1
<1> QED
  BY <1>1, <1>3, <1>4, ActionConstants DEF Init, TypeOK, Nothing

(* Every step keeps the types.                                             *)
LEMMA NextType ==
    ASSUME TypeOK, [Next]_vars
    PROVE  TypeOK'
<1> USE ActionConstants DEF Holds, At
<1>1. StackOK
  BY DEF TypeOK, StackOK
<1>2. CASE UNCHANGED vars
  BY <1>2 DEF vars, TypeOK
<1>3. ASSUME NEW t \in Thread, opcode(t) \/ after_exception(t)
      PROVE  TypeOK'
  <2>1. BeginDispatch(t)
    BY <1>3 DEF opcode, after_exception
  <2>2. StackOK'
    BY <1>1, <2>1, PushStack
  <2>3. ticker' \in -1..CheckInterval
    BY <2>1 DEF BeginDispatch
  <2> QED
    BY <1>3, <2>2, <2>3 DEF opcode, after_exception, Unticked, flags, signals, dels, StackOK, TypeOK
<1>4. ASSUME NEW t \in Thread, decrement_load(t)
      PROVE  TypeOK'
  BY <1>4 DEF decrement_load, Unticked, flags, signals, dels, TypeOK
<1>5. ASSUME NEW t \in Thread, decrement_store(t)
      PROVE  TypeOK'
  <2>1. CASE loaded - 1 < 0 /\ BeginDispatch(t)
    <3>1. StackOK'
      BY <1>1, <2>1, PushStack
    <3> QED
      BY <1>5, <2>1, <3>1 DEF decrement_store, BeginDispatch, Unticked, flags, signals, dels, StackOK, TypeOK, Nothing
  <2>2. CASE loaded - 1 >= 0 /\ ticker' = loaded - 1 /\ UNCHANGED stack
    BY <1>5, <2>2 DEF decrement_store, Unticked, flags, signals, dels, TypeOK, Nothing
  <2> QED
    BY <1>5, <2>1, <2>2 DEF decrement_store
<1>6. ASSUME NEW t \in Thread, check_signal(t) \/ pypysig_poll(t)
      PROVE  TypeOK'
  <2>1. StackOK'
    BY <1>1, <1>6, PollMoves, MoveStack
  <2> QED
    BY <1>6, <2>1, PollMoves DEF firing, dels, StackOK, TypeOK
<1>7. ASSUME NEW t \in Thread, grab_actions(t)
      PROVE  TypeOK'
  <2>1. stack[t] # <<>> /\ Top(t) \in Activation
    BY <1>1, <1>7, TopActivation DEF grab_actions
  <2>2. [Top(t) EXCEPT !.at = "actions", !.rest = queue] \in Activation
    BY <2>1 DEF Activation, TypeOK
  <2>3. StackOK'
    BY <1>1, <1>7, <2>1, <2>2, MoveStack DEF grab_actions
  <2> QED
    BY <1>7, <2>3 DEF grab_actions, flags, signals, dels, StackOK, TypeOK
<1>8. ASSUME NEW t \in Thread, stack[t] # <<>>, Pop(t),
             UNCHANGED <<cur, ticker, loaded, queue, signals, dels>>,
             UNCHANGED <<fired, storing>> \/ Fire("trace")
      PROVE  TypeOK'
  <2>1. StackOK'
    BY <1>1, <1>8, PopStack
  <2>2. fired' \in [Action -> BOOLEAN] /\ storing' \in Seq(Action)
    BY <1>8, FireType DEF Action, TypeOK
  <2> QED
    BY <1>8, <2>1, <2>2 DEF flags, signals, dels, StackOK, TypeOK
<1>9. ASSUME NEW t \in Thread, end_dispatch(t) \/ callback_raises(t)
      PROVE  TypeOK'
  BY <1>8, <1>9 DEF end_dispatch, callback_raises, firing
<1>10. ASSUME NEW t \in Thread, user_del(t)
       PROVE  TypeOK'
  <2>1. stack[t] # <<>> /\ Top(t) \in Activation /\ Top(t).rest # <<>>
    BY <1>1, <1>10, TopActivation DEF user_del, NextAction
  <2>2. /\ [Top(t) EXCEPT !.rest = Tail(@)] \in Activation
        /\ [Top(t) EXCEPT !.at = "taking", !.rest = Tail(@)] \in Activation
    BY <2>1, Take DEF Activation
  <2>3. StackOK'
    BY <1>1, <1>10, <2>1, <2>2, MoveStack DEF user_del
  <2>5. fired' \in [Action -> BOOLEAN]
    BY <1>10 DEF user_del, TypeOK
  <2> QED
    BY <1>10, <2>3, <2>5 DEF user_del, flags, signals, dels, StackOK, TypeOK
<1>22. ASSUME NEW t \in Thread, take_dying(t)
       PROVE  TypeOK'
  <2>1. stack[t] # <<>> /\ Top(t) \in Activation
    BY <1>1, <1>22, TopActivation DEF take_dying
  <2>2. [Top(t) EXCEPT !.at = "dels", !.todo = dying] \in Activation
    BY <2>1 DEF Activation, TypeOK
  <2>3. StackOK'
    BY <1>1, <1>22, <2>1, <2>2, MoveStack DEF take_dying
  <2>4. dying' \in Seq(Del)
    BY <1>22, EmptySeq DEF take_dying
  <2> QED
    BY <1>22, <2>3, <2>4 DEF take_dying, firing, flags, signals, StackOK, TypeOK
<1>23. ASSUME NEW t \in Thread, fire_store(t)
       PROVE  TypeOK'
  <2>1. storing' \in Seq(Action) /\ queue' \in Seq(Action)
    BY <1>23, EmptySeq DEF fire_store, TypeOK
  <2> QED
    BY <1>23, <2>1 DEF fire_store, flags, signals, dels, TypeOK
<1>11. ASSUME NEW t \in Thread, next_del(t)
       PROVE  TypeOK'
  <2>1. stack[t] # <<>> /\ Top(t) \in Activation
    BY <1>1, <1>11, TopActivation DEF next_del
  <2>2. [Top(t) EXCEPT !.at = "actions", !.what = None] \in Activation
    BY <2>1 DEF Activation
  <2>3. Top(t).todo # <<>> =>
          [Top(t) EXCEPT !.at = "del", !.what = Head(Top(t).todo), !.todo = Tail(@)] \in Activation
    BY <2>1, Take DEF Activation
  <2>4. StackOK'
    BY <1>1, <1>11, <2>1, <2>2, <2>3, MoveStack DEF next_del, Goto
  <2> QED
    BY <1>11, <2>4 DEF next_del, firing, flags, signals, dels, StackOK, TypeOK
<1>12. ASSUME NEW t \in Thread, frame_trace(t)
       PROVE  TypeOK'
  <2>1. stack[t] # <<>> /\ Top(t) \in Activation /\ Top(t).rest # <<>>
    BY <1>1, <1>12, TopActivation DEF frame_trace, NextAction
  <2>2. /\ [Top(t) EXCEPT !.rest = Tail(@)] \in Activation
        /\ [[Top(t) EXCEPT !.rest = Tail(@)] EXCEPT !.at = "trace"] \in Activation
    BY <2>1, Take DEF Activation
  <2>3. StackOK'
    BY <1>1, <1>12, <2>1, <2>2, MoveStack DEF frame_trace
  <2>4. fired' \in [Action -> BOOLEAN] /\ storing' \in Seq(Action)
    <3>1. CASE fired' = [fired EXCEPT !["trace"] = FALSE] /\ UNCHANGED storing
      BY <3>1 DEF TypeOK
    <3>2. CASE storing' = Append(queue, "trace") /\ UNCHANGED fired
      BY <3>2, AppendProperties DEF TypeOK, Action
    <3> QED
      BY <1>12, <3>1, <3>2 DEF frame_trace
  <2> QED
    BY <1>12, <2>3, <2>4 DEF frame_trace, flags, signals, dels, StackOK, TypeOK
<1>13. ASSUME NEW t \in Thread, callback_returns(t)
       PROVE  TypeOK'
  <2>1. stack[t] # <<>> /\ Top(t) \in Activation
    BY <1>1, <1>13, TopActivation DEF callback_returns
  <2>2. \A where \in {"poll", "dels", "actions"} :
           [Top(t) EXCEPT !.at = where, !.what = None] \in Activation
    BY <2>1 DEF Activation
  <2>3. StackOK'
    BY <1>1, <1>13, <2>1, <2>2, MoveStack DEF callback_returns, Goto
  <2>4. fired' \in [Action -> BOOLEAN] /\ storing' \in Seq(Action)
    BY <1>13, FireType DEF callback_returns, firing, Action, TypeOK
  <2> QED
    BY <1>13, <2>3, <2>4 DEF callback_returns, firing, flags, signals, dels, StackOK, TypeOK
<1>14. ASSUME NEW t \in Thread, settrace(t) \/ enable_finalizers(t)
       PROVE  TypeOK'
  <2>1. fired' \in [Action -> BOOLEAN] /\ storing' \in Seq(Action)
    BY <1>14, FireType DEF settrace, enable_finalizers, Action
  <2> QED
    BY <1>14, <2>1 DEF settrace, enable_finalizers, flags, signals, dels, TypeOK
<1>15. ASSUME NEW t \in Thread, setcheckinterval(t) \/ disable_finalizers(t)
       PROVE  TypeOK'
  <2>1. locked' \in BOOLEAN
    BY <1>15, Zenon DEF setcheckinterval, disable_finalizers, dels, TypeOK
  <2>2. ticker' \in -1..CheckInterval
    BY <1>15 DEF setcheckinterval, disable_finalizers, firing, TypeOK
  <2> QED
    BY <1>15, <2>1, <2>2 DEF setcheckinterval, disable_finalizers, firing, flags, signals, dels, TypeOK
<1>16. ASSUME NEW t \in Thread, NEW s \in Sig, set_interrupt(t, s)
       PROVE  TypeOK'
  BY <1>16 DEF set_interrupt, dels, TypeOK
<1>17. ASSUME NEW s \in Sig, pushback(s)
       PROVE  TypeOK'
  <2>1. /\ ticker' = ticker \/ ticker' = -1
        /\ sigflags' = sigflags \/ sigflags' = sigflags \cup {s}
        /\ occurred' = occurred \/ occurred' = TRUE
        /\ \E to \in {"idle", "flagged", "noticed"} : pushing' = [pushing EXCEPT ![s] = to]
        /\ UNCHANGED <<cur, stack, loaded, fired, queue, storing, pending, fireInMain, dels>>
    BY <1>17 DEF pushback, signal_setflag_handler, pushback_occurred, pushback_counter, Stage
  <2>2. pushing' \in [Sig -> {"idle", "flagged", "noticed"}]
    BY <2>1 DEF TypeOK
  <2>3. ticker' \in -1..CheckInterval
    BY <2>1 DEF TypeOK
  <2>5. sigflags' \subseteq Sig
    BY <2>1 DEF TypeOK
  <2>4. occurred' \in BOOLEAN
    BY <2>1, Zenon DEF TypeOK
  <2> QED
    BY <2>1, <2>2, <2>3, <2>4, <2>5 DEF dels, TypeOK
<1>18. ASSUME NEW o \in Del, register_callback(o)
       PROVE  TypeOK'
  <2>1. /\ ticker' \in -1..CheckInterval /\ fired' \in [Action -> BOOLEAN]
        /\ queue' \in Seq(Action) /\ storing' \in Seq(Action)
    BY <1>18, FireAtOnceType DEF register_callback, Action
  <2> QED
    BY <1>18, <2>1 DEF register_callback, flags, signals, TypeOK
<1>19. ASSUME NEW t \in Thread, NEW u \in Thread, external_call(t, u)
       PROVE  TypeOK'
  <2>1. fireInMain' \in BOOLEAN /\ ticker' \in -1..CheckInterval
    BY <1>19, SwitchType DEF external_call
  <2> QED
    BY <1>19, <2>1 DEF external_call, flags, dels, TypeOK
<1>20. ASSUME NEW t \in Thread, NEW u \in Thread, release_gil(t, u)
       PROVE  TypeOK'
  <2>1. fireInMain' \in BOOLEAN /\ ticker' \in -1..CheckInterval
    BY <1>20, SwitchType DEF release_gil, TypeOK
  <2>2. stack[t] # <<>> /\ Top(t) \in Activation
    BY <1>1, <1>20, TopActivation DEF release_gil
  <2>3. [Top(t) EXCEPT !.at = "grab", !.what = None] \in Activation
    BY <2>2 DEF Activation
  <2>4. StackOK'
    BY <1>1, <1>20, <2>2, <2>3, MoveStack DEF release_gil, Goto
  <2> QED
    BY <1>20, <2>1, <2>4 DEF release_gil, flags, dels, StackOK, TypeOK
<1>21. QED
  BY <1>2, <1>3, <1>4, <1>5, <1>6, <1>7, <1>9, <1>10, <1>11, <1>12, <1>13, <1>14, <1>15,
     <1>16, <1>17, <1>18, <1>19, <1>20, <1>22, <1>23
  DEF Next, Interpret, Program, Switch, Outside

(* The types of the dispatcher's state.                                    *)
THEOREM TypeCorrect == Spec => []TypeOK
BY InitType, NextType, PTL DEF Spec

-----------------------------------------------------------------------------
(***************************************************************************)
(* No dying object is forgotten                                            *)
(***************************************************************************)
LEMMA FireDel ==
    ASSUME TypeOK, NEW a \in Action, Fire(a) \/ FireAtOnce(a)
    PROVE  /\ fired["del"] => fired'["del"]
           /\ a = "del" => fired'["del"]
BY DEF Fire, FireAtOnce, TypeOK, Action

(* decrement_ticker runs in the program, not inside perform.               *)
DyingInv == DyingScheduled /\ (loaded # Nothing => ~Taking(cur))

(* No step forgets dying objects: perform takes them all or leaves them    *)
(* all while finalizers are disabled.                                      *)
LEMMA NextDying ==
    ASSUME TypeOK, DyingInv, [Next]_vars
    PROVE  DyingInv'
<1> USE DEF Holds, At
<1>1. StackOK /\ cur \in Thread
  BY DEF TypeOK, StackOK
<1>2. Nothing' = Nothing
  BY DEF Nothing
<1>3. UNCHANGED <<cur, stack>> => Taking(cur)' = Taking(cur)
  BY DEF Taking, Top
<1>4. ASSUME NEW t \in Thread, cur = t, InProgram(t)
      PROVE  ~Taking(cur)
  BY <1>4 DEF InProgram, Taking
<1>5. ASSUME NEW t \in Thread, cur = t,
             \E where \in {"poll", "scan", "handler", "gil", "grab", "actions", "dels", "trace", "del"} :
                Top(t).at = where
      PROVE  ~Taking(cur)
  BY <1>5 DEF Taking
<1>6. ASSUME UNCHANGED <<dying, locked>>, fired["del"] => fired'["del"],
             UNCHANGED <<cur, stack>> \/ ~Taking(cur),
             loaded' = Nothing \/ (UNCHANGED <<cur, stack>> /\ (loaded' = loaded \/ ~Taking(cur)))
      PROVE  DyingInv'
  BY <1>2, <1>3, <1>6 DEF DyingInv, DyingScheduled
<1>7. CASE UNCHANGED vars
  BY <1>6, <1>7 DEF vars
<1>8. ASSUME NEW t \in Thread, \/ opcode(t) \/ decrement_load(t) \/ decrement_store(t) \/ after_exception(t)
      PROVE  DyingInv'
  <2>1. UNCHANGED <<dying, locked, fired, cur>>
    BY <1>8 DEF opcode, decrement_load, decrement_store, after_exception, Unticked, dels
  <2>2. ~Taking(cur)
    BY <1>4, <1>8 DEF opcode, decrement_load, decrement_store, after_exception, DyingInv
  <2>3. loaded' = Nothing \/ UNCHANGED stack
    BY <1>8 DEF opcode, decrement_load, decrement_store, after_exception
  <2> QED
    BY <1>6, <2>1, <2>2, <2>3
<1>9. ASSUME NEW t \in Thread, \/ check_signal(t) \/ pypysig_poll(t) \/ grab_actions(t)
                              \/ end_dispatch(t) \/ next_del(t)
      PROVE  DyingInv'
  <2>1. UNCHANGED <<dying, locked, fired>>
    BY <1>9 DEF check_signal, pypysig_poll, grab_actions, end_dispatch, next_del, firing, dels
  <2>2. loaded' = Nothing
    BY <1>2, <1>9 DEF check_signal, pypysig_poll, grab_actions, end_dispatch, next_del
  <2>3. ~Taking(cur)
    BY <1>5, <1>9 DEF check_signal, pypysig_poll, grab_actions, end_dispatch, next_del
  <2> QED
    BY <1>6, <2>1, <2>2, <2>3
<1>10. ASSUME NEW t \in Thread, frame_trace(t) \/ callback_returns(t) \/ callback_raises(t) \/ settrace(t)
       PROVE  DyingInv'
  <2>1. UNCHANGED <<dying, locked>>
    BY <1>10 DEF frame_trace, callback_returns, callback_raises, settrace, dels
  <2>2. loaded' = Nothing
    BY <1>2, <1>10 DEF frame_trace, callback_returns, callback_raises, settrace, NextAction
  <2>3. ~Taking(cur)
    BY <1>4, <1>5, <1>10 DEF frame_trace, callback_returns, callback_raises, settrace, NextAction
  <2>4. UNCHANGED fired \/ Fire("trace") \/ fired' = [fired EXCEPT !["trace"] = FALSE]
    BY <1>10 DEF frame_trace, callback_returns, callback_raises, settrace, firing
  <2>5. fired["del"] => fired'["del"]
    BY <2>4, FireDel DEF TypeOK, Action
  <2> QED
    BY <1>6, <2>1, <2>2, <2>3, <2>5
<1>11. ASSUME NEW t \in Thread, fire_store(t) \/ setcheckinterval(t) \/ \E s \in Sig : set_interrupt(t, s)
       PROVE  DyingInv'
  <2>1. UNCHANGED <<dying, locked, fired, cur, stack, loaded>>
    BY <1>11 DEF fire_store, setcheckinterval, set_interrupt, dels
  <2> QED
    BY <1>6, <2>1
<1>12. ASSUME NEW t \in Thread, user_del(t)
       PROVE  DyingInv'
  <2>1. stack[t] # <<>> /\ Top(t) \in Activation /\ Top(t).rest # <<>> /\ cur = t
    BY <1>1, <1>12, TopActivation DEF user_del, NextAction
  <2>2. loaded' = Nothing /\ UNCHANGED <<cur, dying, locked>>
    BY <1>2, <1>12 DEF user_del, NextAction, dels
  <2> DEFINE top == [Top(t) EXCEPT !.at = "taking", !.rest = Tail(@)]
  <2>3. top \in Activation /\ top.at = "taking"
    BY <2>1, Take DEF Activation
  <2>4. CASE locked
    BY <1>2, <2>2, <2>4 DEF DyingInv, DyingScheduled
  <2>5. CASE Move(t, top)
    <3>1. stack'[t] # <<>> /\ Top(t)' = top
      BY <1>1, <2>1, <2>3, <2>5, MoveStack, TopActivation DEF Top, StackOK
    <3> QED
      BY <1>2, <2>1, <2>2, <2>3, <3>1 DEF DyingInv, DyingScheduled, Taking
  <2> QED
    BY <1>12, <2>4, <2>5 DEF user_del
<1>13. ASSUME NEW t \in Thread, take_dying(t)
       PROVE  DyingInv'
  BY <1>2, <1>13 DEF take_dying, DyingInv, DyingScheduled
<1>14. ASSUME NEW t \in Thread, disable_finalizers(t)
       PROVE  DyingInv'
  BY <1>2, <1>14 DEF disable_finalizers, DyingInv, DyingScheduled
<1>15. ASSUME NEW t \in Thread, enable_finalizers(t)
       PROVE  DyingInv'
  <2>1. Fire("del") /\ loaded' = Nothing
    BY <1>2, <1>15 DEF enable_finalizers
  <2> QED
    BY <1>2, <2>1, FireDel DEF DyingInv, DyingScheduled, Action
<1>16. ASSUME NEW o \in Del, register_callback(o)
       PROVE  DyingInv'
  <2>1. FireAtOnce("del") /\ loaded' = Nothing
    BY <1>2, <1>16 DEF register_callback
  <2> QED
    BY <1>2, <2>1, FireDel DEF DyingInv, DyingScheduled, Action
<1>17. ASSUME NEW s \in Sig, pushback(s)
       PROVE  DyingInv'
  <2>1. UNCHANGED <<dying, locked, fired, cur, stack, loaded>>
    BY <1>17 DEF pushback, signal_setflag_handler, pushback_occurred, pushback_counter, Stage, dels
  <2> QED
    BY <1>6, <2>1
<1>18. ASSUME NEW t \in Thread, Switch(t)
       PROVE  DyingInv'
  <2>1. UNCHANGED <<dying, locked, fired>> /\ loaded' = Nothing
    BY <1>2, <1>18 DEF Switch, external_call, release_gil, dels
  <2>2. ~Taking(cur)
    BY <1>4, <1>5, <1>18 DEF Switch, external_call, release_gil
  <2> QED
    BY <1>6, <2>1, <2>2
<1> QED
  BY <1>7, <1>8, <1>9, <1>10, <1>11, <1>12, <1>13, <1>14, <1>15, <1>16, <1>17, <1>18
  DEF Next, Interpret, Program, Outside

(* An object that waits for its __del__ has the action that calls it fired *)
(* or about to take it, unless finalizers are disabled, and enabling them  *)
(* fires it.                                                               *)
THEOREM DyingNeverForgotten == Spec => []DyingScheduled
<1>1. Init => DyingInv
  BY DEF Init, DyingInv, DyingScheduled
<1>2. TypeOK /\ DyingInv /\ [Next]_vars => DyingInv'
  BY NextDying
<1>3. DyingInv => DyingScheduled
  BY DEF DyingInv
<1> QED
  BY <1>1, <1>2, <1>3, TypeCorrect, PTL DEF Spec

-----------------------------------------------------------------------------
(***************************************************************************)
(* Fired actions run before the next opcode, when handlers do not raise.   *)
(* Strengthened by what decrement_ticker has read.                         *)
(***************************************************************************)
Phase == {"poll", "scan", "handler", "gil", "grab"}

(* Some activation is at one of the places P.                              *)
Somewhere(P) == \E t \in Thread : \E k \in 1..Len(stack[t]) : stack[t][k].at \in P

SomePhase == Somewhere(Phase)

(* A thread is in decrement_ticker or in fire.                             *)
Single == loaded = Nothing \/ storing = <<>>

LEMMA NextSingle == ASSUME Single, [Next]_vars PROVE Single'
<1>1. Nothing' = Nothing
  BY DEF Nothing
<1> DEFINE Step == \/ UNCHANGED <<loaded, storing>>
                   \/ storing' = <<>>
                   \/ loaded' = Nothing
<1>2. Step
  <2>1. ASSUME NEW t \in Thread, Interpret(t)
        PROVE  Step
    BY <1>1, <2>1
    DEF Interpret, opcode, decrement_load, decrement_store, check_signal, pypysig_poll,
        grab_actions, end_dispatch, user_del, take_dying, next_del, frame_trace,
        callback_returns, firing, NextAction, At, Holds, Unticked
  <2>2. ASSUME NEW t \in Thread, Program(t) \/ Switch(t) \/ fire_store(t)
        PROVE  Step
    BY <1>1, <2>2
    DEF Program, Switch, settrace, setcheckinterval, disable_finalizers, enable_finalizers,
        after_exception, callback_raises, set_interrupt, external_call, release_gil,
        fire_store, firing, Unticked, At, Holds
  <2>3. CASE Outside \/ UNCHANGED vars
    BY <2>3
    DEF Outside, vars, pushback, signal_setflag_handler, pushback_occurred, pushback_counter,
        Stage, register_callback, FireAtOnce
  <2> QED
    BY <2>1, <2>2, <2>3 DEF Next
<1> QED
  BY <1>1, <1>2 DEF Single

LEMMA SingleAlways == Spec => []Single
<1>1. Init => Single
  BY DEF Init, Single
<1>2. Single /\ [Next]_vars => Single'
  BY NextSingle
<1> QED
  BY <1>1, <1>2, PTL DEF Spec

Armed == /\ QueueArmed
         /\ loaded # Nothing /\ queue # <<>> => loaded < 0 \/ SomePhase

(* An activation that moves to one of the places is there.                 *)
LEMMA MoveEnters ==
    ASSUME StackOK, NEW t \in Thread, stack[t] # <<>>, NEW P,
           NEW top \in Activation, Move(t, top), top.at \in P
    PROVE  Somewhere(P)'
BY MoveStack, TopActivation DEF Somewhere

(* An activation that was at none of them takes nobody away from them ...  *)
LEMMA MoveKeeps ==
    ASSUME StackOK, NEW t \in Thread, stack[t] # <<>>, NEW P,
           NEW top \in Activation, Move(t, top), Top(t).at \notin P
    PROVE  Somewhere(P) => Somewhere(P)'
BY MoveStack DEF Somewhere, Top

(* ... nor does one that ends.                                             *)
LEMMA PopKeeps ==
    ASSUME StackOK, NEW t \in Thread, stack[t] # <<>>, NEW P, Pop(t), Top(t).at \notin P
    PROVE  Somewhere(P) => Somewhere(P)'
<1>1. \A u \in Thread : \A k \in 1..Len(stack[u]) :
         stack[u][k].at \in P => k \in 1..Len(stack'[u])
  <2>1. Len(stack[t]) \in Nat /\ stack[t][Len(stack[t])].at \notin P
    BY DEF StackOK, Top
  <2>2. \A u \in Thread : Len(stack'[u]) = IF u = t THEN Len(stack[t]) - 1 ELSE Len(stack[u])
    BY PopStack
  <2> QED
    BY <2>1, <2>2
<1> QED
  BY <1>1, PopStack DEF Somewhere

(* A dispatcher begins by polling for signals.                             *)
LEMMA PushEnters ==
    ASSUME StackOK, NEW t \in Thread, BeginDispatch(t), NEW P, "poll" \in P
    PROVE  Somewhere(P)'
<1>1. Len(stack[t]) + 1 \in 1..Len(stack'[t])
  BY PushStack DEF StackOK
<1> QED
  BY <1>1, PushStack DEF Somewhere, Fresh

(* Every step keeps fired actions armed: fire sets the ticker, a reset of  *)
(* it comes with a dispatcher that will take the list.                     *)
LEMMA NextArmed ==
    ASSUME TypeOK, Single, Armed, "handler" \notin MayRaise, [Next]_vars
    PROVE  Armed'
<1> USE DEF Holds, At
<1>1. StackOK
  BY DEF TypeOK, StackOK
<1>2. SomePhase' => Armed'
  BY DEF Armed, SomePhase, Somewhere, QueueArmed, PeriodicPhase, Phase
<1>3. ASSUME ticker' = -1, loaded' = Nothing
      PROVE  Armed'
  BY <1>3 DEF Armed, QueueArmed, Nothing
<1>4. ASSUME UNCHANGED <<ticker, loaded, queue>>, SomePhase => SomePhase'
      PROVE  Armed'
  <2>1. Nothing' = Nothing
    BY DEF Nothing
  <2> QED
    BY <1>4, <2>1 DEF Armed, SomePhase, Somewhere, QueueArmed, PeriodicPhase, Phase
<1>5. stack' = stack => (SomePhase => SomePhase')
  BY DEF SomePhase, Somewhere
<1>7. CASE UNCHANGED vars
  BY <1>4, <1>5, <1>7 DEF vars
<1>8. ASSUME NEW t \in Thread, opcode(t) \/ after_exception(t)
      PROVE  Armed'
  BY <1>1, <1>2, <1>8, PushEnters DEF opcode, after_exception, SomePhase, Phase
<1>9. ASSUME NEW t \in Thread, decrement_load(t)
      PROVE  Armed'
  <2>1. stack' = stack /\ ticker' = ticker /\ queue' = queue /\ loaded' = ticker
    BY <1>9 DEF decrement_load, Unticked
  <2> QED
    BY <1>5, <2>1 DEF Armed, SomePhase, Somewhere, QueueArmed, PeriodicPhase, Phase
<1>10. ASSUME NEW t \in Thread, decrement_store(t)
       PROVE  Armed'
  <2>1. CASE BeginDispatch(t)
    BY <1>1, <1>2, <2>1, PushEnters DEF SomePhase, Phase
  <2>2. CASE loaded - 1 >= 0 /\ UNCHANGED stack
    <3>1. queue' = queue /\ loaded # Nothing /\ loaded' = Nothing
      BY <1>10 DEF decrement_store, Unticked
    <3>2. queue # <<>> => SomePhase
      BY <2>2, <3>1 DEF Armed, TypeOK
    <3>3. Nothing' = Nothing
      BY DEF Nothing
    <3> QED
      BY <1>5, <2>2, <3>1, <3>2, <3>3 DEF Armed, SomePhase, Somewhere, QueueArmed, PeriodicPhase, Phase
  <2> QED
    BY <1>10, <2>1, <2>2 DEF decrement_store
<1>11. ASSUME NEW t \in Thread, check_signal(t) \/ pypysig_poll(t)
       PROVE  Armed'
  <2>1. stack[t] # <<>> /\ \E top \in Activation : Move(t, top) /\ top.at \in Phase
    BY <1>11, PollMoves DEF Phase
  <2> QED
    BY <1>1, <1>2, <2>1, MoveEnters DEF SomePhase
<1>12. ASSUME NEW t \in Thread, Switch(t)
       PROVE  Armed'
  <2>1. ASSUME NEW u \in Thread, external_call(u, t)
        PROVE  Armed'
    BY <1>3, <1>4, <1>5, <2>1 DEF external_call, AfterSwitch
  <2>2. ASSUME NEW u \in Thread, release_gil(u, t)
        PROVE  Armed'
    <3>1. stack[u] # <<>> /\ Top(u) \in Activation
      BY <1>1, <2>2, TopActivation DEF release_gil
    <3>2. [Top(u) EXCEPT !.at = "grab", !.what = None] \in Activation /\ [Top(u) EXCEPT !.at = "grab", !.what = None].at \in Phase
      BY <3>1 DEF Activation, Phase
    <3> QED
      BY <1>1, <1>2, <2>2, <3>1, <3>2, MoveEnters DEF release_gil, Goto, SomePhase
  <2> QED
    BY <1>12, <2>1, <2>2 DEF Switch
<1>13. ASSUME NEW t \in Thread, grab_actions(t)
       PROVE  Armed'
  BY <1>13 DEF grab_actions, Armed, QueueArmed
<1>14. ASSUME NEW t \in Thread, stack[t] # <<>>, Top(t).at \notin Phase,
              Pop(t) \/ \E top \in Activation : Move(t, top)
       PROVE  SomePhase => SomePhase'
  BY <1>1, <1>14, PopKeeps, MoveKeeps DEF SomePhase
<1>15. ASSUME NEW t \in Thread, end_dispatch(t) \/ user_del(t) \/ take_dying(t) \/ next_del(t)
       PROVE  Armed'
  <2>1. stack[t] # <<>> /\ Top(t) \in Activation /\ Top(t).at \notin Phase
    BY <1>1, <1>15, TopActivation DEF end_dispatch, user_del, take_dying, next_del, NextAction, Phase
  <2>2. Top(t).rest # <<>> =>
           /\ [Top(t) EXCEPT !.rest = Tail(@)] \in Activation
           /\ [Top(t) EXCEPT !.at = "taking", !.rest = Tail(@)] \in Activation
    BY <2>1, Take DEF Activation
  <2>3. /\ [Top(t) EXCEPT !.at = "actions", !.what = None] \in Activation
        /\ [Top(t) EXCEPT !.at = "dels", !.todo = dying] \in Activation
        /\ Top(t).todo # <<>> =>
              [Top(t) EXCEPT !.at = "del", !.what = Head(Top(t).todo), !.todo = Tail(@)] \in Activation
    BY <2>1, Take DEF Activation, TypeOK
  <2>4. Pop(t) \/ \E top \in Activation : Move(t, top)
    BY <1>15, <2>2, <2>3 DEF end_dispatch, user_del, take_dying, next_del, NextAction, Goto
  <2>5. UNCHANGED <<ticker, loaded, queue>>
    BY <1>15 DEF end_dispatch, user_del, take_dying, next_del, firing
  <2> QED
    BY <1>4, <1>14, <2>1, <2>4, <2>5
<1>16. ASSUME NEW t \in Thread, frame_trace(t)
       PROVE  Armed'
  <2>1. stack[t] # <<>> /\ Top(t) \in Activation /\ Top(t).at \notin Phase /\ Top(t).rest # <<>>
    BY <1>1, <1>16, TopActivation DEF frame_trace, NextAction, Phase
  <2>2. /\ [Top(t) EXCEPT !.rest = Tail(@)] \in Activation
        /\ [[Top(t) EXCEPT !.rest = Tail(@)] EXCEPT !.at = "trace"] \in Activation
    BY <2>1, Take DEF Activation
  <2>3. \E top \in Activation : Move(t, top)
    BY <1>16, <2>2 DEF frame_trace
  <2>4. SomePhase => SomePhase'
    BY <1>14, <2>1, <2>3
  <2>5. UNCHANGED <<ticker, loaded, queue>>
    BY <1>16 DEF frame_trace
  <2> QED
    BY <1>4, <2>4, <2>5
<1>17. ASSUME NEW t \in Thread, callback_returns(t)
       PROVE  Armed'
  <2>1. stack[t] # <<>> /\ Top(t) \in Activation
    BY <1>1, <1>17, TopActivation DEF callback_returns
  <2>2. \A where \in {"poll", "dels", "actions"} : /\ [Top(t) EXCEPT !.at = where, !.what = None] \in Activation
                                                  /\ [Top(t) EXCEPT !.at = where, !.what = None].at = where
    BY <2>1 DEF Activation
  <2>3. CASE At(t, "handler") /\ Goto(t, "poll")
    BY <1>1, <1>2, <2>1, <2>2, <2>3, MoveEnters DEF Goto, Phase, SomePhase
  <2>4. CASE At(t, "del") /\ Goto(t, "dels") /\ UNCHANGED <<loaded, firing>>
    BY <1>4, <1>14, <2>1, <2>2, <2>4 DEF Goto, Phase, firing
  <2>5. CASE At(t, "trace") /\ Goto(t, "actions") /\ UNCHANGED <<ticker, loaded, queue>>
    BY <1>4, <1>14, <2>1, <2>2, <2>5 DEF Goto, Phase
  <2> QED
    BY <1>17, <2>3, <2>4, <2>5 DEF callback_returns
<1>18. ASSUME NEW t \in Thread, callback_raises(t)
       PROVE  Armed'
  <2>1. At(t, "trace") /\ Pop(t) /\ UNCHANGED <<ticker, loaded, queue>>
    BY <1>18 DEF callback_raises
  <2> QED
    BY <1>4, <1>14, <2>1 DEF Phase
<1>19. ASSUME NEW t \in Thread, settrace(t) \/ enable_finalizers(t)
       PROVE  Armed'
  BY <1>4, <1>5, <1>19 DEF settrace, enable_finalizers
<1>6. ASSUME NEW t \in Thread, fire_store(t)
      PROVE  Armed'
  BY <1>3, <1>6 DEF fire_store, Single, Nothing
<1>20. ASSUME NEW o \in Del, register_callback(o)
       PROVE  Armed'
  BY <1>3, <1>4, <1>5, <1>20 DEF register_callback, FireAtOnce, Nothing
<1>21. ASSUME NEW t \in Thread, setcheckinterval(t) \/ \E s \in Sig : set_interrupt(t, s)
       PROVE  Armed'
  BY <1>3, <1>21 DEF setcheckinterval, set_interrupt
<1>22. ASSUME NEW t \in Thread, disable_finalizers(t)
       PROVE  Armed'
  BY <1>4, <1>5, <1>22 DEF disable_finalizers, firing
<1>23. ASSUME NEW s \in Sig, pushback(s)
       PROVE  Armed'
  <2>1. /\ ticker' = -1 \/ ticker' = ticker
        /\ UNCHANGED <<stack, loaded, queue>>
    BY <1>23 DEF pushback, signal_setflag_handler, pushback_occurred, pushback_counter, Stage
  <2>2. Nothing' = Nothing
    BY DEF Nothing
  <2> QED
    BY <1>5, <2>1, <2>2 DEF Armed, SomePhase, Somewhere, QueueArmed, PeriodicPhase, Phase
<1> QED
  BY <1>6, <1>7, <1>8, <1>9, <1>10, <1>11, <1>12, <1>13, <1>15, <1>16, <1>17, <1>18, <1>19, <1>20,
     <1>21, <1>22, <1>23
  DEF Next, Interpret, Program, Outside

(* "Request for the action to be run before the next opcode": kept when no *)
(* signal handler raises.                                                  *)
THEOREM FiredActionsArmed == "handler" \notin MayRaise /\ Spec => []QueueArmed
<1>1. Init => Armed
  BY DEF Init, Armed, QueueArmed
<1>2. "handler" \notin MayRaise /\ TypeOK /\ Single /\ Armed /\ [Next]_vars => Armed'
  BY NextArmed
<1>3. Armed => QueueArmed
  BY DEF Armed
<1>4. SUFFICES ASSUME "handler" \notin MayRaise
               PROVE  Spec => []QueueArmed
  OBVIOUS
<1>5. TypeOK /\ Single /\ Armed /\ [Next]_vars => Armed'
  BY <1>2, <1>4
<1> QED
  BY <1>1, <1>3, <1>5, TypeCorrect, SingleAlways, PTL DEF Spec

-----------------------------------------------------------------------------
(***************************************************************************)
(* Signals stay armed.  Strengthened by who is about to look at a signal   *)
(* that was put aside: only the holder of the GIL can be polling, a        *)
(* handler that is running will not see it if it raises; and by what       *)
(* decrement_ticker has read.                                              *)
(***************************************************************************)
Poll == {"poll", "handler"}

AtPoll == stack[cur] # <<>> /\ Top(cur).at = "poll"

(* A loop over the flags has still to look at s.                           *)
Seen(s) == \E t \in Thread : WillSee(t, s)

Flagged == \A s \in sigflags :
    /\ pushing[s] # "flagged" => occurred \/ Seen(s)
    /\ pushing[s] = "idle" => HasCounter \/ ticker < 0 \/ Seen(s) \/ Somewhere(Poll)

Aside == pending # None => \/ fireInMain
                           \/ AtPoll
                           \/ ticker < 0 /\ (loaded = Nothing \/ loaded < 0)

Counted == HasCounter \/ loaded = Nothing

(* Only decrement_ticker is ever between a read and a write.               *)
LEMMA NextCounted == ASSUME Counted, [Next]_vars PROVE Counted'
<1>1. Nothing' = Nothing
  BY DEF Nothing
<1>2. UNCHANGED loaded \/ loaded' = Nothing \/ HasCounter
  BY DEF Next, Interpret, Program, Switch, Outside, vars, opcode, decrement_load, decrement_store,
         check_signal, pypysig_poll, grab_actions, end_dispatch, user_del, take_dying, next_del, frame_trace,
         callback_returns, settrace, setcheckinterval, disable_finalizers, enable_finalizers,
         after_exception, callback_raises, set_interrupt, external_call, release_gil, fire_store,
         pushback, signal_setflag_handler, pushback_occurred, pushback_counter, Stage,
         register_callback, NextAction
<1> QED
  BY <1>1, <1>2 DEF Counted

(* The two parts say what SignalArmed does.                                *)
LEMMA SignalParts == ASSUME TypeOK, Flagged, Aside PROVE SignalArmed
<1>1. Somewhere(Poll) <=> \E t \in Thread : Polling(t)
  BY DEF Somewhere, Poll, Polling
<1>2. AtPoll => Somewhere(Poll)
  BY TopActivation DEF AtPoll, TypeOK, StackOK, Top, Somewhere, Poll
<1> QED
  BY <1>1, <1>2 DEF Flagged, Seen, Aside, SignalArmed

(* A dispatcher that has just begun polls, and its thread holds the GIL.   *)
LEMMA PushPolls ==
    ASSUME StackOK, cur \in Thread, BeginDispatch(cur), cur' = cur
    PROVE  AtPoll'
<1>1. Len(stack'[cur]) = Len(stack[cur]) + 1 /\ stack'[cur][Len(stack[cur]) + 1] = Fresh
  BY PushStack
<1>2. stack'[cur] # <<>>
  BY <1>1 DEF StackOK
<1> QED
  BY <1>1, <1>2 DEF AtPoll, Top, Fresh

(* Most steps leave a signal that was put aside alone: they are not those  *)
(* of a polling thread, and write to the ticker only to arm it.            *)
LEMMA AsideKept ==
    ASSUME Aside, UNCHANGED <<pending, loaded>>,
           fireInMain' = fireInMain \/ fireInMain',
           ticker' = ticker \/ ticker' = -1,
           ~AtPoll \/ UNCHANGED <<cur, stack>>
    PROVE  Aside'
<1>1. None' = None /\ Nothing' = Nothing
  BY DEF None, Nothing
<1>2. UNCHANGED <<cur, stack>> => AtPoll' = AtPoll
  BY DEF AtPoll, Top
<1>3. ticker < 0 => ticker' < 0
  OBVIOUS
<1> QED
  BY <1>1, <1>2, <1>3 DEF Aside

(* A switch to the main thread arms the ticker when it forgets the flag.   *)
LEMMA AsideSwitched ==
    ASSUME Aside, UNCHANGED <<pending, loaded>>, loaded = Nothing, ~AtPoll,
           NEW u, AfterSwitch(u) \/ UNCHANGED <<fireInMain, ticker>>
    PROVE  Aside'
<1>1. None' = None /\ Nothing' = Nothing
  BY DEF None, Nothing
<1>2. CASE ticker' = -1
  BY <1>1, <1>2 DEF Aside
<1>3. CASE UNCHANGED <<fireInMain, ticker>>
  BY <1>1, <1>3 DEF Aside
<1> QED
  BY <1>2, <1>3 DEF AfterSwitch

(* Every step keeps a signal that was put aside in somebody's sight.       *)
LEMMA NextAside ==
    ASSUME TypeOK, Aside, [Next]_vars
    PROVE  Aside'
<1> USE DEF Holds, At
<1>1. StackOK /\ cur \in Thread
  BY DEF TypeOK, StackOK
<1>2. AtPoll' => Aside'
  BY DEF Aside
<1>3. ASSUME NEW t \in Thread, cur = t, InProgram(t)
      PROVE  ~AtPoll
  BY <1>3 DEF InProgram, AtPoll
<1>4. CASE UNCHANGED vars
  BY <1>4, AsideKept DEF vars
<1>5. ASSUME NEW t \in Thread, opcode(t) \/ after_exception(t)
      PROVE  Aside'
  BY <1>1, <1>2, <1>5, PushPolls DEF opcode, after_exception, Unticked
<1>6. ASSUME NEW t \in Thread, decrement_load(t)
      PROVE  Aside'
  <2>1. loaded = Nothing /\ loaded' = ticker /\ ~AtPoll
    BY <1>3, <1>6 DEF decrement_load
  <2>2. UNCHANGED <<pending, fireInMain, ticker>> /\ None' = None
    BY <1>6 DEF decrement_load, Unticked, flags, signals, None
  <2> QED
    BY <2>1, <2>2 DEF Aside
<1>7. ASSUME NEW t \in Thread, decrement_store(t)
      PROVE  Aside'
  <2>1. CASE BeginDispatch(t)
    BY <1>1, <1>2, <1>7, <2>1, PushPolls DEF decrement_store, Unticked
  <2>2. CASE loaded - 1 >= 0 /\ UNCHANGED stack
    <3>1. loaded # Nothing /\ ~(loaded < 0)
      BY <1>7, <2>2 DEF decrement_store, TypeOK
    <3>2. UNCHANGED <<pending, fireInMain, cur>> /\ None' = None
      BY <1>7 DEF decrement_store, Unticked, flags, signals, None
    <3>3. AtPoll' = AtPoll
      BY <2>2, <3>2 DEF AtPoll, Top
    <3> QED
      BY <3>1, <3>2, <3>3 DEF Aside
  <2> QED
    BY <1>7, <2>1, <2>2 DEF decrement_store
<1>8. ASSUME NEW t \in Thread, check_signal(t)
      PROVE  Aside'
  <2>1. None' = None
    BY DEF None
  <2>2. CASE pending # None /\ Handle(t, pending)
    BY <2>1, <2>2 DEF Handle, Aside
  <2>3. CASE pending = None /\ UNCHANGED pending
    BY <2>1, <2>3 DEF Aside
  <2> QED
    BY <1>8, <2>2, <2>3 DEF check_signal, Handle
<1>18. ASSUME NEW t \in Thread, pypysig_poll(t)
       PROVE  Aside'
  <2>1. None' = None /\ None \notin Sig
    BY ActionConstants DEF None
  <2>2. ~AtPoll /\ UNCHANGED <<loaded, ticker>>
    BY <1>18 DEF pypysig_poll, AtPoll, firing
  <2>3. CASE UNCHANGED <<pending, fireInMain>>
    BY <2>2, <2>3, AsideKept
  <2>4. ASSUME NEW i \in Sig, Handle(t, i)
        PROVE  Aside'
    BY <2>1, <2>4 DEF Handle, Aside
  <2> QED
    BY <1>18, <2>3, <2>4 DEF pypysig_poll, Ahead, Handle
<1>9. ASSUME NEW t \in Thread, Switch(t)
      PROVE  Aside'
  <2>1. ASSUME NEW u \in Thread, external_call(u, t)
        PROVE  Aside'
    BY <1>3, <2>1, AsideSwitched DEF external_call
  <2>2. ASSUME NEW u \in Thread, release_gil(u, t)
        PROVE  Aside'
    BY <2>2, AsideSwitched DEF release_gil, AtPoll
  <2> QED
    BY <1>9, <2>1, <2>2 DEF Switch
<1>10. ASSUME NEW t \in Thread, \E where \in {"handler", "grab", "actions", "taking", "dels", "del", "trace"} : At(t, where),
              UNCHANGED <<loaded, signals>>, ticker' = ticker \/ ticker' = -1
       PROVE  Aside'
  BY <1>10, AsideKept DEF flags, signals, AtPoll
<1>12. ASSUME NEW t \in Thread, \/ grab_actions(t) \/ end_dispatch(t) \/ user_del(t)
                               \/ take_dying(t) \/ next_del(t) \/ frame_trace(t)
       PROVE  Aside'
  BY <1>10, <1>12 DEF grab_actions, end_dispatch, user_del, take_dying, next_del, frame_trace, NextAction, firing
<1>13. ASSUME NEW t \in Thread, callback_returns(t) \/ callback_raises(t)
       PROVE  Aside'
  BY <1>10, <1>13 DEF callback_returns, callback_raises, firing
<1>14. ASSUME NEW t \in Thread, \/ settrace(t) \/ setcheckinterval(t)
                               \/ disable_finalizers(t) \/ enable_finalizers(t)
                               \/ fire_store(t)
       PROVE  Aside'
  BY <1>14, AsideKept
  DEF settrace, setcheckinterval, fire_store, disable_finalizers, enable_finalizers, firing, flags, signals
<1>15. ASSUME NEW t \in Thread, NEW s \in Sig, set_interrupt(t, s)
       PROVE  Aside'
  BY <1>15, AsideKept DEF set_interrupt
<1>16. ASSUME NEW s \in Sig, pushback(s)
       PROVE  Aside'
  BY <1>16, AsideKept
  DEF pushback, signal_setflag_handler, pushback_occurred, pushback_counter, Stage
<1>17. ASSUME NEW o \in Del, register_callback(o)
       PROVE  Aside'
  BY <1>17, AsideKept DEF register_callback, FireAtOnce, flags, signals
<1> QED
  BY <1>4, <1>5, <1>6, <1>7, <1>8, <1>9, <1>12, <1>13, <1>14, <1>15, <1>16, <1>17, <1>18
  DEF Next, Interpret, Program, Outside

(* A loop over the flags goes on to see what it has not looked at, when    *)
(* the innermost activation is another ...                                 *)
LEMMA SeenMove ==
    ASSUME StackOK, NEW t \in Thread, stack[t] # <<>>,
           NEW top \in Activation, Move(t, top), NEW s,
           Top(t).at = "scan" /\ s > Top(t).what => top.at = "scan" /\ s > top.what
    PROVE  Seen(s) => Seen(s)'
BY MoveStack DEF Seen, WillSee, Top

(* ... when that ends ...                                                  *)
LEMMA SeenPop ==
    ASSUME StackOK, NEW t \in Thread, stack[t] # <<>>, Pop(t), Top(t).at # "scan", NEW s
    PROVE  Seen(s) => Seen(s)'
<1>1. \A u \in Thread : \A k \in 1..Len(stack[u]) :
         stack[u][k].at = "scan" => k \in 1..Len(stack'[u])
  <2>1. Len(stack[t]) \in Nat /\ stack[t][Len(stack[t])].at # "scan"
    BY DEF StackOK, Top
  <2>2. \A u \in Thread : Len(stack'[u]) = IF u = t THEN Len(stack[t]) - 1 ELSE Len(stack[u])
    BY PopStack
  <2> QED
    BY <2>1, <2>2
<1> QED
  BY <1>1, PopStack DEF Seen, WillSee

(* ... and when a dispatcher begins.                                       *)
LEMMA SeenPush ==
    ASSUME StackOK, NEW t \in Thread, BeginDispatch(t), NEW s
    PROVE  Seen(s) => Seen(s)'
<1>1. \A u \in Thread : \A k \in 1..Len(stack[u]) : k \in 1..Len(stack'[u])
  <2>1. \A u \in Thread : Len(stack[u]) \in Nat
    BY DEF StackOK
  <2>2. \A u \in Thread : Len(stack'[u]) = Len(stack[u]) \/ Len(stack'[u]) = Len(stack[u]) + 1
    BY PushStack
  <2> QED
    BY <2>1, <2>2
<1> QED
  BY <1>1, PushStack DEF Seen, WillSee

(* A loop over the flags begins before the first of them.                  *)
LEMMA SeenAll ==
    ASSUME StackOK, NEW t \in Thread, stack[t] # <<>>,
           Move(t, [Top(t) EXCEPT !.at = "scan", !.what = None]), NEW s \in Sig
    PROVE  Seen(s)'
<1>1. Top(t) \in Activation /\ Len(stack[t]) \in 1..Len(stack[t])
  BY TopActivation
<1>2. /\ [Top(t) EXCEPT !.at = "scan", !.what = None] \in Activation
      /\ [Top(t) EXCEPT !.at = "scan", !.what = None].at = "scan"
      /\ [Top(t) EXCEPT !.at = "scan", !.what = None].what = None
  BY <1>1 DEF Activation
<1>3. s > None
  BY ActionConstants DEF None
<1>4. Len(stack'[t]) = Len(stack[t])
      /\ stack'[t][Len(stack[t])] = [Top(t) EXCEPT !.at = "scan", !.what = None]
  BY <1>1, <1>2, MoveStack
<1> QED
  <2>2. LET k == Len(stack[t])
        IN  k \in 1..Len(stack'[t]) /\ stack'[t][k].at = "scan" /\ s > stack'[t][k].what
    BY <1>1, <1>2, <1>3, <1>4
  <2>1. WillSee(t, s)'
    BY <2>2 DEF WillSee
  <2> QED
    BY <2>1 DEF Seen

(* Every step keeps a flagged signal armed: without a counter a ticker     *)
(* that was set stays set until a dispatcher begins, and the dispatcher    *)
(* ends its loop over signals only when a scan of the flags that began     *)
(* after `occurred` was cleared has found none.                            *)
LEMMA NextFlagged ==
    ASSUME TypeOK, Counted, Flagged, HasCounter \/ "handler" \notin MayRaise, [Next]_vars
    PROVE  Flagged'
<1> USE DEF Holds, At
<1>1. StackOK
  BY DEF TypeOK, StackOK
<1>2. ASSUME UNCHANGED flags, \A s \in Sig : Seen(s) => Seen(s)',
             \/ HasCounter \/ ticker' < 0 \/ Somewhere(Poll)'
             \/ UNCHANGED ticker /\ (Somewhere(Poll) => Somewhere(Poll)')
      PROVE  Flagged'
  <2>1. sigflags \subseteq Sig
    BY DEF TypeOK
  <2> QED
    BY <1>2, <2>1 DEF Flagged, flags
<1>3. stack' = stack => /\ Somewhere(Poll) => Somewhere(Poll)'
                        /\ \A s \in Sig : Seen(s) => Seen(s)'
  BY DEF Somewhere, Seen, WillSee
<1>4. CASE UNCHANGED vars
  BY <1>2, <1>3, <1>4 DEF vars, flags
<1>5. ASSUME NEW t \in Thread, opcode(t) \/ after_exception(t)
      PROVE  Flagged'
  <2>1. BeginDispatch(t) /\ UNCHANGED flags
    BY <1>5 DEF opcode, after_exception, Unticked, flags, signals
  <2> QED
    BY <1>1, <1>2, <2>1, PushEnters, SeenPush DEF Poll
<1>6. ASSUME NEW t \in Thread, decrement_load(t) \/ decrement_store(t)
      PROVE  Flagged'
  <2>1. HasCounter /\ UNCHANGED flags /\ (stack' = stack \/ BeginDispatch(t))
    BY <1>6 DEF decrement_load, decrement_store, Counted, Unticked, flags, signals
  <2> QED
    BY <1>1, <1>2, <1>3, <2>1, SeenPush
<1>7. ASSUME NEW t \in Thread, check_signal(t)
      PROVE  Flagged'
  <2>1. stack[t] # <<>> /\ Top(t) \in Activation /\ Top(t).at = "poll"
    BY <1>1, <1>7, TopActivation DEF check_signal
  <2>2. UNCHANGED <<sigflags, pushing, ticker>> /\ sigflags \subseteq Sig
    BY <1>7 DEF check_signal, firing, TypeOK
  <2>3. ASSUME NEW top \in Activation, Move(t, top), NEW s
        PROVE  Seen(s) => Seen(s)'
    BY <1>1, <2>1, <2>3, SeenMove
  <2>4. CASE pending # None /\ Handle(t, pending) /\ UNCHANGED occurred
    <3>1. PICK top \in Activation : Move(t, top) /\ (t = Main => top.at = "handler")
      BY <2>1, <2>4, HandleMoves DEF TypeOK
    <3>2. HasCounter \/ t = Main
      BY ActionConstants
    <3>3. HasCounter \/ Somewhere(Poll)'
      BY <1>1, <2>1, <3>1, <3>2, MoveEnters DEF Poll
    <3> QED
      BY <1>2, <2>2, <2>3, <2>4, <3>1, <3>3 DEF flags
  <2>5. CASE ~occurred /\ Handle(t, None) /\ UNCHANGED occurred
    <3>1. PICK top \in Activation : Move(t, top)
      BY <2>1, <2>5, HandleMoves
    <3> QED
      BY <2>2, <2>3, <2>5, <3>1 DEF Flagged
  <2>6. CASE Move(t, [Top(t) EXCEPT !.at = "scan", !.what = None])
    <3>1. \A s \in Sig : Seen(s)'
      BY <1>1, <2>1, <2>6, SeenAll
    <3> QED
      BY <2>2, <3>1 DEF Flagged
  <2> QED
    BY <1>7, <2>4, <2>5, <2>6 DEF check_signal
<1>18. ASSUME NEW t \in Thread, pypysig_poll(t)
       PROVE  Flagged'
  <2>1. stack[t] # <<>> /\ Top(t) \in Activation /\ Top(t).at = "scan"
    BY <1>1, <1>18, TopActivation DEF pypysig_poll
  <2>2. UNCHANGED <<pushing, ticker>> /\ sigflags \subseteq Sig
    BY <1>18 DEF pypysig_poll, firing, TypeOK
  <2>3. ASSUME NEW top \in Activation, Move(t, top)
        PROVE  Somewhere(Poll) => Somewhere(Poll)'
    BY <1>1, <2>1, <2>3, MoveKeeps DEF Poll
  <2>4. CASE Ahead(t) = {} /\ Handle(t, None) /\ UNCHANGED <<sigflags, occurred>>
    <3>1. PICK top \in Activation : Move(t, top)
      BY <2>1, <2>4, HandleMoves
    <3>2. \A s \in Sig : Seen(s) => Seen(s)'
      BY <1>1, <2>1, <2>4, <3>1, SeenMove DEF Ahead
    <3> QED
      BY <1>2, <2>2, <2>3, <2>4, <3>1, <3>2 DEF flags
  <2>5. ASSUME NEW i \in Ahead(t), \A j \in Ahead(t) : i <= j, i \notin sigflags,
               Move(t, [Top(t) EXCEPT !.what = i]), UNCHANGED <<sigflags, occurred>>
        PROVE  Flagged'
    <3>1. /\ [Top(t) EXCEPT !.what = i] \in Activation
          /\ [Top(t) EXCEPT !.what = i].at = "scan"
          /\ [Top(t) EXCEPT !.what = i].what = i
      BY <2>1 DEF Activation, Ahead
    <3>2. \A s \in sigflags : s > Top(t).what => s > i
      BY <2>2, <2>5, ActionConstants DEF Ahead
    <3>3. \A s \in sigflags : Seen(s) => Seen(s)'
      BY <1>1, <2>1, <2>5, <3>1, <3>2, SeenMove
    <3>4. Somewhere(Poll) => Somewhere(Poll)'
      BY <2>3, <2>5, <3>1
    <3> QED
      BY <2>2, <2>5, <3>3, <3>4 DEF Flagged
  <2>6. ASSUME NEW i \in Ahead(t), sigflags' = sigflags \ {i}, occurred' = TRUE, Handle(t, i)
        PROVE  Flagged'
    <3>1. i \in Sig /\ i # None
      BY ActionConstants DEF Ahead, None
    <3>2. PICK top \in Activation : Move(t, top) /\ (t = Main => top.at = "handler")
      BY <2>1, <2>6, <3>1, HandleMoves
    <3>3. HasCounter \/ t = Main
      BY ActionConstants
    <3>4. HasCounter \/ Somewhere(Poll)'
      BY <1>1, <2>1, <3>2, <3>3, MoveEnters DEF Poll
    <3> QED
      BY <2>2, <2>6, <3>4 DEF Flagged
  <2> QED
    BY <1>18, <2>4, <2>5, <2>6 DEF pypysig_poll
<1>8. ASSUME NEW t \in Thread, stack[t] # <<>>, Top(t).at \notin Poll \cup {"scan"},
             Pop(t) \/ \E top \in Activation : Move(t, top),
             UNCHANGED flags, ticker' = ticker \/ ticker' = -1
      PROVE  Flagged'
  <2>1. Somewhere(Poll) => Somewhere(Poll)'
    BY <1>1, <1>8, PopKeeps, MoveKeeps
  <2>2. \A s \in Sig : Seen(s) => Seen(s)'
    BY <1>1, <1>8, SeenPop, SeenMove
  <2> QED
    BY <1>2, <1>8, <2>1, <2>2
<1>9. ASSUME NEW t \in Thread, Switch(t)
      PROVE  Flagged'
  <2>1. ASSUME NEW u \in Thread, external_call(u, t)
        PROVE  Flagged'
    BY <1>2, <1>3, <2>1 DEF external_call, AfterSwitch
  <2>2. ASSUME NEW u \in Thread, release_gil(u, t)
        PROVE  Flagged'
    <3>1. stack[u] # <<>> /\ Top(u) \in Activation /\ Top(u).at \notin Poll \cup {"scan"}
      BY <1>1, <2>2, TopActivation DEF release_gil, Poll
    <3>2. [Top(u) EXCEPT !.at = "grab", !.what = None] \in Activation
      BY <3>1 DEF Activation
    <3>3. ticker' = ticker \/ ticker' = -1
      BY <2>2 DEF release_gil, AfterSwitch
    <3> QED
      BY <1>8, <2>2, <3>1, <3>2, <3>3 DEF release_gil, Goto
  <2> QED
    BY <1>9, <2>1, <2>2 DEF Switch
<1>11. ASSUME NEW t \in Thread, \/ grab_actions(t) \/ end_dispatch(t) \/ user_del(t)
                               \/ take_dying(t) \/ next_del(t)
       PROVE  Flagged'
  <2>1. stack[t] # <<>> /\ Top(t) \in Activation /\ Top(t).at \notin Poll \cup {"scan"}
    BY <1>1, <1>11, TopActivation DEF grab_actions, end_dispatch, user_del, take_dying, next_del, NextAction, Poll
  <2>2. Top(t).rest # <<>> =>
           /\ [Top(t) EXCEPT !.rest = Tail(@)] \in Activation
           /\ [Top(t) EXCEPT !.at = "taking", !.rest = Tail(@)] \in Activation
    BY <2>1, Take DEF Activation
  <2>3. /\ [Top(t) EXCEPT !.at = "actions", !.what = None] \in Activation
        /\ [Top(t) EXCEPT !.at = "actions", !.rest = queue] \in Activation
        /\ [Top(t) EXCEPT !.at = "dels", !.todo = dying] \in Activation
        /\ Top(t).todo # <<>> =>
              [Top(t) EXCEPT !.at = "del", !.what = Head(Top(t).todo), !.todo = Tail(@)] \in Activation
    BY <2>1, Take DEF Activation, TypeOK
  <2>4. Pop(t) \/ \E top \in Activation : Move(t, top)
    BY <1>11, <2>2, <2>3 DEF grab_actions, end_dispatch, user_del, take_dying, next_del, NextAction, Goto
  <2>5. UNCHANGED <<ticker, flags>>
    BY <1>11 DEF grab_actions, end_dispatch, user_del, take_dying, next_del, firing, flags, signals
  <2> QED
    BY <1>8, <2>1, <2>4, <2>5
<1>12. ASSUME NEW t \in Thread, frame_trace(t)
       PROVE  Flagged'
  <2>1. stack[t] # <<>> /\ Top(t) \in Activation /\ Top(t).at \notin Poll \cup {"scan"} /\ Top(t).rest # <<>>
    BY <1>1, <1>12, TopActivation DEF frame_trace, NextAction, Poll
  <2>2. /\ [Top(t) EXCEPT !.rest = Tail(@)] \in Activation
        /\ [[Top(t) EXCEPT !.rest = Tail(@)] EXCEPT !.at = "trace"] \in Activation
    BY <2>1, Take DEF Activation
  <2>3. \E top \in Activation : Move(t, top)
    BY <1>12, <2>2 DEF frame_trace
  <2>4. UNCHANGED flags /\ (ticker' = ticker \/ ticker' = -1)
    BY <1>12 DEF frame_trace, flags, signals
  <2> QED
    BY <1>8, <2>1, <2>3, <2>4
<1>13. ASSUME NEW t \in Thread, callback_returns(t)
       PROVE  Flagged'
  <2>1. stack[t] # <<>> /\ Top(t) \in Activation
    BY <1>1, <1>13, TopActivation DEF callback_returns
  <2>2. \A where \in {"poll", "dels", "actions"} : /\ [Top(t) EXCEPT !.at = where, !.what = None] \in Activation
                                                  /\ [Top(t) EXCEPT !.at = where, !.what = None].at = where
    BY <2>1 DEF Activation
  <2>3. UNCHANGED flags /\ (ticker' = ticker \/ ticker' = -1)
    BY <1>13 DEF callback_returns, firing, flags, signals
  <2>4. CASE At(t, "handler") /\ Goto(t, "poll")
    <3>1. Somewhere(Poll)'
      BY <1>1, <2>1, <2>2, <2>4, MoveEnters DEF Goto, Poll
    <3>2. \A s \in Sig : Seen(s) => Seen(s)'
      BY <1>1, <2>1, <2>2, <2>4, SeenMove DEF Goto
    <3> QED
      BY <1>2, <2>3, <3>1, <3>2
  <2>5. CASE Top(t).at \notin Poll \cup {"scan"} /\ \E where \in {"dels", "actions"} : Goto(t, where)
    BY <1>8, <2>1, <2>2, <2>3, <2>5 DEF Goto
  <2> QED
    BY <1>13, <2>4, <2>5 DEF callback_returns, Poll
<1>14. ASSUME NEW t \in Thread, callback_raises(t)
       PROVE  Flagged'
  <2>1. UNCHANGED flags /\ (ticker' = ticker \/ ticker' = -1)
    BY <1>14 DEF callback_raises, firing, flags, signals
  <2>2. CASE HasCounter
    <3>1. \A s \in Sig : Seen(s) => Seen(s)'
      BY <1>1, <1>14, SeenPop DEF callback_raises
    <3> QED
      BY <1>2, <2>1, <2>2, <3>1
  <2>3. CASE "handler" \notin MayRaise
    BY <1>8, <1>14, <2>1, <2>3 DEF callback_raises, Poll
  <2> QED
    BY <2>2, <2>3
<1>15. ASSUME NEW t \in Thread, \/ settrace(t) \/ setcheckinterval(t)
                               \/ disable_finalizers(t) \/ enable_finalizers(t)
                               \/ fire_store(t)
       PROVE  Flagged'
  BY <1>2, <1>3, <1>15
  DEF settrace, fire_store, setcheckinterval, disable_finalizers, enable_finalizers, firing, flags, signals
<1>16. ASSUME NEW s \in Sig, pushback(s) \/ \E t \in Thread : set_interrupt(t, s)
       PROVE  Flagged'
  <2>1. stack' = stack /\ (ticker' = ticker \/ ticker' = -1)
    BY <1>16 DEF pushback, signal_setflag_handler, pushback_occurred, pushback_counter, Stage, set_interrupt
  <2>2. sigflags \subseteq Sig /\ pushing \in [Sig -> {"idle", "flagged", "noticed"}]
    BY DEF TypeOK
  <2>3. CASE signal_setflag_handler(s)
    <3>1. \A r \in sigflags' : pushing'[r] = "flagged" \/ (r \in sigflags /\ pushing'[r] = pushing[r])
      BY <2>2, <2>3 DEF signal_setflag_handler, Stage
    <3> QED
      BY <1>3, <2>1, <2>2, <2>3, <3>1 DEF signal_setflag_handler, Flagged
  <2>4. CASE pushback_occurred(s)
    <3>1. \A r \in sigflags : pushing'[r] = "noticed" \/ pushing'[r] = pushing[r]
      BY <2>2, <2>4 DEF pushback_occurred, Stage
    <3> QED
      BY <1>3, <2>1, <2>2, <2>4, <3>1 DEF pushback_occurred, Flagged
  <2>5. CASE pushback_counter(s)
    <3>1. \A r \in sigflags : pushing[r] = "noticed" \/ pushing'[r] = pushing[r]
      BY <2>2, <2>5 DEF pushback_counter, Stage
    <3> QED
      BY <1>3, <2>1, <2>2, <2>5, <3>1 DEF pushback_counter, Flagged
  <2>6. CASE \E t \in Thread : set_interrupt(t, s)
    BY <2>6 DEF set_interrupt, Flagged
  <2> QED
    BY <1>16, <2>3, <2>4, <2>5, <2>6 DEF pushback
<1>17. ASSUME NEW o \in Del, register_callback(o)
       PROVE  Flagged'
  BY <1>2, <1>3, <1>17 DEF register_callback, FireAtOnce, flags, signals
<1> QED
  BY <1>4, <1>5, <1>6, <1>7, <1>9, <1>11, <1>12, <1>13, <1>14, <1>15, <1>16, <1>17, <1>18
  DEF Next, Interpret, Program, Outside

(* A signal that was flagged or put aside is about to be looked at: always *)
(* with a counter, and without one when no signal handler raises (one that *)
(* does leaves the dispatcher with the ticker reset and flags left).       *)
THEOREM SignalsArmed == (HasCounter \/ "handler" \notin MayRaise) /\ Spec => []SignalArmed
<1>1. SUFFICES ASSUME HasCounter \/ "handler" \notin MayRaise
               PROVE  Spec => []SignalArmed
  OBVIOUS
<1>2. Init => Counted /\ Flagged /\ Aside
  BY DEF Init, Counted, Flagged, Aside
<1>3. TypeOK /\ Counted /\ Flagged /\ Aside /\ [Next]_vars => Counted' /\ Flagged' /\ Aside'
  BY <1>1, NextCounted, NextFlagged, NextAside
<1>4. TypeOK /\ Flagged /\ Aside => SignalArmed
  BY SignalParts
<1> QED
  BY <1>2, <1>3, <1>4, TypeCorrect, PTL DEF Spec

-----------------------------------------------------------------------------
(***************************************************************************)
(* An action is listed at most once, and only while marked as fired.       *)
(* Steps are sorted by what they do to the lists of actions.               *)
(***************************************************************************)
Rest(t, k) == stack[t][k].rest

Distinct(list) == \A i, j \in 1..Len(list) : list[i] = list[j] => i = j

Once ==
    /\ Distinct(queue)
    /\ Distinct(storing)
    /\ \A a \in Action : Listed(a, queue) \/ Listed(a, storing) => fired[a]
    /\ \A t \in Thread : \A k \in 1..Len(stack[t]) : Distinct(Rest(t, k))
    /\ \A t \in Thread : \A k \in 1..Len(stack[t]) : \A a \in Action :
          Listed(a, Rest(t, k)) => fired[a] /\ ~Listed(a, queue) /\ ~Listed(a, storing)
    /\ \A t, u \in Thread : \A k \in 1..Len(stack[t]), j \in 1..Len(stack[u]) : \A a \in Action :
          Listed(a, Rest(t, k)) /\ Listed(a, Rest(u, j)) => t = u /\ k = j

(* A list an activation has is one it had, or empty.                       *)
NoNewRest == \A u \in Thread : \A k \in 1..Len(stack'[u]) :
                \/ Rest(u, k)' = <<>>
                \/ k \in 1..Len(stack[u]) /\ Rest(u, k)' = Rest(u, k)

(* Only the innermost activation of t has another list.                    *)
TopRest(t, list) ==
    /\ stack[t] # <<>>
    /\ \A u \in Thread : Len(stack'[u]) = Len(stack[u])
    /\ \A u \in Thread : \A k \in 1..Len(stack[u]) :
          Rest(u, k)' = IF u = t /\ k = Len(stack[t]) THEN list ELSE Rest(u, k)

(* The types, in the terms of the lists that dispatchers hold.             *)
LEMMA RestTypes ==
    ASSUME TypeOK
    PROVE  /\ StackOK
           /\ queue \in Seq(Action) /\ storing \in Seq(Action)
           /\ \A t \in Thread : Len(stack[t]) \in Nat
           /\ \A t \in Thread : \A k \in 1..Len(stack[t]) : Rest(t, k) \in Seq(Action)
           /\ \A t \in Thread : stack[t] # <<>> => Len(stack[t]) \in 1..Len(stack[t])
           /\ \A t \in Thread : stack[t] # <<>> => Rest(t, Len(stack[t])) = Top(t).rest
<1>1. StackOK
  BY DEF TypeOK, StackOK
<1>2. \A t \in Thread : \A k \in 1..Len(stack[t]) : stack[t][k] \in Activation
  BY <1>1 DEF StackOK
<1>3. \A t \in Thread : \A k \in 1..Len(stack[t]) : Rest(t, k) \in Seq(Action)
  BY <1>2 DEF Activation, Rest
<1>4. \A t \in Thread : /\ Len(stack[t]) \in Nat
                         /\ stack[t] # <<>> => Len(stack[t]) \in 1..Len(stack[t])
  BY <1>1 DEF StackOK
<1>5. \A t \in Thread : stack[t] # <<>> => Rest(t, Len(stack[t])) = Top(t).rest
  BY DEF Rest, Top
<1> QED
  BY <1>1, <1>3, <1>4, <1>5 DEF TypeOK

(* Moving on changes one list at most.                                     *)
LEMMA MoveRest ==
    ASSUME TypeOK, NEW t \in Thread, stack[t] # <<>>, NEW top \in Activation, Move(t, top)
    PROVE  TopRest(t, top.rest) /\ (top.rest = Top(t).rest => NoNewRest)
<1>1. TopRest(t, top.rest)
  BY RestTypes, MoveStack DEF TopRest, Rest
<1> QED
  BY <1>1, RestTypes DEF TopRest, NoNewRest

(* The end of an activation brings no list anywhere.                       *)
LEMMA PopRest ==
    ASSUME TypeOK, NEW t \in Thread, stack[t] # <<>>, Pop(t)
    PROVE  NoNewRest
<1>1. \A u \in Thread : \A k \in 1..Len(stack'[u]) : k \in 1..Len(stack[u])
  <2>1. \A u \in Thread : Len(stack'[u]) = IF u = t THEN Len(stack[t]) - 1 ELSE Len(stack[u])
    BY RestTypes, PopStack
  <2> QED
    BY <2>1, RestTypes
<1> QED
  BY <1>1, RestTypes, PopStack DEF NoNewRest, Rest

(* A new activation holds the empty list.                                  *)
LEMMA PushRest ==
    ASSUME TypeOK, NEW t \in Thread, BeginDispatch(t)
    PROVE  NoNewRest
<1>1. \A u \in Thread : \A k \in 1..Len(stack'[u]) :
         k \in 1..Len(stack[u]) \/ (u = t /\ k = Len(stack[t]) + 1)
  <2>1. \A u \in Thread : Len(stack'[u]) = IF u = t THEN Len(stack[t]) + 1 ELSE Len(stack[u])
    BY RestTypes, PushStack
  <2>2. Len(stack[t]) \in Nat
    BY RestTypes
  <2> QED
    BY <2>1, <2>2
<1> QED
  BY <1>1, RestTypes, PushStack DEF NoNewRest, Rest, Fresh

(* Steps that bring no list anywhere keep the lists disjoint.              *)
LEMMA OnceKept ==
    ASSUME TypeOK, Once, NoNewRest, UNCHANGED <<queue, storing, fired>>
    PROVE  Once'
<1>1. \A a : ~Listed(a, <<>>)
  BY DEF Listed
<1>2. Distinct(<<>>)
  BY DEF Distinct
<1>3. \A t \in Thread : \A k \in 1..Len(stack'[t]) : \A a \in Action :
         Listed(a, Rest(t, k)') => k \in 1..Len(stack[t]) /\ Listed(a, Rest(t, k))
  BY <1>1 DEF NoNewRest
<1>4. \A t \in Thread : \A k \in 1..Len(stack'[t]) : Distinct(Rest(t, k)')
  BY <1>2 DEF NoNewRest, Once
<1>5. \A t, u \in Thread : \A k \in 1..Len(stack'[t]), j \in 1..Len(stack'[u]) : \A a \in Action :
         Listed(a, Rest(t, k)') /\ Listed(a, Rest(u, j)') => t = u /\ k = j
  BY <1>3 DEF Once
<1> QED
  BY <1>3, <1>4, <1>5 DEF Once, Rest

(* fire, begun by the program or executed at once by a finalizer.          *)
Fires(a) == FireAtOnce(a) \/ (Fire(a) /\ queue' = queue)

(* fire adds an action that is in no list.                                 *)
LEMMA OnceFired ==
    ASSUME TypeOK, Once, NoNewRest, NEW a \in Action, Fires(a)
    PROVE  Once'
<1>1. CASE UNCHANGED <<queue, storing, fired>>
  BY <1>1, OnceKept
<1>2. CASE /\ ~fired[a]
           /\ fired' = [fired EXCEPT ![a] = TRUE]
           /\ \/ queue' = Append(queue, a) /\ storing' = storing
              \/ queue' = queue /\ storing' = Append(queue, a)
  <2>1. \A b : ~Listed(b, <<>>)
    BY DEF Listed
  <2>2. Distinct(<<>>)
    BY DEF Distinct
  <2>3. \A t \in Thread : \A k \in 1..Len(stack'[t]) : \A b \in Action :
           Listed(b, Rest(t, k)') => k \in 1..Len(stack[t]) /\ Listed(b, Rest(t, k))
    BY <2>1 DEF NoNewRest
  <2>4. \A t \in Thread : \A k \in 1..Len(stack'[t]) : Distinct(Rest(t, k)')
    BY <2>2 DEF NoNewRest, Once
  <2>5. \A b \in Action : fired'[b] <=> fired[b] \/ b = a
    BY <1>2 DEF TypeOK
  <2>6. /\ \A b \in Action : Listed(b, Append(queue, a)) <=> Listed(b, queue) \/ b = a
        /\ Distinct(Append(queue, a))
    <3>1. \A b \in Action : Listed(b, Append(queue, a)) <=> Listed(b, queue) \/ b = a
      BY RestTypes, AppendProperties DEF Listed
    <3>2. Distinct(Append(queue, a))
      BY <1>2, RestTypes, AppendProperties DEF Once, Distinct, Listed
    <3> QED
      BY <3>1, <3>2
  <2>7. Distinct(queue') /\ Distinct(storing')
    BY <1>2, <2>6 DEF Once
  <2>8. /\ ~Listed(a, queue) /\ ~Listed(a, storing)
        /\ \A t \in Thread : \A k \in 1..Len(stack[t]) : ~Listed(a, Rest(t, k))
    BY <1>2 DEF Once
  <2>9. \A t, u \in Thread : \A k \in 1..Len(stack'[t]), j \in 1..Len(stack'[u]) : \A b \in Action :
           Listed(b, Rest(t, k)') /\ Listed(b, Rest(u, j)') => t = u /\ k = j
    BY <2>3 DEF Once
  <2>10. \A b \in Action : Listed(b, queue') \/ Listed(b, storing')
                              => Listed(b, queue) \/ Listed(b, storing) \/ b = a
    BY <1>2, <2>6
  <2>11. \A t \in Thread : \A k \in 1..Len(stack'[t]) : \A b \in Action :
            Listed(b, Rest(t, k)') => fired'[b] /\ ~Listed(b, queue') /\ ~Listed(b, storing')
    BY <2>3, <2>5, <2>8, <2>10 DEF Once
  <2>12. \A b \in Action : Listed(b, queue') \/ Listed(b, storing') => fired'[b]
    BY <2>5, <2>10 DEF Once
  <2> QED
    BY <2>4, <2>7, <2>9, <2>11, <2>12 DEF Once, Rest
<1> QED
  BY <1>1, <1>2 DEF Fires, Fire, FireAtOnce

(* The end of fire drops the list that the new one replaces.               *)
LEMMA OnceStored ==
    ASSUME TypeOK, Once, NoNewRest, queue' = storing, storing' = <<>>, fired' = fired
    PROVE  Once'
<1>1. \A a : ~Listed(a, <<>>)
  BY DEF Listed
<1>2. Distinct(<<>>)
  BY DEF Distinct
<1>3. \A t \in Thread : \A k \in 1..Len(stack'[t]) : \A a \in Action :
         Listed(a, Rest(t, k)') => k \in 1..Len(stack[t]) /\ Listed(a, Rest(t, k))
  BY <1>1 DEF NoNewRest
<1>4. \A t \in Thread : \A k \in 1..Len(stack'[t]) : Distinct(Rest(t, k)')
  BY <1>2 DEF NoNewRest, Once
<1>5. \A t, u \in Thread : \A k \in 1..Len(stack'[t]), j \in 1..Len(stack'[u]) : \A a \in Action :
         Listed(a, Rest(t, k)') /\ Listed(a, Rest(u, j)') => t = u /\ k = j
  BY <1>3 DEF Once
<1>6. \A t \in Thread : \A k \in 1..Len(stack'[t]) : \A a \in Action :
         Listed(a, Rest(t, k)') => fired[a] /\ ~Listed(a, storing)
  BY <1>3 DEF Once
<1> QED
  BY <1>1, <1>2, <1>4, <1>5, <1>6 DEF Once, Rest

(* Taking the list leaves the empty one behind.                            *)
LEMMA OnceGrabbed ==
    ASSUME TypeOK, Once, NEW t \in Thread, TopRest(t, queue),
           storing = <<>>, queue' = <<>>, UNCHANGED <<storing, fired>>
    PROVE  Once'
<1>1. \A a : ~Listed(a, <<>>)
  BY DEF Listed
<1>2. Distinct(<<>>)
  BY DEF Distinct
<1>3. \A u \in Thread : \A k \in 1..Len(stack'[u]) :
         /\ k \in 1..Len(stack[u])
         /\ Rest(u, k)' = IF u = t /\ k = Len(stack[t]) THEN queue ELSE Rest(u, k)
  BY DEF TopRest
<1>4. \A u \in Thread : \A k \in 1..Len(stack'[u]) : Distinct(Rest(u, k)')
  BY <1>3 DEF Once
<1>5. \A u, v \in Thread : \A k \in 1..Len(stack'[u]), j \in 1..Len(stack'[v]) : \A a \in Action :
         Listed(a, Rest(u, k)') /\ Listed(a, Rest(v, j)') => u = v /\ k = j
  BY <1>3 DEF Once
<1>6. \A u \in Thread : \A k \in 1..Len(stack'[u]) : \A a \in Action :
         Listed(a, Rest(u, k)') => fired[a]
  BY <1>3 DEF Once
<1> QED
  BY <1>1, <1>2, <1>4, <1>5, <1>6 DEF Once, Rest

(* The first action of the innermost list leaves it.                       *)
LEMMA Taken ==
    ASSUME TypeOK, Once, NEW t \in Thread, NEW a \in Action,
           stack[t] # <<>>, Top(t).rest # <<>>, Head(Top(t).rest) = a,
           TopRest(t, Tail(Top(t).rest))
    PROVE  /\ fired[a] /\ ~Listed(a, queue) /\ ~Listed(a, storing)
           /\ \A u \in Thread : \A k \in 1..Len(stack'[u]) : Distinct(Rest(u, k)')
           /\ \A u \in Thread : \A k \in 1..Len(stack'[u]) : k \in 1..Len(stack[u])
           /\ \A u \in Thread : \A k \in 1..Len(stack'[u]) : \A b \in Action :
                 Listed(b, Rest(u, k)') => Listed(b, Rest(u, k)) /\ b # a
           /\ \A u \in Thread : \A k \in 1..Len(stack[u]) : \A b \in Action :
                 Listed(b, Rest(u, k)) /\ b # a => Listed(b, Rest(u, k)')
<1> DEFINE n == Len(stack[t])
           r == Top(t).rest
<1>1. n \in 1..Len(stack[t]) /\ Rest(t, n) = r /\ r \in Seq(Action) /\ Top(t) \in Activation
  BY RestTypes, TopActivation
<1>2. /\ Len(r) \in Nat \ {0} /\ r[1] = a
      /\ Len(Tail(r)) = Len(r) - 1
      /\ \A i \in 1..Len(r) - 1 : Tail(r)[i] = r[i + 1]
  BY <1>1, Take, EmptySeq
<1>3. Listed(a, r) /\ Distinct(r)
  BY <1>1, <1>2 DEF Listed, Once
<1>4. Distinct(Tail(r))
  <2>1. ASSUME NEW i \in 1..Len(Tail(r)), NEW j \in 1..Len(Tail(r)), Tail(r)[i] = Tail(r)[j]
        PROVE  i = j
    <3>1. i + 1 \in 1..Len(r) /\ j + 1 \in 1..Len(r) /\ r[i + 1] = r[j + 1]
      BY <1>2, <2>1
    <3> QED
      BY <1>3, <3>1 DEF Distinct
  <2> QED
    BY <2>1 DEF Distinct
<1>5. \A b \in Action : Listed(b, Tail(r)) <=> Listed(b, r) /\ b # a
  <2>1. ASSUME NEW i \in 1..Len(Tail(r)) PROVE r[i + 1] = Tail(r)[i] /\ i + 1 \in 1..Len(r) /\ r[i + 1] # a
    BY <1>2, <1>3 DEF Distinct
  <2>2. ASSUME NEW i \in 1..Len(r), r[i] # a
        PROVE  i - 1 \in 1..Len(Tail(r)) /\ Tail(r)[i - 1] = r[i]
    BY <1>2, <2>2
  <2> QED
    BY <2>1, <2>2 DEF Listed
<1>6. \A u \in Thread : Len(stack'[u]) = Len(stack[u])
  BY DEF TopRest
<1>7. \A u \in Thread : \A k \in 1..Len(stack[u]) :
         Rest(u, k)' = IF u = t /\ k = n THEN Tail(r) ELSE Rest(u, k)
  BY DEF TopRest
<1>8. \A u \in Thread : \A k \in 1..Len(stack[u]) : Listed(a, Rest(u, k)) => u = t /\ k = n
  BY <1>1, <1>3 DEF Once
<1> HIDE DEF n, r
<1>9. fired[a] /\ ~Listed(a, queue) /\ ~Listed(a, storing)
  BY <1>1, <1>3 DEF Once
<1>10. \A u \in Thread : \A k \in 1..Len(stack'[u]) : Distinct(Rest(u, k)')
  <2>1. \A u \in Thread : \A k \in 1..Len(stack[u]) : Distinct(Rest(u, k))
    BY DEF Once
  <2>2. \A u \in Thread : \A k \in 1..Len(stack[u]) : Rest(u, k)' = Tail(r) \/ Rest(u, k)' = Rest(u, k)
    BY <1>7
  <2> QED
    BY <1>4, <1>6, <2>1, <2>2
<1>11. \A u \in Thread : \A k \in 1..Len(stack'[u]) : k \in 1..Len(stack[u])
  BY <1>6
<1>12. ASSUME NEW u \in Thread, NEW k \in 1..Len(stack[u]), NEW b \in Action
       PROVE  Listed(b, Rest(u, k)') <=> Listed(b, Rest(u, k)) /\ b # a
  <2>1. CASE u = t /\ k = n
    BY <1>1, <1>5, <1>7, <2>1
  <2>2. CASE ~(u = t /\ k = n)
    BY <1>7, <1>8, <2>2
  <2> QED
    BY <2>1, <2>2
<1> QED
  BY <1>9, <1>10, <1>11, <1>12

(* The action a that a dispatcher takes next is unmarked; FrameTraceAction *)
(* may fire itself again at once.                                          *)
Runs(a) ==
    /\ queue' = queue
    /\ \/ fired' = [fired EXCEPT ![a] = FALSE] /\ storing' = storing
       \/ storing' = Append(queue, a) /\ fired' = fired

(* The action that perform runs was in one list, once: it is in none.      *)
LEMMA OnceTaken ==
    ASSUME TypeOK, Once, NEW t \in Thread, NEW a \in Action,
           stack[t] # <<>>, Top(t).rest # <<>>, Head(Top(t).rest) = a,
           TopRest(t, Tail(Top(t).rest)), storing = <<>>, Runs(a)
    PROVE  Once'
<1>1. /\ ~Listed(a, queue) /\ ~Listed(a, storing) /\ fired[a]
      /\ \A u \in Thread : \A k \in 1..Len(stack'[u]) : Distinct(Rest(u, k)')
      /\ \A u \in Thread : \A k \in 1..Len(stack'[u]) : k \in 1..Len(stack[u])
      /\ \A u \in Thread : \A k \in 1..Len(stack'[u]) : \A b \in Action :
            Listed(b, Rest(u, k)') => Listed(b, Rest(u, k)) /\ b # a
  BY Taken
<1>2. \A u, v \in Thread : \A k \in 1..Len(stack'[u]), j \in 1..Len(stack'[v]) : \A b \in Action :
         Listed(b, Rest(u, k)') /\ Listed(b, Rest(v, j)') => u = v /\ k = j
  BY <1>1 DEF Once
<1>3. CASE fired' = [fired EXCEPT ![a] = FALSE] /\ storing' = storing /\ queue' = queue
  <2>1. \A b \in Action : fired'[b] <=> fired[b] /\ b # a
    BY <1>3 DEF TypeOK
  <2>2. \A u \in Thread : \A k \in 1..Len(stack'[u]) : \A b \in Action :
           Listed(b, Rest(u, k)') => fired'[b] /\ ~Listed(b, queue) /\ ~Listed(b, storing)
    BY <1>1, <2>1 DEF Once
  <2>3. \A b \in Action : Listed(b, queue) \/ Listed(b, storing) => fired'[b]
    BY <1>1, <2>1 DEF Once
  <2> QED
    BY <1>1, <1>2, <1>3, <2>2, <2>3 DEF Once, Rest
<1>4. CASE storing' = Append(queue, a) /\ fired' = fired /\ queue' = queue
  <2>1. \A b \in Action : Listed(b, storing') <=> Listed(b, queue) \/ b = a
    BY <1>4, RestTypes, AppendProperties DEF Listed
  <2>2. Distinct(storing')
    BY <1>1, <1>4, RestTypes, AppendProperties DEF Once, Distinct, Listed
  <2>3. \A u \in Thread : \A k \in 1..Len(stack'[u]) : \A b \in Action :
           Listed(b, Rest(u, k)') => fired'[b] /\ ~Listed(b, queue') /\ ~Listed(b, storing')
    BY <1>1, <1>4, <2>1 DEF Once
  <2>4. \A b \in Action : Listed(b, queue') \/ Listed(b, storing') => fired'[b]
    BY <1>1, <1>4, <2>1 DEF Once
  <2> QED
    BY <1>1, <1>2, <1>4, <2>2, <2>3, <2>4 DEF Once, Rest
<1> QED
  BY <1>3, <1>4 DEF Runs

(* Every step keeps each action in one list, at most once.                 *)
LEMMA NextOnce ==
    ASSUME TypeOK, Once, [Next]_vars
    PROVE  Once'
<1> USE DEF Holds, At
<1>1. StackOK
  BY DEF TypeOK, StackOK
<1>2. stack' = stack => NoNewRest
  BY DEF NoNewRest, Rest
<1>3. CASE UNCHANGED vars
  BY <1>2, <1>3, OnceKept DEF vars
<1>4. ASSUME NEW t \in Thread, opcode(t) \/ after_exception(t) \/ decrement_load(t) \/ decrement_store(t)
      PROVE  Once'
  <2>1. UNCHANGED <<queue, storing, fired>> /\ (stack' = stack \/ BeginDispatch(t))
    BY <1>4 DEF opcode, after_exception, decrement_load, decrement_store, Unticked
  <2> QED
    BY <1>2, <2>1, OnceKept, PushRest
<1>5. ASSUME NEW t \in Thread, stack[t] # <<>>,
             UNCHANGED <<queue, storing, fired>> \/ Fires("trace"),
             \/ Pop(t)
             \/ \E top \in Activation : top.rest = Top(t).rest /\ Move(t, top)
      PROVE  Once'
  <2>1. NoNewRest
    BY <1>5, PopRest, MoveRest
  <2> QED
    BY <1>5, <2>1, OnceKept, OnceFired DEF Action
<1>14. ASSUME NEW t \in Thread, check_signal(t) \/ pypysig_poll(t)
       PROVE  Once'
  BY <1>5, <1>14, PollMoves DEF firing
<1>6. ASSUME NEW t \in Thread, (\E u \in Thread : release_gil(t, u)) \/ next_del(t) \/ take_dying(t)
      PROVE  Once'
  <2>1. stack[t] # <<>> /\ Top(t) \in Activation /\ UNCHANGED <<queue, storing, fired>>
    BY <1>1, <1>6, TopActivation DEF release_gil, next_del, take_dying, firing
  <2>2. \A where \in {"grab", "actions"} :
           /\ [Top(t) EXCEPT !.at = where, !.what = None] \in Activation
           /\ [Top(t) EXCEPT !.at = where, !.what = None].rest = Top(t).rest
    BY <2>1 DEF Activation
  <2>4. Top(t).todo # <<>> =>
           LET top == [Top(t) EXCEPT !.at = "del", !.what = Head(Top(t).todo), !.todo = Tail(@)]
           IN  top \in Activation /\ top.rest = Top(t).rest
    BY <2>1, Take DEF Activation
  <2>6. /\ [Top(t) EXCEPT !.at = "dels", !.todo = dying] \in Activation
        /\ [Top(t) EXCEPT !.at = "dels", !.todo = dying].rest = Top(t).rest
    BY <2>1 DEF Activation, TypeOK
  <2>5. \E top \in Activation : top.rest = Top(t).rest /\ Move(t, top)
    <3>2. CASE \E u \in Thread : release_gil(t, u)
      BY <2>2, <3>2 DEF release_gil, Goto
    <3>3. CASE next_del(t)
      BY <2>2, <2>4, <3>3 DEF next_del, Goto
    <3>4. CASE take_dying(t)
      BY <2>6, <3>4 DEF take_dying
    <3> QED
      BY <1>6, <3>2, <3>3, <3>4
  <2> QED
    BY <1>5, <2>1, <2>5
<1>7. ASSUME NEW t \in Thread, callback_returns(t) \/ callback_raises(t) \/ end_dispatch(t)
      PROVE  Once'
  <2>1. stack[t] # <<>> /\ Top(t) \in Activation
    BY <1>1, <1>7, TopActivation DEF callback_returns, callback_raises, end_dispatch
  <2>2. UNCHANGED <<queue, storing, fired>> \/ Fires("trace")
    BY <1>7 DEF callback_returns, callback_raises, end_dispatch, firing, Fires
  <2>3. \A where \in {"poll", "dels", "actions"} :
           /\ [Top(t) EXCEPT !.at = where, !.what = None] \in Activation
           /\ [Top(t) EXCEPT !.at = where, !.what = None].rest = Top(t).rest
    BY <2>1 DEF Activation
  <2>4. Pop(t) \/ \E top \in Activation : top.rest = Top(t).rest /\ Move(t, top)
    BY <1>7, <2>3 DEF callback_returns, callback_raises, end_dispatch, Goto
  <2> QED
    BY <1>5, <2>1, <2>2, <2>4
<1>8. ASSUME NEW t \in Thread, grab_actions(t)
      PROVE  Once'
  <2>1. stack[t] # <<>> /\ Top(t) \in Activation
    BY <1>1, <1>8, TopActivation DEF grab_actions
  <2>2. /\ [Top(t) EXCEPT !.at = "actions", !.rest = queue] \in Activation
        /\ [Top(t) EXCEPT !.at = "actions", !.rest = queue].rest = queue
    BY <2>1 DEF Activation, TypeOK
  <2>3. TopRest(t, queue)
    BY <1>8, <2>1, <2>2, MoveRest DEF grab_actions
  <2> QED
    BY <1>8, <2>3, OnceGrabbed DEF grab_actions
<1>9. ASSUME NEW t \in Thread, user_del(t)
      PROVE  Once'
  <2>1. /\ stack[t] # <<>> /\ Top(t) \in Activation
        /\ Top(t).rest # <<>> /\ Head(Top(t).rest) = "del"
    BY <1>1, <1>9, TopActivation DEF user_del, NextAction
  <2> DEFINE top1 == [Top(t) EXCEPT !.rest = Tail(@)]
             top2 == [Top(t) EXCEPT !.at = "taking", !.rest = Tail(@)]
  <2>2. /\ top1 \in Activation /\ top1.rest = Tail(Top(t).rest)
        /\ top2 \in Activation /\ top2.rest = Tail(Top(t).rest)
    BY <2>1, Take DEF Activation, TypeOK
  <2>3. Move(t, top1) \/ Move(t, top2)
    BY <1>9 DEF user_del
  <2> HIDE DEF top1, top2
  <2>4. TopRest(t, Tail(Top(t).rest))
    BY <2>1, <2>2, <2>3, MoveRest
  <2>5. Runs("del") /\ storing = <<>>
    BY <1>9 DEF user_del, NextAction, Runs
  <2> QED
    BY <2>1, <2>4, <2>5, OnceTaken DEF Action
<1>10. ASSUME NEW t \in Thread, frame_trace(t)
       PROVE  Once'
  <2>1. /\ stack[t] # <<>> /\ Top(t) \in Activation
        /\ Top(t).rest # <<>> /\ Head(Top(t).rest) = "trace"
    BY <1>1, <1>10, TopActivation DEF frame_trace, NextAction
  <2> DEFINE top1 == [Top(t) EXCEPT !.rest = Tail(@)]
             top2 == [top1 EXCEPT !.at = "trace"]
  <2>2. /\ top1 \in Activation /\ top1.rest = Tail(Top(t).rest)
        /\ top2 \in Activation /\ top2.rest = Tail(Top(t).rest)
    BY <2>1, Take DEF Activation
  <2>3. Move(t, top1) \/ Move(t, top2)
    BY <1>10 DEF frame_trace
  <2> HIDE DEF top1, top2
  <2>4. TopRest(t, Tail(Top(t).rest))
    BY <2>1, <2>2, <2>3, MoveRest
  <2>5. Runs("trace") /\ storing = <<>>
    BY <1>10 DEF frame_trace, NextAction, Runs
  <2> QED
    BY <2>1, <2>4, <2>5, OnceTaken DEF Action
<1>11. ASSUME NEW t \in Thread, settrace(t) \/ enable_finalizers(t)
       PROVE  Once'
  BY <1>2, <1>11, OnceFired DEF settrace, enable_finalizers, Fires, Action
<1>12. ASSUME NEW t \in Thread,
              \/ setcheckinterval(t) \/ disable_finalizers(t)
              \/ (\E s \in Sig : set_interrupt(t, s)) \/ (\E u \in Thread : external_call(t, u))
       PROVE  Once'
  <2>1. UNCHANGED <<stack, queue, storing, fired>>
    BY <1>12 DEF setcheckinterval, disable_finalizers, set_interrupt, external_call, firing
  <2> QED
    BY <1>2, <2>1, OnceKept
<1>13. CASE Outside
  <2>1. ASSUME NEW s \in Sig, pushback(s)
        PROVE  Once'
    BY <1>2, <2>1, OnceKept DEF pushback, signal_setflag_handler, pushback_occurred, pushback_counter, Stage
  <2>2. ASSUME NEW o \in Del, register_callback(o)
        PROVE  Once'
    BY <1>2, <2>2, OnceFired DEF register_callback, Fires, Action
  <2> QED
    BY <1>13, <2>1, <2>2 DEF Outside
<1>15. ASSUME NEW t \in Thread, fire_store(t)
       PROVE  Once'
  BY <1>2, <1>15, OnceStored DEF fire_store
<1> QED
  BY <1>3, <1>4, <1>6, <1>7, <1>8, <1>9, <1>10, <1>11, <1>12, <1>13, <1>14, <1>15
  DEF Next, Interpret, Program, Switch

(* That invariant holds in every behaviour.                                *)
LEMMA OnceAlways == Spec => []Once
<1>1. Init => Once
  BY DEF Init, Once, Distinct, Listed
<1>2. TypeOK /\ Once /\ [Next]_vars => Once'
  BY NextOnce
<1> QED
  BY <1>1, <1>2, TypeCorrect, PTL DEF Spec

(* However dispatchers nest and threads interleave, and whatever raises,   *)
(* an action that was fired once runs at most once.                        *)
THEOREM NoActionTwice == Spec => []QueuedOnce
<1>1. TypeOK /\ Once => QueuedOnce
  <2> SUFFICES ASSUME TypeOK, Once PROVE QueuedOnce
    OBVIOUS
  <2>1. \A i \in 1..Len(queue) : queue[i] \in Action /\ Listed(queue[i], queue)
    BY DEF TypeOK, Listed
  <2> QED
    BY <2>1 DEF Once, QueuedOnce, Distinct, Rest
<1> QED
  BY <1>1, OnceAlways, TypeCorrect, PTL

-----------------------------------------------------------------------------
(***************************************************************************)
(* When trace functions do not raise, an action marked as fired leaves the *)
(* lists only where fire() overwrites one.  What a dispatcher forgets when *)
(* it takes the list is empty, and the list that fire() replaces holds no  *)
(* more than its own, "del" apart, which only a finalizer can have added.  *)
(***************************************************************************)
RestEmpty == \A t \in Thread : \A k \in 1..Len(stack[t]) :
                stack[t][k].at \in Phase => Rest(t, k) = <<>>

Behind == storing # <<>> => \A a \in Action : Listed(a, queue) => a = "del" \/ Listed(a, storing)

(* What a step does to the marked actions, as ActionsKept says.            *)
Kept == \A a \in Action : fired'[a] =>
           \/ Scheduled(a)'
           \/ fired[a] /\ ~Scheduled(a)
           \/ a = "del" /\ Overwriting /\ queue' = storing

(* Steps that leave the lists alone, or fire.                              *)
Firing == \/ UNCHANGED <<queue, storing, fired>>
          \/ \E a \in Action : storing = <<>> /\ Fire(a) /\ queue' = queue
          \/ FireAtOnce("del")

(* No activation loses a list with an action in it.                        *)
NoLostRest == \A u \in Thread : \A k \in 1..Len(stack[u]) :
                 Rest(u, k) # <<>> => k \in 1..Len(stack'[u]) /\ Rest(u, k)' = Rest(u, k)

(* Moving on keeps the list empty before it is taken ...                   *)
LEMMA RestEmptyMove ==
    ASSUME TypeOK, RestEmpty, NEW t \in Thread, stack[t] # <<>>,
           NEW top \in Activation, Move(t, top), top.at \in Phase => top.rest = <<>>
    PROVE  RestEmpty'
<1>1. StackOK
  BY RestTypes
<1>2. \A u \in Thread : \A k \in 1..Len(stack'[u]) :
         /\ k \in 1..Len(stack[u])
         /\ stack'[u][k] = top \/ stack'[u][k] = stack[u][k]
  BY <1>1, MoveStack
<1> QED
  BY <1>2 DEF RestEmpty, Rest, Phase

(* ... and so does the end of an activation ...                            *)
LEMMA RestEmptyPop ==
    ASSUME TypeOK, RestEmpty, NEW t \in Thread, stack[t] # <<>>, Pop(t)
    PROVE  RestEmpty'
<1>1. StackOK /\ \A u \in Thread : Len(stack[u]) \in Nat
  BY RestTypes
<1>2. \A u \in Thread : Len(stack'[u]) = IF u = t THEN Len(stack[t]) - 1 ELSE Len(stack[u])
  BY <1>1, PopStack
<1>3. \A u \in Thread : \A k \in 1..Len(stack'[u]) : k \in 1..Len(stack[u])
  BY <1>1, <1>2
<1>4. \A u \in Thread : \A k \in 1..Len(stack'[u]) : stack'[u][k] = stack[u][k]
  BY <1>1, PopStack
<1> QED
  BY <1>3, <1>4 DEF RestEmpty, Rest, Phase

(* ... and the beginning of one.                                           *)
LEMMA RestEmptyPush ==
    ASSUME TypeOK, RestEmpty, NEW t \in Thread, BeginDispatch(t)
    PROVE  RestEmpty' /\ NoLostRest
<1>1. /\ \A u \in Thread : Len(stack'[u]) = IF u = t THEN Len(stack[t]) + 1 ELSE Len(stack[u])
      /\ \A u \in Thread : \A k \in 1..Len(stack[u]) : stack'[u][k] = stack[u][k]
      /\ stack'[t][Len(stack[t]) + 1] = Fresh
  BY RestTypes, PushStack
<1>2. \A u \in Thread : Len(stack[u]) \in Nat
  BY RestTypes
<1>3. \A u \in Thread : \A k \in 1..Len(stack'[u]) :
         k \in 1..Len(stack[u]) \/ (u = t /\ k = Len(stack[t]) + 1)
  BY <1>1, <1>2
<1>4. RestEmpty'
  BY <1>1, <1>3 DEF RestEmpty, Rest, Phase, Fresh
<1>5. NoLostRest
  BY <1>1, <1>2 DEF NoLostRest, Rest
<1> QED
  BY <1>4, <1>5

(* Moving on with the same list loses no action.                           *)
LEMMA MoveNoLoss ==
    ASSUME TypeOK, NEW t \in Thread, stack[t] # <<>>, NEW top \in Activation, Move(t, top),
           top.rest = Top(t).rest
    PROVE  NoLostRest
<1>1. TopRest(t, Top(t).rest)
  BY MoveRest
<1> QED
  BY <1>1, RestTypes DEF TopRest, NoLostRest

(* Ending with an empty list loses none.                                   *)
LEMMA PopNoLoss ==
    ASSUME TypeOK, NEW t \in Thread, stack[t] # <<>>, Pop(t), Top(t).rest = <<>>
    PROVE  NoLostRest
<1>1. \A u \in Thread : Len(stack'[u]) = IF u = t THEN Len(stack[t]) - 1 ELSE Len(stack[u])
  BY RestTypes, PopStack
<1>2. /\ StackOK /\ Rest(t, Len(stack[t])) = <<>>
      /\ \A u \in Thread : Len(stack[u]) \in Nat
  BY RestTypes
<1>3. \A u \in Thread : \A k \in 1..Len(stack[u]) :
         k \in 1..Len(stack'[u]) \/ (u = t /\ k = Len(stack[t]))
  BY <1>1, <1>2
<1>4. \A u \in Thread : \A k \in 1..Len(stack'[u]) : Rest(u, k)' = Rest(u, k)
  BY <1>2, PopStack DEF Rest
<1> QED
  BY <1>2, <1>3, <1>4 DEF NoLostRest

(* An action stays in a list while no list is lost.                        *)
LEMMA KeptScheduled ==
    ASSUME TypeOK, NoLostRest, NEW a, Scheduled(a),
           Listed(a, queue) \/ Listed(a, storing) => Listed(a, queue') \/ Listed(a, storing')
    PROVE  Scheduled(a)'
<1>1. ~Listed(a, <<>>)
  BY DEF Listed
<1>2. CASE Listed(a, queue) \/ Listed(a, storing)
  BY <1>2 DEF Scheduled
<1>3. ASSUME NEW t \in Thread, NEW k \in 1..Len(stack[t]), Listed(a, Rest(t, k))
      PROVE  Scheduled(a)'
  <2>1. k \in 1..Len(stack'[t]) /\ Listed(a, Rest(t, k)')
    BY <1>1, <1>3 DEF NoLostRest
  <2> QED
    BY <2>1 DEF Scheduled, Rest
<1> QED
  BY <1>2, <1>3 DEF Scheduled, Rest

(* Steps that only fire keep every fired action in a list.                 *)
LEMMA ScheduledKept ==
    ASSUME TypeOK, Behind, NoLostRest, Firing
    PROVE  Kept /\ Behind'
<1>1. CASE UNCHANGED <<queue, storing, fired>>
  BY <1>1, KeptScheduled DEF Kept, Behind
<1>2. ASSUME NEW a \in Action, fired' = [fired EXCEPT ![a] = TRUE],
             \/ queue' = Append(queue, a) /\ storing' = storing /\ a = "del"
             \/ storing = <<>> /\ queue' = queue /\ storing' = Append(queue, a)
      PROVE  Kept /\ Behind'
  <2>1. \A b \in Action : fired'[b] => fired[b] \/ b = a
    BY <1>2 DEF TypeOK
  <2>2. \A b \in Action : Listed(b, Append(queue, a)) <=> Listed(b, queue) \/ b = a
    BY RestTypes, AppendProperties DEF Listed
  <2>3. \A b \in Action : ~Listed(b, <<>>)
    BY DEF Listed
  <2>4. \A b \in Action : Listed(b, queue) \/ Listed(b, storing) \/ b = a
                             => Listed(b, queue') \/ Listed(b, storing')
    BY <1>2, <2>2, <2>3
  <2>5. \A b \in Action : Scheduled(b) => Scheduled(b)'
    BY <2>4, KeptScheduled
  <2>6. Scheduled(a)'
    BY <2>4 DEF Scheduled
  <2>7. Behind'
    BY <1>2, <2>2 DEF Behind
  <2> QED
    BY <2>1, <2>5, <2>6, <2>7 DEF Kept
<1>3. ASSUME NEW a \in Action, storing = <<>>, Fire(a), queue' = queue
      PROVE  Kept /\ Behind'
  BY <1>1, <1>2, <1>3 DEF Fire
<1>4. CASE FireAtOnce("del")
  BY <1>1, <1>2, <1>4 DEF FireAtOnce, Action
<1> QED
  BY <1>1, <1>3, <1>4 DEF Firing

(* Taking the list moves its actions to the dispatcher's.                  *)
LEMMA ScheduledGrabbed ==
    ASSUME TypeOK, NEW t \in Thread, TopRest(t, queue), Top(t).rest = <<>>,
           storing = <<>>, queue' = <<>>, UNCHANGED <<storing, fired>>
    PROVE  Kept /\ Behind'
<1>1. \A a \in Action : ~Listed(a, <<>>)
  BY DEF Listed
<1>2. ASSUME NEW a \in Action, Listed(a, queue)
      PROVE  Scheduled(a)'
  <2>1. Len(stack[t]) \in 1..Len(stack'[t]) /\ Rest(t, Len(stack[t]))' = queue
    BY RestTypes DEF TopRest
  <2> QED
    BY <1>2, <2>1 DEF Scheduled, Rest
<1>3. ASSUME NEW a \in Action, NEW u \in Thread, NEW k \in 1..Len(stack[u]), Listed(a, Rest(u, k))
      PROVE  Scheduled(a)'
  <2>1. ~(u = t /\ k = Len(stack[t]))
    BY <1>1, <1>3, RestTypes DEF TopRest
  <2>2. k \in 1..Len(stack'[u]) /\ Rest(u, k)' = Rest(u, k)
    BY <2>1 DEF TopRest
  <2> QED
    BY <1>3, <2>2 DEF Scheduled, Rest
<1>4. \A a \in Action : Scheduled(a) => Scheduled(a)'
  BY <1>1, <1>2, <1>3 DEF Scheduled, Rest
<1> QED
  BY <1>4 DEF Kept, Behind

(* The action that perform runs is unmarked: the others stay in a list.    *)
LEMMA ScheduledTaken ==
    ASSUME TypeOK, Once, NEW t \in Thread, NEW a \in Action,
           stack[t] # <<>>, Top(t).rest # <<>>, Head(Top(t).rest) = a,
           TopRest(t, Tail(Top(t).rest)), storing = <<>>, Runs(a)
    PROVE  Kept /\ Behind'
<1>1. /\ \A u \in Thread : Len(stack'[u]) = Len(stack[u])
      /\ \A u \in Thread : \A k \in 1..Len(stack[u]) : \A b \in Action :
            Listed(b, Rest(u, k)) /\ b # a => Listed(b, Rest(u, k)')
  BY Taken DEF TopRest
<1>2. \A b \in Action : ~Listed(b, <<>>)
  BY DEF Listed
<1>3. ASSUME NEW b \in Action, b # a, Scheduled(b)
      PROVE  Scheduled(b)'
  BY <1>1, <1>2, <1>3 DEF Scheduled, Rest, Runs
<1>4. \A b \in Action : Listed(b, Append(queue, a)) <=> Listed(b, queue) \/ b = a
  BY RestTypes, AppendProperties DEF Listed
<1>5. fired'[a] => Scheduled(a)'
  <2>1. CASE fired' = [fired EXCEPT ![a] = FALSE]
    BY <2>1 DEF TypeOK
  <2>2. CASE storing' = Append(queue, a)
    BY <1>4, <2>2 DEF Scheduled
  <2> QED
    BY <2>1, <2>2 DEF Runs
<1>6. \A b \in Action : b # a /\ fired'[b] => fired[b]
  BY DEF TypeOK, Runs
<1>7. Behind'
  BY <1>4 DEF Runs, Behind
<1> QED
  BY <1>3, <1>5, <1>6, <1>7 DEF Kept

(* The end of fire drops at most "del", which a finalizer has listed.      *)
LEMMA ScheduledStored ==
    ASSUME TypeOK, Behind, NoLostRest, storing # <<>>,
           queue' = storing, storing' = <<>>, fired' = fired
    PROVE  Kept /\ Behind'
<1>1. ASSUME NEW a \in Action, Scheduled(a), a # "del" \/ ~Overwriting
      PROVE  Scheduled(a)'
  <2>1. Listed(a, queue) \/ Listed(a, storing) => Listed(a, queue')
    BY <1>1 DEF Behind, Overwriting
  <2> QED
    BY <1>1, <2>1, KeptScheduled
<1> QED
  BY <1>1 DEF Kept, Behind

(* Every step keeps fired actions so, if no trace function raises.         *)
LEMMA NextScheduled ==
    ASSUME TypeOK, Once, RestEmpty, Behind, "trace" \notin MayRaise, [Next]_vars
    PROVE  RestEmpty' /\ Behind' /\ Kept
<1> USE DEF Holds, At
<1>1. StackOK
  BY DEF TypeOK, StackOK
<1>2. stack' = stack => RestEmpty' /\ NoLostRest
  BY DEF RestEmpty, NoLostRest, Rest, Phase
<1>3. CASE UNCHANGED vars
  BY <1>2, <1>3, ScheduledKept DEF vars, Firing
<1>4. ASSUME NEW t \in Thread, opcode(t) \/ after_exception(t) \/ decrement_load(t) \/ decrement_store(t)
      PROVE  RestEmpty' /\ Behind' /\ Kept
  <2>1. UNCHANGED <<queue, storing, fired>> /\ (stack' = stack \/ BeginDispatch(t))
    BY <1>4 DEF opcode, after_exception, decrement_load, decrement_store, Unticked
  <2> QED
    BY <1>2, <2>1, ScheduledKept, RestEmptyPush DEF Firing
<1>5. ASSUME NEW t \in Thread, stack[t] # <<>>, Firing,
             \/ Pop(t) /\ Top(t).rest = <<>>
             \/ \E top \in Activation : /\ top.rest = Top(t).rest /\ Move(t, top)
                                        /\ top.at \in Phase => Top(t).rest = <<>>
      PROVE  RestEmpty' /\ Behind' /\ Kept
  <2>1. NoLostRest /\ RestEmpty'
    BY <1>5, PopNoLoss, MoveNoLoss, RestEmptyPop, RestEmptyMove
  <2> QED
    BY <1>5, <2>1, ScheduledKept
<1>6. ASSUME NEW t \in Thread, stack[t] # <<>>, Top(t).at \in Phase
      PROVE  Top(t).rest = <<>>
  BY <1>6, RestTypes DEF RestEmpty, Top
<1>17. ASSUME NEW t \in Thread, check_signal(t) \/ pypysig_poll(t)
       PROVE  RestEmpty' /\ Behind' /\ Kept
  <2>1. Top(t).rest = <<>>
    BY <1>6, <1>17, PollMoves DEF Phase
  <2> QED
    BY <1>5, <1>17, <2>1, PollMoves DEF firing, Firing
<1>7. ASSUME NEW t \in Thread, (\E u \in Thread : release_gil(t, u)) \/ next_del(t) \/ take_dying(t)
      PROVE  RestEmpty' /\ Behind' /\ Kept
  <2>1. stack[t] # <<>> /\ Top(t) \in Activation /\ Firing
    BY <1>1, <1>7, TopActivation DEF release_gil, next_del, take_dying, firing, Firing
  <2>2. \A where \in {"grab", "actions"} :
           /\ [Top(t) EXCEPT !.at = where, !.what = None] \in Activation
           /\ [Top(t) EXCEPT !.at = where, !.what = None].rest = Top(t).rest
           /\ [Top(t) EXCEPT !.at = where, !.what = None].at = where
    BY <2>1 DEF Activation
  <2>4. Top(t).todo # <<>> =>
           LET top == [Top(t) EXCEPT !.at = "del", !.what = Head(Top(t).todo), !.todo = Tail(@)]
           IN  top \in Activation /\ top.rest = Top(t).rest /\ top.at = "del"
    BY <2>1, Take DEF Activation
  <2>6. LET top == [Top(t) EXCEPT !.at = "dels", !.todo = dying]
        IN  top \in Activation /\ top.rest = Top(t).rest /\ top.at = "dels"
    BY <2>1 DEF Activation, TypeOK
  <2>5. \E top \in Activation : /\ top.rest = Top(t).rest /\ Move(t, top)
                                /\ top.at \in Phase => Top(t).rest = <<>>
    <3>2. CASE \E u \in Thread : release_gil(t, u)
      <4>1. Top(t).rest = <<>>
        BY <1>6, <2>1, <3>2 DEF release_gil, Phase
      <4> QED
        BY <2>2, <3>2, <4>1 DEF release_gil, Goto
    <3>3. CASE next_del(t)
      BY <2>2, <2>4, <3>3 DEF next_del, Goto, Phase
    <3>4. CASE take_dying(t)
      BY <2>6, <3>4 DEF take_dying, Phase
    <3> QED
      BY <1>7, <3>2, <3>3, <3>4
  <2> QED
    BY <1>5, <2>1, <2>5
<1>8. ASSUME NEW t \in Thread, callback_returns(t)
      PROVE  RestEmpty' /\ Behind' /\ Kept
  <2>1. stack[t] # <<>> /\ Top(t) \in Activation
    BY <1>1, <1>8, TopActivation DEF callback_returns
  <2>2. Firing
    BY <1>8 DEF callback_returns, firing, Firing, Action
  <2>3. \A where \in {"poll", "dels", "actions"} :
           /\ [Top(t) EXCEPT !.at = where, !.what = None] \in Activation
           /\ [Top(t) EXCEPT !.at = where, !.what = None].rest = Top(t).rest
           /\ [Top(t) EXCEPT !.at = where, !.what = None].at = where
    BY <2>1 DEF Activation
  <2>4. Top(t).at = "handler" => Top(t).rest = <<>>
    BY <1>6, <2>1 DEF Phase
  <2>5. \E top \in Activation : /\ top.rest = Top(t).rest /\ Move(t, top)
                                /\ top.at \in Phase => Top(t).rest = <<>>
    BY <1>8, <2>3, <2>4 DEF callback_returns, Goto, Phase
  <2> QED
    BY <1>5, <2>1, <2>2, <2>5
<1>9. ASSUME NEW t \in Thread, callback_raises(t) \/ end_dispatch(t)
      PROVE  RestEmpty' /\ Behind' /\ Kept
  <2>1. stack[t] # <<>> /\ Pop(t) /\ Firing
    BY <1>9 DEF callback_raises, end_dispatch, firing, Firing
  <2>2. Top(t).rest = <<>>
    BY <1>6, <1>9, <2>1 DEF callback_raises, end_dispatch, Phase
  <2> QED
    BY <1>5, <2>1, <2>2
<1>10. ASSUME NEW t \in Thread, grab_actions(t)
       PROVE  RestEmpty' /\ Behind' /\ Kept
  <2>1. stack[t] # <<>> /\ Top(t) \in Activation /\ Top(t).rest = <<>>
    BY <1>1, <1>6, <1>10, TopActivation DEF grab_actions, Phase
  <2> DEFINE top == [Top(t) EXCEPT !.at = "actions", !.rest = queue]
  <2>2. top \in Activation /\ top.rest = queue /\ top.at \notin Phase
    BY <2>1 DEF Activation, Phase, TypeOK
  <2>3. Move(t, top) /\ storing = <<>> /\ queue' = <<>> /\ UNCHANGED <<storing, fired>>
    BY <1>10 DEF grab_actions
  <2> HIDE DEF top
  <2>4. TopRest(t, queue)
    BY <2>1, <2>2, <2>3, MoveRest
  <2>5. RestEmpty'
    BY <2>1, <2>2, <2>3, RestEmptyMove
  <2> QED
    BY <2>1, <2>3, <2>4, <2>5, ScheduledGrabbed
<1>11. ASSUME NEW t \in Thread, NEW a \in Action, NextAction(t, a),
              NEW top \in Activation, Move(t, top),
              top.rest = Tail(Top(t).rest), top.at \notin Phase, Runs(a)
       PROVE  RestEmpty' /\ Behind' /\ Kept
  <2>1. stack[t] # <<>> /\ Top(t).rest # <<>> /\ Head(Top(t).rest) = a /\ storing = <<>>
    BY <1>11 DEF NextAction
  <2>2. TopRest(t, Tail(Top(t).rest)) /\ RestEmpty'
    BY <1>11, <2>1, MoveRest, RestEmptyMove
  <2> QED
    BY <1>11, <2>1, <2>2, ScheduledTaken
<1>12. ASSUME NEW t \in Thread, user_del(t)
       PROVE  RestEmpty' /\ Behind' /\ Kept
  <2>1. /\ stack[t] # <<>> /\ Top(t) \in Activation /\ Top(t).at = "actions"
        /\ Top(t).rest # <<>> /\ NextAction(t, "del")
    BY <1>1, <1>12, TopActivation DEF user_del, NextAction
  <2> DEFINE top1 == [Top(t) EXCEPT !.rest = Tail(@)]
             top2 == [Top(t) EXCEPT !.at = "taking", !.rest = Tail(@)]
  <2>2. /\ top1 \in Activation /\ top1.rest = Tail(Top(t).rest) /\ top1.at \notin Phase
        /\ top2 \in Activation /\ top2.rest = Tail(Top(t).rest) /\ top2.at \notin Phase
    BY <2>1, Take DEF Activation, TypeOK, Phase
  <2>3. Move(t, top1) \/ Move(t, top2)
    BY <1>12 DEF user_del
  <2>4. Runs("del")
    BY <1>12 DEF user_del, Runs
  <2> HIDE DEF top1, top2
  <2> QED
    BY <1>11, <2>1, <2>2, <2>3, <2>4 DEF Action
<1>13. ASSUME NEW t \in Thread, frame_trace(t)
       PROVE  RestEmpty' /\ Behind' /\ Kept
  <2>1. /\ stack[t] # <<>> /\ Top(t) \in Activation /\ Top(t).at = "actions"
        /\ Top(t).rest # <<>> /\ NextAction(t, "trace")
    BY <1>1, <1>13, TopActivation DEF frame_trace, NextAction
  <2> DEFINE top1 == [Top(t) EXCEPT !.rest = Tail(@)]
             top2 == [top1 EXCEPT !.at = "trace"]
  <2>2. /\ top1 \in Activation /\ top1.rest = Tail(Top(t).rest) /\ top1.at \notin Phase
        /\ top2 \in Activation /\ top2.rest = Tail(Top(t).rest) /\ top2.at \notin Phase
    BY <2>1, Take DEF Activation, Phase
  <2>3. Move(t, top1) \/ Move(t, top2)
    BY <1>13 DEF frame_trace
  <2>4. Runs("trace")
    BY <1>13 DEF frame_trace, Runs
  <2> HIDE DEF top1, top2
  <2> QED
    BY <1>11, <2>1, <2>2, <2>3, <2>4 DEF Action
<1>14. ASSUME NEW t \in Thread, settrace(t) \/ enable_finalizers(t)
       PROVE  RestEmpty' /\ Behind' /\ Kept
  BY <1>2, <1>14, ScheduledKept DEF settrace, enable_finalizers, Action, Firing
<1>15. ASSUME NEW t \in Thread,
              \/ setcheckinterval(t) \/ disable_finalizers(t)
              \/ (\E s \in Sig : set_interrupt(t, s)) \/ (\E u \in Thread : external_call(t, u))
       PROVE  RestEmpty' /\ Behind' /\ Kept
  <2>1. stack' = stack /\ Firing
    BY <1>15 DEF setcheckinterval, disable_finalizers, set_interrupt, external_call, firing, Firing
  <2> QED
    BY <1>2, <2>1, ScheduledKept
<1>16. CASE Outside
  <2>1. ASSUME NEW s \in Sig, pushback(s)
        PROVE  RestEmpty' /\ Behind' /\ Kept
    BY <1>2, <2>1, ScheduledKept DEF pushback, signal_setflag_handler, pushback_occurred, pushback_counter,
                                  Stage, Firing
  <2>2. ASSUME NEW o \in Del, register_callback(o)
        PROVE  RestEmpty' /\ Behind' /\ Kept
    BY <1>2, <2>2, ScheduledKept DEF register_callback, Firing
  <2> QED
    BY <1>16, <2>1, <2>2 DEF Outside
<1>18. ASSUME NEW t \in Thread, fire_store(t)
       PROVE  RestEmpty' /\ Behind' /\ Kept
  BY <1>2, <1>18, ScheduledStored DEF fire_store
<1> QED
  BY <1>3, <1>4, <1>7, <1>8, <1>9, <1>10, <1>12, <1>13, <1>14, <1>15, <1>16, <1>17, <1>18
  DEF Next, Interpret, Program, Switch

(* An action that is marked and in no list is silenced for ever.  Unless a *)
(* trace function raises, none is but UserDelAction, and that one only     *)
(* where a fire() ends in which a finalizer ran.                           *)
THEOREM NoActionLost == "trace" \notin MayRaise /\ Spec => ActionsKept
<1>1. Init => RestEmpty /\ Behind
  BY DEF Init, RestEmpty, Behind
<1>2. SUFFICES ASSUME "trace" \notin MayRaise
               PROVE  Spec => ActionsKept
  OBVIOUS
<1>3. TypeOK /\ Once /\ RestEmpty /\ Behind /\ [Next]_vars => RestEmpty' /\ Behind' /\ [Kept]_vars
  BY <1>2, NextScheduled
<1>4. Spec => [][Kept]_vars
  BY <1>1, <1>3, OnceAlways, TypeCorrect, PTL DEF Spec
<1> QED
  BY <1>4 DEF ActionsKept, Kept

FiredScheduled == \A a \in Action : fired[a] => Scheduled(a)

(* So as long as no finalizer fires "del" inside a fire(), every marked    *)
(* action is in a list.                                                    *)
THEOREM NothingLost == "trace" \notin MayRaise /\ Spec => ([]~Overwriting => []FiredScheduled)
<1>1. Init => RestEmpty /\ Behind /\ FiredScheduled
  BY DEF Init, RestEmpty, Behind, FiredScheduled
<1>2. SUFFICES ASSUME "trace" \notin MayRaise
               PROVE  Spec => ([]~Overwriting => []FiredScheduled)
  OBVIOUS
<1>3. ASSUME TypeOK, Once, RestEmpty, Behind, FiredScheduled, ~Overwriting, [Next]_vars
      PROVE  RestEmpty' /\ Behind' /\ FiredScheduled'
  BY <1>2, <1>3, NextScheduled DEF FiredScheduled, Kept
<1> QED
  BY <1>1, <1>3, OnceAlways, TypeCorrect, PTL DEF Spec
=============================================================================
