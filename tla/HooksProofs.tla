---------------------------- MODULE HooksProofs ----------------------------
(***************************************************************************)
(* The type invariant of Hooks, for all components, limits and numbers of  *)
(* renders.                                                                *)
(***************************************************************************)
EXTENDS Hooks, DataLemmas

HookShape(h) ==
  \/ h \in [is : {"state"}, value : {h.value}, queue : {h.queue}]
  \/ h \in [is : {"memo"}, value : {h.value}, dep : {h.dep}]
  \/ h \in [is : {"ref"}, value : {h.value}]

CallShape(c) ==
  /\ c \in [ component : {c.component}, stage : {"body", "raise", "finish"}, pc : {c.pc},
             values : {c.values}, queues : {c.queues}, again : {c.again},
             error : {c.error}, clean : {c.clean} ]
  /\ IsSeq(c.values) /\ IsSeq(c.queues) /\ Len(c.queues) = Len(c.values)

\* A queue is told apart from others by the place of its hook in the list, ...
HooksOK ==
  /\ IsSeq(hooks)
  /\ \A i \in DOMAIN hooks : HookShape(hooks[i]) /\ (hooks[i].is = "state" => hooks[i].queue[2] = i)
  /\ workInProgressHook \in 0 .. Len(hooks)

CallsOK == IsSeq(calls) /\ \A i \in DOMAIN calls : CallShape(calls[i])

\* ... and an update is only accepted when one more call is allowed.
CountOK ==
  /\ identities \in Nat /\ currentlyRenderingComponent \in 0 .. identities
  /\ numberOfReRenders \in 0 .. RE_RENDER_LIMIT
  /\ didScheduleRenderPhaseUpdate \in BOOLEAN
  /\ didScheduleRenderPhaseUpdate => numberOfReRenders < RE_RENDER_LIMIT

HooksInv == HooksOK /\ CallsOK /\ CountOK
-----------------------------------------------------------------------------
LEMMA CallIsCall ==
  ASSUME CallsOK, NEW stage, At(stage)
  PROVE  /\ Len(calls) \in DOMAIN calls /\ Call = calls[Len(calls)] /\ CallShape(Call)
         /\ Call.stage = stage /\ Len(calls) \in Nat /\ Len(calls) > 0
<1>1. PICK S : calls \in Seq(S)
  BY DEF CallsOK, IsSeq
<1>2. Len(calls) \in DOMAIN calls /\ Len(calls) \in Nat /\ Len(calls) > 0
  BY <1>1 DEF At
<1>3. Call = calls[Len(calls)]
  BY DEF Call, Last
<1> QED BY <1>2, <1>3 DEF CallsOK, At

LEMMA ChangeKeeps ==
  ASSUME CallsOK, NEW stage, At(stage), NEW call, CallShape(call), Change(call)
  PROVE  CallsOK'
<1>1. Len(calls) \in DOMAIN calls /\ IsSeq(calls)
  BY CallIsCall DEF CallsOK
<1>2. calls' = [calls EXCEPT ![Len(calls)] = call]
  BY DEF Change
<1> QED BY <1>1, <1>2, ExceptIsSeq DEF CallsOK

LEMMA ContinueKeeps ==
  ASSUME CallsOK, NEW stage, At(stage), Continue
  PROVE  CallsOK'
<1> DEFINE c == [Call EXCEPT !.pc = @ + 1]
<1>1. CallShape(Call)
  BY CallIsCall
<1>2. CallShape(c)
  BY <1>1 DEF CallShape
<1> QED BY <1>2, ChangeKeeps DEF Continue

LEMMA RaiseKeeps ==
  ASSUME CallsOK, NEW stage, At(stage), Raise
  PROVE  CallsOK'
<1> DEFINE c == [Call EXCEPT !.stage = "raise"]
<1>1. CallShape(Call)
  BY CallIsCall
<1>2. CallShape(c)
  BY <1>1 DEF CallShape
<1> QED BY <1>2, ChangeKeeps DEF Raise

LEMMA GotKeeps ==
  ASSUME CallsOK, NEW stage, At(stage), NEW value, NEW queue, Got(value, queue)
  PROVE  CallsOK'
<1> DEFINE values == Append(Call.values, value)
           queues == Append(Call.queues, queue)
           c == [Call EXCEPT !.pc = @ + 1, !.values = values, !.queues = queues]
<1>1. CallShape(Call)
  BY CallIsCall
<1>2. IsSeq(values) /\ IsSeq(queues) /\ Len(values) = Len(queues)
  BY <1>1, AppendIsSeq DEF CallShape
<1> HIDE DEF values, queues
<1>3. CallShape(c)
  BY <1>1, <1>2 DEF CallShape
<1>4. Change(c)
  BY DEF Got, values, queues
<1> QED BY <1>3, <1>4, ChangeKeeps

LEMMA FrameShape == ASSUME NEW c PROVE CallShape(Frame(c))
<1>1. IsSeq(<<>>)
  BY DEF IsSeq
<1> QED BY <1>1 DEF CallShape, Frame

\* The component that is over leaves, and the one that called it goes on.
LEMMA LeaveKeeps ==
  ASSUME CallsOK, NEW stage, At(stage), NEW result, Leave(result)
  PROVE  CallsOK'
<1>1. Len(calls) \in Nat /\ Len(calls) > 0 /\ Len(calls) \in DOMAIN calls
  BY CallIsCall
<1>2. CASE Len(calls) = 1
  BY <1>2 DEF Leave, CallsOK, IsSeq
<1>3. CASE Len(calls) # 1
  <2> DEFINE n == Len(calls) - 1
  <2>0. \A m \in Nat : m > 0 /\ m # 1 => m - 1 \in 1 .. m /\ m - 1 \in Nat /\ m - 1 \in 1 .. m - 1
    OBVIOUS
  <2>1. n \in 1 .. Len(calls) /\ n \in Nat /\ n \in 1 .. n
    BY <1>1, <1>3, <2>0
  <2> DEFINE outer == calls[n]
             next  == IF result = Null /\ ~Body[outer.component][outer.pc].catches
                        THEN "raise" ELSE "body"
             c     == [outer EXCEPT !.stage = next, !.pc = @ + 1]
  <2>2. PICK S : calls \in Seq(S)
    BY DEF CallsOK, IsSeq
  <2>3. /\ Front(calls) \in Seq(S) /\ Len(Front(calls)) = n
        /\ \A i \in 1 .. n : Front(calls)[i] = calls[i]
    BY <2>2, <2>1 DEF Front
  <2>4. IsSeq(Front(calls)) /\ DOMAIN Front(calls) = 1 .. n
    BY <2>3 DEF IsSeq
  <2>5. CallShape(outer) /\ \A i \in 1 .. n : CallShape(Front(calls)[i])
    BY <2>2, <2>1, <2>3 DEF CallsOK
  <2>6. next \in {"raise", "body"}
    OBVIOUS
  <2>7. calls' = [Front(calls) EXCEPT ![n] = c]
    BY <1>3 DEF Leave
  <2> HIDE DEF next
  <2>8. CallShape(c)
    BY <2>5, <2>6 DEF CallShape
  <2> HIDE DEF c, n
  <2>9. /\ IsSeq(calls') /\ DOMAIN calls' = 1 .. n /\ calls'[n] = c
        /\ \A i \in 1 .. n : i # n => calls'[i] = Front(calls)[i]
    BY <2>1, <2>4, <2>7, ExceptIsSeq
  <2> QED BY <2>5, <2>8, <2>9 DEF CallsOK
<1> QED BY <1>2, <1>3
-----------------------------------------------------------------------------
LEMMA MountKeeps ==
  ASSUME HooksOK, ~Reused, NEW hook, HookShape(hook),
         hook.is = "state" => hook.queue[2] = NextHook, Mount(hook)
  PROVE  HooksOK'
<1>1. NextHook = Len(hooks) + 1 /\ Len(hooks) \in Nat
  BY AppendIsSeq DEF HooksOK, Reused, NextHook
<1>2. hooks' = Append(hooks, hook) /\ workInProgressHook' = Len(hooks) + 1
  BY <1>1 DEF Mount
<1> QED BY <1>1, <1>2, AppendIsSeq DEF HooksOK

\* A hook that is there keeps its queue.
LEMMA ReuseKeeps ==
  ASSUME HooksOK, Reused, workInProgressHook' = NextHook, NEW hook, HookShape(hook),
         hooks' = [hooks EXCEPT ![NextHook] = hook],
         hook.is = "state" => hook.queue[2] = NextHook
  PROVE  HooksOK'
<1>1. NextHook \in DOMAIN hooks /\ NextHook \in 1 .. Len(hooks)
  <2>1. PICK S : hooks \in Seq(S)
    BY DEF HooksOK, IsSeq
  <2> QED BY <2>1 DEF HooksOK, Reused, NextHook
<1>2. /\ IsSeq(hooks') /\ Len(hooks') = Len(hooks) /\ DOMAIN hooks' = DOMAIN hooks
      /\ hooks'[NextHook] = hook /\ \A i \in DOMAIN hooks : i # NextHook => hooks'[i] = hooks[i]
  <2> DEFINE place == NextHook
             after == [hooks EXCEPT ![place] = hook]
  <2>1. IsSeq(hooks) /\ place \in DOMAIN hooks
    BY <1>1 DEF HooksOK
  <2> HIDE DEF place
  <2>2. /\ IsSeq(after) /\ Len(after) = Len(hooks) /\ DOMAIN after = DOMAIN hooks
        /\ after[place] = hook /\ \A i \in DOMAIN hooks \ {place} : after[i] = hooks[i]
    BY <2>1, ExceptIsSeq, Zenon
  <2>3. hooks' = after
    BY DEF place
  <2> HIDE DEF after
  <2> QED BY <2>2, <2>3 DEF place
<1>3. workInProgressHook' \in 0 .. Len(hooks')
  BY <1>1, <1>2
<1>4. \A i \in DOMAIN hooks' :
        HookShape(hooks'[i]) /\ (hooks'[i].is = "state" => hooks'[i].queue[2] = i)
  <2> SUFFICES ASSUME NEW i \in DOMAIN hooks
               PROVE  HookShape(hooks'[i]) /\ (hooks'[i].is = "state" => hooks'[i].queue[2] = i)
    BY <1>2
  <2>1. HookShape(hooks[i]) /\ (hooks[i].is = "state" => hooks[i].queue[2] = i)
    BY DEF HooksOK
  <2>2. hooks'[i] = IF i = NextHook THEN hook ELSE hooks[i]
    BY <1>2
  <2> QED BY <2>1, <2>2
<1> QED BY <1>2, <1>3, <1>4 DEF HooksOK

LEMMA ReusedHook ==
  ASSUME HooksOK, Reused
  PROVE  /\ HookShape(hooks[NextHook])
         /\ hooks[NextHook].is = "state" => hooks[NextHook].queue[2] = NextHook
         /\ NextHook \in 1 .. Len(hooks)
<1>1. PICK S : hooks \in Seq(S)
  BY DEF HooksOK, IsSeq
<1> QED BY <1>1 DEF HooksOK, Reused, NextHook
-----------------------------------------------------------------------------
LEMMA InitHooks == Init => HooksInv
<1> SUFFICES ASSUME Init PROVE HooksInv
  OBVIOUS
<1>1. IsSeq(<<>>) /\ DOMAIN <<>> = {} /\ Len(<<>>) = 0
  BY DEF IsSeq
<1>2. hooks = <<>> /\ calls = <<>> /\ workInProgressHook = 0
  BY DEF Init
<1>3. HooksOK
  <2>1. workInProgressHook \in 0 .. Len(hooks)
    BY <1>1, <1>2
  <2> QED BY <1>1, <1>2, <2>1 DEF HooksOK
<1>4. CallsOK
  BY <1>1, <1>2 DEF CallsOK
<1>5. CountOK
  <2>1. 0 \in 0 .. RE_RENDER_LIMIT /\ 0 < RE_RENDER_LIMIT /\ 0 \in 0 .. 0
    BY HooksAssumption
  <2>2. /\ identities = 0 /\ currentlyRenderingComponent = 0 /\ numberOfReRenders = 0
        /\ didScheduleRenderPhaseUpdate = FALSE
    BY DEF Init
  <2> QED BY <2>1, <2>2 DEF CountOK
<1> QED BY <1>3, <1>4, <1>5 DEF HooksInv

LEMMA CalledHooks ==
  ASSUME HooksInv, (\E c \in Component : RenderComponent(c)) \/ RenderNested
  PROVE  HooksInv'
<1>1. PICK c : /\ Prepare(c)
               /\ calls' = <<Frame(c)>> \/ calls' = Append(calls, Frame(c))
  BY DEF RenderComponent, RenderNested
<1>2. CallsOK'
  <2>1. CASE calls' = <<Frame(c)>>
    <3>1. <<Frame(c)>> \in Seq({Frame(c)}) /\ DOMAIN <<Frame(c)>> = {1}
      OBVIOUS
    <3>2. IsSeq(calls')
      BY <2>1, <3>1 DEF IsSeq
    <3> QED BY <2>1, <3>1, <3>2, FrameShape DEF CallsOK
  <2>2. CASE calls' = Append(calls, Frame(c))
    BY <2>2, FrameShape, AppendIsSeq DEF CallsOK, HooksInv
  <2> QED BY <1>1, <2>1, <2>2
<1>3. HooksOK' /\ CountOK'
  BY <1>1 DEF Prepare, HooksInv, HooksOK, CountOK
<1> QED BY <1>2, <1>3 DEF HooksInv

\* A hook is added to the list, or the next one of it is taken.
LEMMA HookedHooks ==
  ASSUME HooksInv,
         \/ MountState \/ UpdateState \/ MountMemo \/ UpdateMemo
         \/ MountRef \/ UpdateRef \/ WrongHook
  PROVE  HooksInv'
<1> USE DEF HooksInv
<1>1. CountOK'
  <2>1. (\E hook : Mount(hook)) \/ Reuse
    BY DEF MountState, UpdateState, MountMemo, UpdateMemo, MountRef, UpdateRef, WrongHook
  <2>2. UNCHANGED <<currentlyRenderingComponent, didScheduleRenderPhaseUpdate,
                    numberOfReRenders, identities>>
    BY <2>1 DEF Mount, Reuse
  <2> QED BY <2>2 DEF CountOK
<1>2. CASE MountState
  <2> DEFINE queue == <<currentlyRenderingComponent, NextHook>>
             hook  == [is |-> "state", value |-> Instr.initial, queue |-> queue]
  <2>1. ~Reused /\ Mount(hook) /\ Got(Instr.initial, queue) /\ At("body")
    BY <1>2 DEF MountState, Mounts, AtHook, AtInstr
  <2>2. HookShape(hook) /\ hook.queue[2] = NextHook
    BY DEF HookShape
  <2> QED BY <1>1, <2>1, <2>2, MountKeeps, GotKeeps
<1>3. CASE MountMemo
  <2> DEFINE dep  == Call.values[Instr.hook]
             hook == [is |-> "memo", value |-> Computed(dep), dep |-> dep]
  <2>1. ~Reused /\ Mount(hook) /\ Got(Computed(dep), Null) /\ At("body")
    BY <1>3 DEF MountMemo, Mounts, AtHook, AtInstr
  <2>2. HookShape(hook) /\ hook.is = "memo"
    BY DEF HookShape
  <2> QED BY <1>1, <2>1, <2>2, MountKeeps, GotKeeps
<1>4. CASE MountRef
  <2> DEFINE hook == [is |-> "ref", value |-> Instr.initial]
  <2>1. ~Reused /\ Mount(hook) /\ Got(Instr.initial, Null) /\ At("body")
    BY <1>4 DEF MountRef, Mounts, AtHook, AtInstr
  <2>2. HookShape(hook) /\ hook.is = "ref"
    BY DEF HookShape
  <2> QED BY <1>1, <2>1, <2>2, MountKeeps, GotKeeps
<1>5. CASE UpdateState
  <2>1. PICK state, queue :
          /\ hooks' = [hooks EXCEPT ![NextHook].value = state]
          /\ Got(state, queue)
    BY <1>5 DEF UpdateState
  <2> DEFINE hook == [hooks[NextHook] EXCEPT !.value = state]
  <2>2. Reused /\ At("body") /\ workInProgressHook' = NextHook /\ hooks[NextHook].is = "state"
    BY <1>5 DEF UpdateState, AtHook, AtInstr, Reuse
  <2>3. HookShape(hooks[NextHook]) /\ hooks[NextHook].queue[2] = NextHook
    BY <2>2, ReusedHook
  <2>4. HookShape(hook) /\ hook.queue[2] = NextHook
    BY <2>2, <2>3 DEF HookShape
  <2>5. hooks' = [hooks EXCEPT ![NextHook] = hook]
    BY <2>1
  <2> HIDE DEF hook
  <2> QED BY <1>1, <2>1, <2>2, <2>4, <2>5, ReuseKeeps, GotKeeps
<1>6. CASE UpdateMemo
  <2>1. PICK value, dep :
          /\ hooks' = [hooks EXCEPT ![NextHook] = [@ EXCEPT !.value = value, !.dep = dep]]
          /\ Got(value, Null)
    BY <1>6 DEF UpdateMemo
  <2> DEFINE hook == [hooks[NextHook] EXCEPT !.value = value, !.dep = dep]
  <2>2. Reused /\ At("body") /\ workInProgressHook' = NextHook /\ hooks[NextHook].is = "memo"
    BY <1>6 DEF UpdateMemo, AtHook, AtInstr, Reuse
  <2>3. HookShape(hooks[NextHook])
    BY <2>2, ReusedHook
  <2>4. HookShape(hook) /\ hook.is = "memo"
    BY <2>2, <2>3 DEF HookShape
  <2>5. hooks' = [hooks EXCEPT ![NextHook] = hook]
    BY <2>1
  <2> HIDE DEF hook
  <2> QED BY <1>1, <2>1, <2>2, <2>4, <2>5, ReuseKeeps, GotKeeps
<1>7. CASE UpdateRef
  <2>1. /\ Reused /\ At("body") /\ workInProgressHook' = NextHook /\ hooks' = hooks
        /\ Got(hooks[NextHook].value, Null)
    BY <1>7 DEF UpdateRef, AtHook, AtInstr, Reuse
  <2>2. HooksOK'
    BY <2>1, ReusedHook DEF HooksOK
  <2> QED BY <1>1, <2>1, <2>2, GotKeeps
<1>8. CASE WrongHook
  <2>1. Reused /\ At("body") /\ workInProgressHook' = NextHook /\ hooks' = hooks /\ Raise
    BY <1>8 DEF WrongHook, AtHook, AtInstr, Reuse
  <2>2. HooksOK'
    BY <2>1, ReusedHook DEF HooksOK
  <2> QED BY <1>1, <2>1, <2>2, RaiseKeeps
<1> QED BY <1>2, <1>3, <1>4, <1>5, <1>6, <1>7, <1>8

\* Steps in the body of a component that leave the list alone.
LEMMA BodyHooks ==
  ASSUME HooksInv,
         \/ HookThrows \/ DispatchSkipped \/ DispatchRefused \/ DispatchAction \/ Throw
  PROVE  HooksInv'
<1>1. HooksOK'
  BY DEF HookThrows, DispatchSkipped, DispatchRefused, DispatchAction, Throw, hookVars,
         HooksInv, HooksOK
<1>2. CountOK'
  <2>1. CASE DispatchAction
    BY <2>1, HooksAssumption DEF DispatchAction, HooksInv, CountOK
  <2>2. CASE HookThrows \/ DispatchSkipped \/ DispatchRefused \/ Throw
    BY <2>2 DEF HookThrows, DispatchSkipped, DispatchRefused, Throw, hookVars, HooksInv, CountOK
  <2> QED BY <2>1, <2>2
<1>3. At("body") /\ (Continue \/ Raise)
  BY DEF HookThrows, DispatchSkipped, DispatchRefused, DispatchAction, Throw, AtInstr
<1>4. CallsOK'
  BY <1>3, ContinueKeeps, RaiseKeeps DEF HooksInv
<1> QED BY <1>1, <1>2, <1>4 DEF HooksInv

\* The end of a component: its finally block, finishHooks, or an error that escapes.
LEMMA EndedHooks ==
  ASSUME HooksInv, BodyEnds \/ FinallyFinishes \/ Escape \/ ReRender \/ FinishHooks
  PROVE  HooksInv'
<1>1. CASE BodyEnds \/ FinallyFinishes
  <2> DEFINE c == IF BodyEnds THEN [Call EXCEPT !.stage = "finish"]
                  ELSE [Call EXCEPT !.stage = "finish", !.error = TRUE]
  <2>1. PICK stage : At(stage) /\ Change(c)
    BY <1>1 DEF BodyEnds, FinallyFinishes
  <2>2. CallShape(Call)
    BY <2>1, CallIsCall DEF HooksInv
  <2>3. CallShape(c)
    BY <2>2 DEF CallShape
  <2>4. CallsOK'
    BY <2>1, <2>3, ChangeKeeps DEF HooksInv
  <2> QED BY <1>1, <2>4 DEF BodyEnds, FinallyFinishes, hookVars, HooksInv, HooksOK, CountOK
<1>2. CASE Escape
  <2>1. CallsOK' /\ UNCHANGED <<hookVars, identities>>
    BY <1>2, LeaveKeeps DEF Escape, Leave, HooksInv
  <2> QED BY <2>1 DEF hookVars, HooksInv, HooksOK, CountOK
<1>3. CASE ReRender
  <2> DEFINE c == [Call EXCEPT !.stage = "body", !.pc = 1, !.values = <<>>, !.queues = <<>>,
                               !.again = TRUE]
  <2>1. At("finish") /\ Change(c)
    BY <1>3 DEF ReRender
  <2>2. CallShape(Call) /\ IsSeq(<<>>)
    BY <2>1, CallIsCall DEF HooksInv, IsSeq
  <2>3. CallShape(c)
    BY <2>2 DEF CallShape
  <2>4. CallsOK'
    BY <2>1, <2>3, ChangeKeeps DEF HooksInv
  <2>5. CountOK'
    <3>1. /\ numberOfReRenders \in 0 .. RE_RENDER_LIMIT /\ numberOfReRenders < RE_RENDER_LIMIT
          /\ ~didScheduleRenderPhaseUpdate' /\ didScheduleRenderPhaseUpdate' \in BOOLEAN
          /\ numberOfReRenders' = numberOfReRenders + 1
          /\ UNCHANGED <<identities, currentlyRenderingComponent>>
      BY <1>3 DEF ReRender, HooksInv, CountOK
    <3>2. numberOfReRenders' \in 0 .. RE_RENDER_LIMIT
      BY <3>1, HooksAssumption
    <3> QED BY <3>1, <3>2 DEF HooksInv, CountOK
  <2>6. HooksOK'
    <3>1. PICK S : hooks \in Seq(S)
      BY DEF HooksInv, HooksOK, IsSeq
    <3> QED BY <1>3, <3>1 DEF ReRender, HooksInv, HooksOK
  <2> QED BY <2>4, <2>5, <2>6 DEF HooksInv
<1>4. CASE FinishHooks
  <2>1. CallsOK' /\ Reset /\ UNCHANGED identities
    BY <1>4, LeaveKeeps DEF FinishHooks, Leave, HooksInv
  <2>2. HooksOK'
    BY <2>1 DEF Reset, HooksOK, IsSeq
  <2>3. CountOK'
    BY <2>1, HooksAssumption DEF Reset, HooksInv, CountOK
  <2> QED BY <2>1, <2>2, <2>3 DEF HooksInv
<1> QED BY <1>1, <1>2, <1>3, <1>4

LEMMA NextHooks == HooksInv /\ [Next]_vars => HooksInv'
<1> SUFFICES ASSUME HooksInv, [Next]_vars PROVE HooksInv'
  OBVIOUS
<1>1. CASE UNCHANGED vars
  BY <1>1 DEF vars, hookVars, HooksInv, HooksOK, CallsOK, CountOK
<1> QED BY <1>1, CalledHooks, HookedHooks, BodyHooks, EndedHooks DEF Next, Step

\* The one list of hooks is never shared out wrongly: two states in it have queues
\* of their own, it is never left past its end, and no component is called again
\* more often than RE_RENDER_LIMIT, whatever components do in whatever order.
THEOREM TypeCorrect == Spec => []TypeOK
<1>1. HooksInv => TypeOK
  <2> SUFFICES ASSUME HooksInv PROVE TypeOK
    OBVIOUS
  <2>1. \A i \in DOMAIN calls : /\ calls[i].stage \in {"body", "raise", "finish"}
                                /\ Len(calls[i].queues) = Len(calls[i].values)
    BY DEF HooksInv, CallsOK, CallShape
  <2> QED BY <2>1 DEF HooksInv, HooksOK, CountOK, TypeOK
<1> QED BY <1>1, InitHooks, NextHooks, PTL DEF Spec
=============================================================================
