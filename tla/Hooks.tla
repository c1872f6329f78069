------------------------------- MODULE Hooks -------------------------------
(***************************************************************************)
(* Hooks of the server renderers.  One list of hooks, in module variables, *)
(* serves whichever component is being called.  A component that sets its  *)
(* own state while it is called is called again, on top of the hooks it    *)
(* has; finishHooks clears the variables for the next component.           *)
(*                                                                         *)
(* A component is a sequence of instructions; each step is one of them.    *)
(* `calls' is the JavaScript stack as far as it consists of components: one*)
(* may call renderToString, here for a tree of a single component.         *)
(***************************************************************************)
EXTENDS Integers, SequencesExt

CONSTANTS
  Component,
  Body,              \* [Component -> Seq of the instructions below]
  ForwardRefs,       \* the components made with forwardRef
  RE_RENDER_LIMIT,
  MaxRenders,        \* bound: after so many no renderer comes to another component
  Null

ASSUME HooksAssumption ==
  /\ ForwardRefs \subseteq Component
  /\ RE_RENDER_LIMIT \in Nat \ {0} /\ MaxRenders \in Nat

VARIABLES
  currentlyRenderingComponent,   \* its identity, 0 for null
  hooks,                         \* the list from firstWorkInProgressHook on
  workInProgressHook,            \* the index in it, 0 for null
  didScheduleRenderPhaseUpdate,
  renderPhaseUpdates,            \* Seq([queue, action]): the map, in order
  numberOfReRenders,
  calls,                         \* components that are being called, innermost last
  identities,                    \* how many have been made
  last                           \* the last component that was over, and its result

hookVars == <<currentlyRenderingComponent, hooks, workInProgressHook,
              didScheduleRenderPhaseUpdate, renderPhaseUpdates, numberOfReRenders>>
vars == <<hookVars, calls, identities, last>>

\* Instructions.  `hook' counts the values the component has got from its hooks; it
\* dispatches or throws if that one has the value, or always if it is Null.
UseState(initial) == [do |-> "state", initial |-> initial]
UseMemo(hook)     == [do |-> "memo", hook |-> hook]
UseRef(initial)   == [do |-> "ref", initial |-> initial]
Dispatch(hook, value, action) ==
  [do |-> "dispatch", hook |-> hook, value |-> value, action |-> action]
ThrowIf(hook, value) == [do |-> "throw", hook |-> hook, value |-> value]
Render(c, catches) == [do |-> "render", component |-> c, catches |-> catches]

\* A reducer for which the order of actions matters, and what a memo computes.
Reduced(state, action) == (2 * state + action) % 8
Computed(value) == value + 10
-----------------------------------------------------------------------------
Call  == Last(calls)
Instr == Body[Call.component][Call.pc]
At(stage) == calls # <<>> /\ Call.stage = stage
AtInstr(whats) ==
  At("body") /\ Call.pc <= Len(Body[Call.component]) /\ Instr.do \in whats

Change(call) == calls' = [calls EXCEPT ![Len(calls)] = call]
Continue == Change([Call EXCEPT !.pc = @ + 1])
Raise    == Change([Call EXCEPT !.stage = "raise"])

\* The value a hook returned, and the queue that its dispatch function is bound to.
Got(value, queue) ==
  Change([Call EXCEPT !.pc = @ + 1, !.values = Append(@, value),
                      !.queues = Append(@, queue)])

\* Nothing is left of another component.
Clean ==
  /\ hooks = <<>> /\ workInProgressHook = 0 /\ ~didScheduleRenderPhaseUpdate
  /\ renderPhaseUpdates = <<>> /\ numberOfReRenders = 0

\* prepareToUseHooks, and the call of the component.
Prepare(c) ==
  /\ currentlyRenderingComponent' = identities + 1
  /\ identities' = identities + 1
  /\ UNCHANGED <<hooks, workInProgressHook, didScheduleRenderPhaseUpdate,
                 renderPhaseUpdates, numberOfReRenders>>

Frame(c) ==
  [ component |-> c, stage |-> "body", pc |-> 1, values |-> <<>>, queues |-> <<>>,
    again |-> FALSE, error |-> FALSE, clean |-> Clean ]

\* A renderer comes to a component.
RenderComponent(c) ==
  /\ calls = <<>> /\ identities < MaxRenders
  /\ Prepare(c)
  /\ calls' = <<Frame(c)>>
  /\ UNCHANGED last

\* A component calls renderToString.
RenderNested ==
  /\ AtInstr({"render"})
  /\ Prepare(Instr.component)
  /\ calls' = Append(calls, Frame(Instr.component))
  /\ UNCHANGED last
-----------------------------------------------------------------------------
\* createWorkInProgressHook takes the next hook of the list, or appends one.
NextHook == workInProgressHook + 1
Reused   == NextHook <= Len(hooks)
AtHook(whats) == AtInstr(whats) /\ currentlyRenderingComponent # 0
Mounts(whats) == AtHook(whats) /\ ~Reused /\ numberOfReRenders = 0

Mount(hook) ==
  /\ hooks' = Append(hooks, hook)
  /\ workInProgressHook' = NextHook
  /\ UNCHANGED <<currentlyRenderingComponent, didScheduleRenderPhaseUpdate,
                 renderPhaseUpdates, numberOfReRenders, identities, last>>

Reuse ==
  /\ workInProgressHook' = NextHook
  /\ UNCHANGED <<currentlyRenderingComponent, didScheduleRenderPhaseUpdate,
                 numberOfReRenders, identities, last>>

\* "Invalid hook call", or "Rendered more hooks than during the previous render".
HookThrows ==
  /\ AtInstr({"state", "memo", "ref"})
  /\ currentlyRenderingComponent = 0 \/ (~Reused /\ numberOfReRenders > 0)
  /\ Raise
  /\ UNCHANGED <<hookVars, identities, last>>

MountState ==
  /\ Mounts({"state"})
  /\ LET queue == <<currentlyRenderingComponent, NextHook>>
     IN  /\ Mount([is |-> "state", value |-> Instr.initial, queue |-> queue])
         /\ Got(Instr.initial, queue)

\* Mutant: an update stays in the map after it has been applied.
UpdatesKept(queue) == renderPhaseUpdates

\* renderPhaseUpdates.delete(queue)
UpdatesAfter(queue) == SelectSeq(renderPhaseUpdates, LAMBDA u : u.queue # queue)

\* useReducer of a hook that is there: its updates are applied on top of it.
UpdateState ==
  /\ AtHook({"state"}) /\ Reused /\ hooks[NextHook].is = "state"
  /\ LET hook    == hooks[NextHook]
         updates == SelectSeq(renderPhaseUpdates, LAMBDA u : u.queue = hook.queue)
         state   == FoldLeft(LAMBDA s, u : Reduced(s, u.action), hook.value, updates)
     IN  /\ hooks' = [hooks EXCEPT ![NextHook].value = state]
         /\ renderPhaseUpdates' = UpdatesAfter(hook.queue)
         /\ Got(state, hook.queue)
  /\ Reuse

MountMemo ==
  /\ Mounts({"memo"})
  /\ LET dep == Call.values[Instr.hook]
     IN  /\ Mount([is |-> "memo", value |-> Computed(dep), dep |-> dep])
         /\ Got(Computed(dep), Null)

UpdateMemo ==
  /\ AtHook({"memo"}) /\ Reused /\ hooks[NextHook].is = "memo"
  /\ LET dep   == Call.values[Instr.hook]
         value == IF hooks[NextHook].dep = dep THEN hooks[NextHook].value ELSE Computed(dep)
     IN  /\ hooks' = [hooks EXCEPT ![NextHook] = [@ EXCEPT !.value = value, !.dep = dep]]
         /\ Got(value, Null)
  /\ Reuse
  /\ UNCHANGED renderPhaseUpdates

MountRef ==
  /\ Mounts({"ref"})
  /\ Mount([is |-> "ref", value |-> Instr.initial])
  /\ Got(Instr.initial, Null)

\* useRef returns what is there, whatever hook it belongs to.
UpdateRef ==
  /\ AtHook({"ref"}) /\ Reused
  /\ Got(hooks[NextHook].value, Null)
  /\ Reuse
  /\ UNCHANGED <<hooks, renderPhaseUpdates>>

\* A state has no queue, or a memo no dependencies, in a hook of another kind.
WrongHook ==
  /\ AtHook({"state", "memo"}) /\ Reused /\ hooks[NextHook].is # Instr.do
  /\ Raise
  /\ Reuse
  /\ UNCHANGED <<hooks, renderPhaseUpdates>>
-----------------------------------------------------------------------------
Holds == Instr.value = Null \/ Call.values[Instr.hook] = Instr.value

\* dispatchAction, if the component's condition for it holds.
DispatchSkipped ==
  /\ AtInstr({"dispatch", "throw"}) /\ ~Holds
  /\ Continue
  /\ UNCHANGED <<hookVars, identities, last>>

DispatchRefused ==
  /\ AtInstr({"dispatch"}) /\ Holds /\ numberOfReRenders >= RE_RENDER_LIMIT
  /\ Raise
  /\ UNCHANGED <<hookVars, identities, last>>

\* An update of a component that is not the current one is ignored.
DispatchAction ==
  /\ AtInstr({"dispatch"}) /\ Holds /\ numberOfReRenders < RE_RENDER_LIMIT
  /\ LET queue == Call.queues[Instr.hook]
     IN  IF queue[1] = currentlyRenderingComponent
           THEN /\ didScheduleRenderPhaseUpdate' = TRUE
                /\ renderPhaseUpdates' =
                     Append(renderPhaseUpdates, [queue |-> queue, action |-> Instr.action])
           ELSE UNCHANGED <<didScheduleRenderPhaseUpdate, renderPhaseUpdates>>
  /\ Continue
  /\ UNCHANGED <<currentlyRenderingComponent, hooks, workInProgressHook,
                 numberOfReRenders, identities, last>>

\* The component throws an error or a promise.
Throw ==
  /\ AtInstr({"throw"}) /\ Holds
  /\ Raise
  /\ UNCHANGED <<hookVars, identities, last>>
-----------------------------------------------------------------------------
\* The component is over: its caller is a renderer of this turn, or a component.
Leave(result) ==
  /\ last' = [component |-> Call.component, result |-> result, clean |-> Call.clean]
  /\ LET outer == calls[Len(calls) - 1]
         stage == IF result = Null /\ ~Body[outer.component][outer.pc].catches
                    THEN "raise" ELSE "body"
     IN  calls' = IF Len(calls) = 1 THEN <<>>
                  ELSE [Front(calls) EXCEPT
                          ![Len(calls) - 1] = [outer EXCEPT !.stage = stage, !.pc = @ + 1]]
  /\ UNCHANGED identities

BodyEnds ==
  /\ At("body") /\ Call.pc > Len(Body[Call.component])
  /\ Change([Call EXCEPT !.stage = "finish"])
  /\ UNCHANGED <<hookVars, identities, last>>

\* The first call of a function component is made in a try block, whose finally
\* goes on with finishHooks.
FinallyFinishes ==
  /\ At("raise") /\ ~Call.again /\ Call.component \notin ForwardRefs
  /\ Change([Call EXCEPT !.stage = "finish", !.error = TRUE])
  /\ UNCHANGED <<hookVars, identities, last>>

\* Nothing catches what a later call or a forwardRef component throws.
Escape ==
  /\ At("raise") /\ (Call.again \/ Call.component \in ForwardRefs)
  /\ Leave(Null)
  /\ UNCHANGED hookVars

\* Mutant: calls are not counted.
ReRenderUncounted ==
  /\ At("finish") /\ didScheduleRenderPhaseUpdate
  /\ didScheduleRenderPhaseUpdate' = FALSE
  /\ workInProgressHook' = 0
  /\ Change([Call EXCEPT !.stage = "body", !.pc = 1, !.values = <<>>, !.queues = <<>>,
                         !.again = TRUE])
  /\ UNCHANGED <<currentlyRenderingComponent, hooks, renderPhaseUpdates,
                 numberOfReRenders, identities, last>>

\* finishHooks calls the component again, from the beginning of its list.
ReRender ==
  /\ At("finish") /\ didScheduleRenderPhaseUpdate
  /\ didScheduleRenderPhaseUpdate' = FALSE
  /\ numberOfReRenders' = numberOfReRenders + 1
  /\ workInProgressHook' = 0
  /\ Change([Call EXCEPT !.stage = "body", !.pc = 1, !.values = <<>>, !.queues = <<>>,
                         !.again = TRUE])
  /\ UNCHANGED <<currentlyRenderingComponent, hooks, renderPhaseUpdates, identities, last>>

\* Mutant: the current hook stays as it is.
ResetButHook ==
  /\ currentlyRenderingComponent' = 0
  /\ hooks' = <<>> /\ renderPhaseUpdates' = <<>>
  /\ numberOfReRenders' = 0
  /\ UNCHANGED <<didScheduleRenderPhaseUpdate, workInProgressHook>>

Reset ==
  /\ currentlyRenderingComponent' = 0
  /\ hooks' = <<>> /\ workInProgressHook' = 0 /\ renderPhaseUpdates' = <<>>
  /\ numberOfReRenders' = 0
  /\ UNCHANGED didScheduleRenderPhaseUpdate

FinishHooks ==
  /\ At("finish") /\ ~didScheduleRenderPhaseUpdate
  /\ Reset
  /\ Leave(IF Call.error THEN Null ELSE Call.values)
-----------------------------------------------------------------------------
Init ==
  /\ currentlyRenderingComponent = 0
  /\ hooks = <<>> /\ workInProgressHook = 0
  /\ didScheduleRenderPhaseUpdate = FALSE
  /\ renderPhaseUpdates = <<>> /\ numberOfReRenders = 0
  /\ calls = <<>> /\ identities = 0
  /\ last = [component |-> Null, result |-> Null, clean |-> TRUE]

Step ==
  \/ RenderNested
  \/ HookThrows \/ MountState \/ UpdateState \/ MountMemo \/ UpdateMemo
  \/ MountRef \/ UpdateRef \/ WrongHook
  \/ DispatchSkipped \/ DispatchRefused \/ DispatchAction \/ Throw
  \/ BodyEnds \/ FinallyFinishes \/ Escape \/ ReRender \/ FinishHooks

Next == Step \/ \E c \in Component : RenderComponent(c)

Spec     == Init /\ [][Next]_vars
FairSpec == Spec /\ WF_vars(Step)
-----------------------------------------------------------------------------
\* One list for one component: as many hooks as it has come to, each of its
\* queues its own; calls after the first are counted and limited.
TypeOK ==
  /\ currentlyRenderingComponent \in 0 .. identities
  /\ workInProgressHook \in 0 .. Len(hooks)
  /\ numberOfReRenders \in 0 .. RE_RENDER_LIMIT
  /\ \A i, j \in DOMAIN hooks :
       hooks[i].is = "state" /\ hooks[j].is = "state" /\ hooks[i].queue = hooks[j].queue => i = j
  /\ \A i \in DOMAIN calls :
       /\ calls[i].stage \in {"body", "raise", "finish"}
       /\ Len(calls[i].queues) = Len(calls[i].values)

\* What a component comes to if nothing else were ever rendered: it is called
\* until it sets no more state, each state with all updates in order, and fails
\* if any call does or the limit is reached.
Alone[c \in Component] ==
  LET Meets(acc, i) == i.value = Null \/ acc.values[i.hook] = i.value
      State(before, hook) ==
        FoldLeft(LAMBDA s, u : Reduced(s, u.action), before.values[hook],
                 SelectSeq(before.updates, LAMBDA u : u.hook = hook))
      After(acc, i, before, n) ==
        LET hook == Len(acc.values) + 1
        IN  CASE i.do = "state" ->
                   [acc EXCEPT !.values =
                      Append(@, IF n = 0 THEN i.initial ELSE State(before, hook))]
              [] i.do = "memo" -> [acc EXCEPT !.values = Append(@, Computed(acc.values[i.hook]))]
              [] i.do = "ref" -> [acc EXCEPT !.values = Append(@, i.initial)]
              [] i.do = "dispatch" /\ Meets(acc, i) ->
                   IF n = RE_RENDER_LIMIT THEN [acc EXCEPT !.error = TRUE]
                   ELSE [acc EXCEPT !.updates = Append(@, [hook |-> i.hook, action |-> i.action])]
              [] i.do = "throw" /\ Meets(acc, i) -> [acc EXCEPT !.error = TRUE]
              [] i.do = "render" ->
                   [acc EXCEPT !.error = ~i.catches /\ Alone[i.component] = Null]
              [] OTHER -> acc
      Start == [values |-> <<>>, updates |-> <<>>, error |-> FALSE]
      Pass(before, n) ==
        FoldLeft(LAMBDA acc, i : IF acc.error THEN acc ELSE After(acc, i, before, n),
                 Start, Body[c])
      passes[n \in 0 .. RE_RENDER_LIMIT] ==
        IF n = 0 THEN Pass(Start, 0)
        ELSE LET before == passes[n - 1]
             IN  IF before.error \/ before.updates = <<>> THEN before ELSE Pass(before, n)
  IN  IF passes[RE_RENDER_LIMIT].error THEN Null ELSE passes[RE_RENDER_LIMIT].values

HasHooks(c) == \E i \in DOMAIN Body[c] : Body[c][i].do \in {"state", "memo", "ref"}
Renders(c)  == \E i \in DOMAIN Body[c] : Body[c][i].do = "render"

\* A component that finds nothing left of another one comes to what it comes to
\* alone, whatever was rendered, failed or suspended before it and whatever it
\* renders itself, unless it has hooks and calls renderToString.
RendersAsAlone ==
  last.component # Null /\ last.clean /\ ~(HasHooks(last.component) /\ Renders(last.component))
    => last.result = Alone[last.component]

\* prepareToUseHooks: "The following should have already been reset".
AlreadyReset == calls = <<>> => Clean

\* Every component comes to an end, also one that sets state each time.
EveryRenderEnds == calls # <<>> ~> calls = <<>>
=============================================================================
