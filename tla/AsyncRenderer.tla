--------------------------- MODULE AsyncRenderer ---------------------------
(***************************************************************************)
(* ReactDOMServerRendererAsync.  Components suspend by throwing the promise*)
(* of their data; a suspended component is rendered later by a child       *)
(* renderer that runs with a copy of its parent's context.  This module is *)
(* the renderer; AsyncRequests has the callbacks and clients around it.    *)
(*                                                                         *)
(* JavaScript runs one piece of code at a time: `running' is the renderer  *)
(* whose readAsync (stage "loop") or flattenAndResolveQueue (stage         *)
(* "flatten") is on the stack, 0 when none is.  Each turn of the loop is a *)
(* step; anything else has to wait until running = 0.                      *)
(***************************************************************************)
EXTENDS PartialRenderer

CONSTANTS
  Request,      \* the calls that the server makes
  Groups,       \* the sets of calls that it makes in one life
  Root,         \* [Request -> Element]: what each of them renders
  Streams,      \* the requests made with renderToNodeStreamAsync
  Static,       \* the requests that ask for static markup
  Chunk,        \* the number of bytes a stream asks its renderer for
  FailingData   \* the data whose fetch may fail

ASSUME RequestsAssumption ==
  /\ Root \in [Request -> Element] /\ Groups \subseteq SUBSET Request
  /\ Streams \subseteq Request /\ Static \subseteq Request
  /\ Chunk \in Nat \ {0}
  /\ FailingData \subseteq Data

VARIABLES
  promises,    \* the promises made for suspended components and boundaries
  renderers,   \* every ReactDOMServerRendererAsync made so far
  running,     \* the renderer that is running, 0 for none
  stage,       \* "loop" or "flatten": where it is
  requests     \* what the caller of each request has got

vars == <<freeList, slot, data, promises, renderers, running, stage, requests>>

Me      == renderers[running]
Top     == Last(Me.stack)
Head1   == Me.queue[1][1].markup
Become(renderer) == renderers' = [renderers EXCEPT ![running] = renderer]

\* `length < bytes' in the loop and in flattenAndResolveQueue.
Full(renderer, markup) == renderer.bounded /\ Len(markup) >= Chunk
-----------------------------------------------------------------------------
\* Entries of outQueue: a string, or the promise of one.
String(markup) == [markup |-> markup, promise |-> 0]
Promised(p)    == [markup |-> <<>>, promise |-> p]

\* pushToOutQueue on outQueue[depth].
Pushed(queue, depth, entry) ==
  LET entries == queue[depth + 1]
      last    == entries[Len(entries)]
  IN  [queue EXCEPT ![depth + 1] =
         IF entry.promise # 0 \/ last.promise # 0
           THEN Append(entries, entry)
           ELSE [entries EXCEPT ![Len(entries)] = String(last.markup \o entry.markup)]]

\* The loop after renderEventually: a first result at this depth opens a list.
Emit(renderer, entry) ==
  LET queue == IF Len(renderer.queue) <= renderer.depth
                 THEN Append(renderer.queue, <<String(<<>>)>>) ELSE renderer.queue
  IN  [renderer EXCEPT !.queue = Pushed(queue, renderer.depth, entry)]

EmitResult(result) == Emit(result.renderer, String(result.markup))

\* destroy: restores the contexts; a child leaves the thread ID to its parent.
Destroy(r) ==
  LET renderer == renderers[r]
  IN  IF renderer.exhausted
        THEN UNCHANGED <<renderers, slot, freeList>>
        ELSE /\ renderers' = [renderers EXCEPT ![r].exhausted = TRUE]
             /\ slot' = Cleared(renderer)
             /\ freeList' = IF renderer.child THEN freeList
                            ELSE AfterFree(freeList, renderer.threadID)

\* The constructor.
NewAsyncRenderer(e, isStatic, bounded) ==
  NewRenderer(e, isStatic)
    @@ [ queue |-> <<<<String(<<>>)>>>>, child |-> FALSE, bounded |-> bounded,
         read |-> "none", result |-> <<>> ]

\* Mutant: contextIndex is not copied.
ChildRendererAtTop(e, isStatic, clone) ==
  [ NewAsyncRenderer(e, isStatic, FALSE) EXCEPT
      !.threadID = clone.threadID, !.select = clone.select,
      !.afterText = clone.afterText, !.contextStack = clone.contextStack,
      !.contextValueStack = clone.contextValueStack, !.child = TRUE ]

\* The constructor with a renderContext: super() has allocated an ID before it
\* is overwritten with the parent's.
ChildRenderer(e, isStatic, clone) ==
  [ NewAsyncRenderer(e, isStatic, FALSE) EXCEPT
      !.threadID = clone.threadID, !.select = clone.select,
      !.afterText = clone.afterText, !.providers = clone.providers,
      !.contextStack = clone.contextStack,
      !.contextValueStack = clone.contextValueStack, !.child = TRUE ]

\* getClonedRenderContext
ClonedContext(renderer) ==
  [ threadID |-> renderer.threadID, select |-> renderer.select,
    afterText |-> renderer.afterText, providers |-> renderer.providers,
    contextStack |-> renderer.contextStack,
    contextValueStack |-> renderer.contextValueStack,
    values |-> [i \in DOMAIN renderer.contextStack |->
                  IF renderer.contextStack[i] = None THEN None
                  ELSE slot[renderer.contextStack[i]][renderer.threadID + 1]] ]

\* Mutant: contexts stay as they are when a child renderer is made.
ReinstatedNothing(clone) == slot

\* The loop at the end of that constructor: contexts are mutated back to what
\* they were, in the order of the stack.
Reinstated(clone) ==
  [c \in Context |->
     LET mine == { i \in DOMAIN clone.contextStack : clone.contextStack[i] = c }
     IN  IF mine = {} THEN slot[c]
         ELSE [slot[c] EXCEPT ![clone.threadID + 1] =
                 clone.values[CHOOSE i \in mine : \A j \in mine : i >= j]]]
-----------------------------------------------------------------------------
InLoop == running # 0 /\ stage = "loop" /\ ~Me.exhausted /\ ~Full(Me, Head1)

\* `child' is frame.children[frame.childIndex++].
AtChild == InLoop /\ Me.stack # <<>> /\ Top.rest # <<>>
Child   == Head(Top.rest)
Target  == Resolved(Child)

\* Mutant: a suspended component takes its later siblings with it.
NextUnlessSuspended ==
  [Me EXCEPT !.stack[Len(Me.stack)].rest = IF Target.is = "promise" THEN <<>> ELSE Tail(@)]

Next1 == [Me EXCEPT !.stack[Len(Me.stack)].rest = Tail(@)]

RenderText ==
  /\ AtChild /\ Kind(Child) = "text"
  /\ Become(EmitResult(TextRendered(Next1, Child)))
  /\ UNCHANGED <<freeList, slot, data, promises, running, stage, requests>>

\* A component that returned null.
RenderNothing ==
  /\ AtChild /\ Target.is = "null"
  /\ Become(Emit(Next1, String(<<>>)))
  /\ UNCHANGED <<freeList, slot, data, promises, running, stage, requests>>

AtElement(kinds) == AtChild /\ Target.is = "element" /\ Kind(Target.of) \in kinds

RenderHost ==
  /\ AtElement({"host", "select", "option"})
  /\ LET isRoot == Len(Me.stack) = 1 /\ ~Me.child /\ ~Me.static
     IN  Become(EmitResult(HostRendered(Next1, Target.of, isRoot)))
  /\ UNCHANGED <<freeList, slot, data, promises, running, stage, requests>>

RenderFragment ==
  /\ AtElement({"fragment", "text"}) /\ Kind(Child) # "text"
  /\ Become(EmitResult(FragmentRendered(Next1, Target.of)))
  /\ UNCHANGED <<freeList, slot, data, promises, running, stage, requests>>

\* A consumer, or a component that reads the context itself: no other renderer
\* is between it and its readAsync, so currentThreadID is this renderer's.
RenderConsumer ==
  /\ AtElement({"consumer", "reader"})
  /\ LET c == Shape[Target.of].context
     IN  slot' = [slot EXCEPT ![c] = Bounded(c, Me.threadID)]
  /\ Become(EmitResult(ContextRendered(Next1, Target.of, Me.threadID)))
  /\ UNCHANGED <<freeList, data, promises, running, stage, requests>>

RenderProvider ==
  /\ AtElement({"provider"})
  /\ slot' = SlotProvided(Me, Shape[Target.of].context, Shape[Target.of].value)
  /\ Become(EmitResult(ProviderRendered(Next1, Target.of)))
  /\ UNCHANGED <<freeList, data, promises, running, stage, requests>>

\* Mutant: the opening comment goes to the list outside of the boundary.
RenderSuspenseOutside ==
  /\ AtElement({"suspense"})
  /\ Become([Emit(PushFrame(Next1, SuspenseFrame(Target.of)), String(<<OpenBoundary>>))
               EXCEPT !.depth = @ + 1, !.queue = Append(@, <<String(<<>>)>>)])
  /\ UNCHANGED <<freeList, slot, data, promises, running, stage, requests>>

RenderSuspense ==
  /\ AtElement({"suspense"})
  /\ Become(EmitResult(SuspenseRendered(Next1, Target.of)))
  /\ UNCHANGED <<freeList, slot, data, promises, running, stage, requests>>

\* renderEventually catches a promise: the child element is rendered again once
\* the promise resolves.  Calling the component has started the fetch.
Suspend ==
  /\ AtChild /\ Target.is = "promise" /\ (Me.depth > 0 \/ Me.child)
  /\ data' = [data EXCEPT ![Target.of] = "pending"]
  /\ promises' = Append(promises,
       [ kind |-> "suspension", child |-> Child, data |-> Target.of,
         static |-> Me.static, clone |-> ClonedContext(Me), renderer |-> 0,
         state |-> "pending", markup |-> <<>> ])
  /\ Become(Emit(Next1, Promised(Len(promises'))))
  /\ UNCHANGED <<freeList, slot, running, stage, requests>>

\* A component throws, or suspends where there is no boundary: the error leaves
\* the executor of the promise that readAsync returned.
Throw ==
  /\ AtChild
  /\ Target.is = "error" \/ (Target.is = "promise" /\ Me.depth = 0 /\ ~Me.child)
  /\ data' = IF Target.is = "promise" THEN [data EXCEPT ![Target.of] = "pending"] ELSE data
  /\ Become([Next1 EXCEPT !.read = IF @ = "ended" THEN @ ELSE "rejected"])
  /\ running' = 0
  /\ UNCHANGED <<freeList, slot, promises, stage, requests>>
-----------------------------------------------------------------------------
\* frame.childIndex >= frame.children.length
AtFrameEnd(kinds) == InLoop /\ Me.stack # <<>> /\ Top.rest = <<>> /\ Top.kind \in kinds

WithFooter(renderer) ==
  [renderer EXCEPT !.queue = Pushed(@, renderer.depth, String(Top.footer))]

FinishFrame ==
  /\ AtFrameEnd({"root", "host", "select", "option", "fragment", "consumer"})
  /\ Become(WithFooter(FrameLeft(Me)))
  /\ UNCHANGED <<freeList, slot, data, promises, running, stage, requests>>

FinishProvider ==
  /\ AtFrameEnd({"provider"})
  /\ slot' = SlotRestored(Me)
  /\ Become(WithFooter(ProviderPopped(FrameLeft(Me))))
  /\ UNCHANGED <<freeList, data, promises, running, stage, requests>>

\* A boundary is rolled up into one promise of its parts and its footer.
FinishBoundary ==
  /\ AtFrameEnd({"suspense"})
  /\ promises' = Append(promises,
       [ kind |-> "boundary", parts |-> Last(Me.queue), footer |-> Top.footer,
         state |-> "pending", markup |-> <<>> ])
  /\ Become([FrameLeft(Me) EXCEPT
               !.depth = @ - 1,
               !.queue = Pushed(Front(@), Me.depth - 1, Promised(Len(promises')))])
  /\ UNCHANGED <<freeList, slot, data, running, stage, requests>>

\* The stack is empty: the ID is given back, by a child renderer too.
Exhaust ==
  /\ InLoop /\ Me.stack = <<>>
  /\ Become([Me EXCEPT !.exhausted = TRUE])
  /\ freeList' = AfterFree(freeList, Me.threadID)
  /\ stage' = "flatten"
  /\ UNCHANGED <<slot, data, promises, running, requests>>

LeaveLoop ==
  /\ running # 0 /\ stage = "loop" /\ (Me.exhausted \/ Full(Me, Head1))
  /\ stage' = "flatten"
  /\ UNCHANGED <<freeList, slot, data, promises, renderers, running, requests>>
-----------------------------------------------------------------------------
\* flattenAndResolveQueue, one call of it at a time.
Entries == Me.queue[1]
Flattening == running # 0 /\ stage = "flatten"
More == Len(Entries) > 1 /\ ~Full(Me, Head1)

\* resolveAsyncRead(Head1), which does nothing once the read has ended.
Answer == [Me EXCEPT !.queue[1][1] = String(<<>>),
                     !.read = IF @ = "ended" THEN @ ELSE "resolved",
                     !.result = Head1]

FlattenString ==
  /\ Flattening /\ More /\ Entries[2].promise = 0
  /\ Become([Me EXCEPT !.queue[1] =
               <<String(Head1 \o Entries[2].markup)>> \o SubSeq(@, 3, Len(@))])
  /\ UNCHANGED <<freeList, slot, data, promises, running, stage, requests>>

\* Mutants: nothing is flushed early; a stream is answered without any markup.
FlushNever == FALSE
FlushEvenNothing == Me.bounded

\* A stream is given what there is before its renderer waits.
FlushBeforePromise == Me.bounded /\ Head1 # <<>>

FlattenPromise ==
  /\ Flattening /\ More /\ Entries[2].promise # 0
  /\ Become(IF FlushBeforePromise THEN Answer ELSE [Me EXCEPT !.read = "awaiting"])
  /\ running' = 0
  /\ UNCHANGED <<freeList, slot, data, promises, stage, requests>>

FlattenEnds ==
  /\ Flattening /\ ~More
  /\ Become(Answer)
  /\ running' = 0
  /\ UNCHANGED <<freeList, slot, data, promises, stage, requests>>

\* The callback of the promise it waited for.  There is none for a rejection.
FlattenResumes(r) ==
  /\ running = 0 /\ renderers[r].read = "awaiting"
  /\ LET entries == renderers[r].queue[1]
         promise == promises[entries[2].promise]
     IN  /\ promise.state = "fulfilled"
         /\ renderers' = [renderers EXCEPT ![r].read = "reading", ![r].queue[1] =
              <<String(entries[1].markup \o promise.markup)>>
                \o SubSeq(entries, 3, Len(entries))]
  /\ running' = r /\ stage' = "flatten"
  /\ UNCHANGED <<freeList, slot, data, promises, requests>>
=============================================================================
