---------------------------- MODULE SyncRenderer ----------------------------
(***************************************************************************)
(* ReactDOMServerRenderer.read and its clients renderToString and          *)
(* renderToNodeStream.  A read buffers what is rendered inside of each     *)
(* Suspense boundary until it knows that nothing there has suspended; if a *)
(* component did, it unwinds to the boundary and renders the fallback.     *)
(*                                                                         *)
(* `calls' is the JavaScript stack as far as it consists of reads: a       *)
(* component may call renderToString itself.  Between two requests, or two *)
(* reads of streams, it is empty.                                          *)
(***************************************************************************)
EXTENDS PartialRenderer

CONSTANTS
  Request,      \* the calls that the server makes
  Groups,       \* the sets of calls that it makes in one life
  Root,         \* [Request -> Element]: what each of them renders
  Streams,      \* the requests made with renderToNodeStream
  Static,       \* the requests that ask for static markup
  Chunk         \* the number of bytes a stream asks its renderer for

ASSUME SyncAssumption ==
  /\ Root \in [Request -> Element] /\ Groups \subseteq SUBSET Request
  /\ Streams \subseteq Request /\ Static \subseteq Request
  /\ Chunk \in Nat \ {0}

VARIABLES
  renderers,         \* every ReactDOMServerRenderer made so far
  calls,             \* the reads that are on the stack, innermost last
  currentThreadID,   \* what hooks and readContext use
  requests           \* what the caller of each request has got

vars == <<freeList, slot, data, renderers, calls, currentThreadID, requests>>

Call == Last(calls)
Me   == renderers[Call.renderer]
Top  == Last(Me.stack)

\* read(bytes): the local variables of the call, and the component's result
\* after it when the caller is a component.
ReadCall(r, bounded, nested) ==
  [ renderer |-> r, bounded |-> bounded, out |-> <<<<>>>>, suspended |-> FALSE,
    failed |-> FALSE, previous |-> currentThreadID, nested |-> nested ]

Become(renderer, call) ==
  /\ renderers' = [renderers EXCEPT ![Call.renderer] = renderer]
  /\ calls' = [calls EXCEPT ![Len(calls)] = call]

\* out[suspenseDepth] += markup, where the first markup at a depth opens `out'.
Written(call, depth, markup) ==
  LET out == IF Len(call.out) <= depth THEN Append(call.out, <<>>) ELSE call.out
  IN  [call EXCEPT !.out = [out EXCEPT ![depth + 1] = @ \o markup]]

Emit(result) ==
  Become(result.renderer, Written(Call, result.renderer.depth, result.markup))
-----------------------------------------------------------------------------
Full   == Call.bounded /\ Len(Call.out[1]) >= Chunk
InLoop == calls # <<>> /\ ~Call.failed /\ ~Me.exhausted /\ ~Full

\* `child' is frame.children[frame.childIndex++].
AtChild == InLoop /\ ~Call.suspended /\ Me.stack # <<>> /\ Top.rest # <<>>
Child   == Head(Top.rest)
Target  == Resolved(Child)
Next1   == [Me EXCEPT !.stack[Len(Me.stack)].rest = Tail(@)]
AtElement(kinds) == AtChild /\ Target.is = "element" /\ Kind(Target.of) \in kinds

RenderText ==
  /\ AtChild /\ Kind(Child) = "text"
  /\ Emit(TextRendered(Next1, Child))
  /\ UNCHANGED <<freeList, slot, data, currentThreadID, requests>>

RenderNothing ==
  /\ AtChild /\ Target.is = "null"
  /\ Emit(Result(Next1, <<>>))
  /\ UNCHANGED <<freeList, slot, data, currentThreadID, requests>>

RenderHost ==
  /\ AtElement({"host", "select", "option"})
  /\ Emit(HostRendered(Next1, Target.of, Len(Me.stack) = 1 /\ ~Me.static))
  /\ UNCHANGED <<freeList, slot, data, currentThreadID, requests>>

RenderFragment ==
  /\ AtElement({"fragment", "text"}) /\ Kind(Child) # "text"
  /\ Emit(FragmentRendered(Next1, Target.of))
  /\ UNCHANGED <<freeList, slot, data, currentThreadID, requests>>

\* A consumer uses the renderer's ID, a component that calls readContext the
\* current one.
RenderConsumer ==
  /\ AtElement({"consumer", "reader"})
  /\ LET c  == Shape[Target.of].context
         id == IF Kind(Target.of) = "consumer" THEN Me.threadID ELSE currentThreadID
     IN  /\ slot' = [slot EXCEPT ![c] = Bounded(c, id)]
         /\ Emit(ContextRendered(Next1, Target.of, id))
  /\ UNCHANGED <<freeList, data, currentThreadID, requests>>

RenderProvider ==
  /\ AtElement({"provider"})
  /\ slot' = SlotProvided(Me, Shape[Target.of].context, Shape[Target.of].value)
  /\ Emit(ProviderRendered(Next1, Target.of))
  /\ UNCHANGED <<freeList, data, currentThreadID, requests>>

RenderSuspense ==
  /\ AtElement({"suspense"})
  /\ Emit(SuspenseRendered(Next1, Target.of))
  /\ UNCHANGED <<freeList, slot, data, currentThreadID, requests>>

\* A promise is caught: from now on frames are unwound.
Suspend ==
  /\ AtChild /\ Target.is = "promise" /\ Me.depth > 0
  /\ Become(Next1, [Written(Call, Me.depth, <<>>) EXCEPT !.suspended = TRUE])
  /\ UNCHANGED <<freeList, slot, data, currentThreadID, requests>>

\* An error, or a promise where there is no boundary.
Throw ==
  /\ AtChild
  /\ Target.is = "error" \/ (Target.is = "promise" /\ Me.depth = 0)
  /\ Become(Next1, [Call EXCEPT !.failed = TRUE])
  /\ UNCHANGED <<freeList, slot, data, currentThreadID, requests>>

\* A component calls renderToString: its own read is suspended in the middle.
CallNested ==
  /\ AtElement({"nested"}) /\ CanAlloc(freeList)
  /\ renderers' = Append([renderers EXCEPT ![Call.renderer] = Next1],
                         NewRenderer(Shape[Target.of].inner, FALSE))
  /\ calls' = Append(calls, ReadCall(Len(renderers'), FALSE, Target.of))
  /\ currentThreadID' = AllocatedID(freeList)
  /\ freeList' = AfterAlloc(freeList)
  /\ UNCHANGED <<slot, data, requests>>

\* What a component that called renderToString returns is what its parent
\* renders next.
Returned(renderer, nested) ==
  [renderer EXCEPT !.stack[Len(renderer.stack)].rest =
     (IF Shape[nested].kid = None THEN <<>> ELSE <<Shape[nested].kid>>) \o @]

\* There is no ID for the renderer of a nested call.
NestedRefused ==
  /\ AtElement({"nested"}) /\ ~CanAlloc(freeList)
  /\ IF Shape[Target.of].catches
       THEN Become(Returned(Next1, Target.of), Call)
       ELSE Become(Next1, [Call EXCEPT !.failed = TRUE])
  /\ UNCHANGED <<freeList, slot, data, currentThreadID, requests>>
-----------------------------------------------------------------------------
AtFrameEnd(kinds) ==
  /\ InLoop /\ Me.stack # <<>> /\ Top.kind \in kinds
  /\ Call.suspended \/ Top.rest = <<>>

FinishFrame ==
  /\ AtFrameEnd({"root", "host", "select", "option", "fragment", "consumer", "fallback"})
  /\ Become(FrameLeft(Me), Written(Call, Me.depth, Top.footer))
  /\ UNCHANGED <<freeList, slot, data, currentThreadID, requests>>

FinishProvider ==
  /\ AtFrameEnd({"provider"})
  /\ slot' = SlotRestored(Me)
  /\ Become(ProviderPopped(FrameLeft(Me)), Written(Call, Me.depth, Top.footer))
  /\ UNCHANGED <<freeList, data, currentThreadID, requests>>

\* Mutant: suspenseDepth is not decremented.
BoundaryKept == FrameLeft(Me)

BoundaryLeft == [FrameLeft(Me) EXCEPT !.depth = @ - 1]

\* Nothing suspended: the buffer joins the one around the boundary.
FinishBoundary ==
  /\ AtFrameEnd({"suspense"}) /\ ~Call.suspended
  /\ Become(BoundaryLeft,
            Written([Call EXCEPT !.out = Front(@)], Me.depth - 1, Last(Call.out) \o Top.footer))
  /\ UNCHANGED <<freeList, slot, data, currentThreadID, requests>>

FallbackFrame == Frame("fallback", Top.fallback, <<CloseBoundary>>)

\* Mutant: what was rendered before the suspended component is kept.
ShowFallbackAfterContent ==
  /\ AtFrameEnd({"suspense"}) /\ Call.suspended
  /\ Become(PushFrame(BoundaryLeft, FallbackFrame),
            [Written([Call EXCEPT !.out = Front(@)], Me.depth - 1,
                     Last(Call.out) \o <<OpenFallback>>) EXCEPT !.suspended = FALSE])
  /\ UNCHANGED <<freeList, slot, data, currentThreadID, requests>>

\* The buffer is dropped, and the fallback rendered in its place.
ShowFallback ==
  /\ AtFrameEnd({"suspense"}) /\ Call.suspended
  /\ Become(PushFrame(BoundaryLeft, FallbackFrame),
            [Written([Call EXCEPT !.out = Front(@)], Me.depth - 1, <<OpenFallback>>)
               EXCEPT !.suspended = FALSE])
  /\ UNCHANGED <<freeList, slot, data, currentThreadID, requests>>

Exhaust ==
  /\ InLoop /\ Me.stack = <<>>
  /\ Become([Me EXCEPT !.exhausted = TRUE], Call)
  /\ freeList' = AfterFree(freeList, Me.threadID)
  /\ UNCHANGED <<slot, data, currentThreadID, requests>>
-----------------------------------------------------------------------------
\* Mutant: destroy() does not look at `exhausted'.
DestroyUnguarded(r) ==
  /\ slot' = Cleared(renderers[r])
  /\ freeList' = AfterFree(freeList, renderers[r].threadID)

\* destroy(), in which only what is shared with others matters to the caller.
Destroy(r) ==
  IF renderers[r].exhausted
    THEN UNCHANGED <<slot, freeList>>
    ELSE /\ slot' = Cleared(renderers[r])
         /\ freeList' = AfterFree(freeList, renderers[r].threadID)

Destroyed(r) == [renderers EXCEPT ![r].exhausted = TRUE]

Outcome(q, status, markup) ==
  requests' = [requests EXCEPT ![q].status = status, ![q].delivered = @ \o markup]

\* Mutant: read() does not restore the thread ID.
ThreadIDKept == currentThreadID

\* The finally of read().
ThreadIDRestored == Call.previous

Leave ==
  /\ calls' = Front(calls)
  /\ currentThreadID' = ThreadIDRestored

Returns == calls # <<>> /\ ~Call.failed /\ (Me.exhausted \/ Full)
Fails   == calls # <<>> /\ Call.failed
AtRequest(q) == Len(calls) = 1 /\ requests[q].renderer = Call.renderer

\* renderToString returns, or _read pushes what it has read.
ReadReturns(q) ==
  /\ Returns /\ AtRequest(q)
  /\ Leave
  /\ IF q \in Streams
       THEN /\ Outcome(q, "active", Call.out[1])
            /\ UNCHANGED <<freeList, slot, renderers>>
       ELSE /\ Outcome(q, "done", Call.out[1])
            /\ Destroy(Call.renderer)
            /\ renderers' = Destroyed(Call.renderer)
  /\ UNCHANGED data

\* The error leaves renderToString after destroy(), or destroys the stream.
ReadFails(q) ==
  /\ Fails /\ AtRequest(q)
  /\ Leave
  /\ Outcome(q, "failed", <<>>)
  /\ Destroy(Call.renderer)
  /\ renderers' = Destroyed(Call.renderer)
  /\ UNCHANGED data

Outer == calls[Len(calls) - 1].renderer

NestedReturns ==
  /\ Returns /\ Len(calls) > 1
  /\ Leave
  /\ Destroy(Call.renderer)
  /\ renderers' = [Destroyed(Call.renderer) EXCEPT ![Outer] = Returned(@, Call.nested)]
  /\ UNCHANGED <<data, requests>>

\* The component catches the error of the nested call and goes on.
NestedCaught ==
  /\ Fails /\ Len(calls) > 1 /\ Shape[Call.nested].catches
  /\ Leave
  /\ Destroy(Call.renderer)
  /\ renderers' = [Destroyed(Call.renderer) EXCEPT ![Outer] = Returned(@, Call.nested)]
  /\ UNCHANGED <<data, requests>>

\* The error of the nested call is an error of the component.
NestedFails ==
  /\ Fails /\ Len(calls) > 1 /\ ~Shape[Call.nested].catches
  /\ calls' = [Front(calls) EXCEPT ![Len(calls) - 1].failed = TRUE]
  /\ currentThreadID' = ThreadIDRestored
  /\ Destroy(Call.renderer)
  /\ renderers' = Destroyed(Call.renderer)
  /\ UNCHANGED <<data, requests>>
-----------------------------------------------------------------------------
Start(q) ==
  /\ calls = <<>> /\ requests[q].status = "new"
  /\ CanAlloc(freeList)
  /\ renderers' = Append(renderers, NewRenderer(Root[q], q \in Static))
  /\ freeList' = AfterAlloc(freeList)
  /\ requests' = [requests EXCEPT ![q].status = "active", ![q].renderer = Len(renderers')]
  /\ IF q \in Streams
       THEN UNCHANGED <<calls, currentThreadID>>
       ELSE /\ calls' = <<ReadCall(Len(renderers'), FALSE, None)>>
            /\ currentThreadID' = AllocatedID(freeList)
  /\ UNCHANGED <<slot, data>>

StartRefused(q) ==
  /\ calls = <<>> /\ requests[q].status = "new"
  /\ ~CanAlloc(freeList)
  /\ Outcome(q, "failed", <<>>)
  /\ UNCHANGED <<freeList, slot, data, renderers, calls, currentThreadID>>

\* _read: a renderer that is exhausted ends the stream.
StreamReads(q) ==
  /\ calls = <<>> /\ requests[q].status = "active" /\ q \in Streams
  /\ LET r == requests[q].renderer
     IN  IF renderers[r].exhausted
           THEN /\ Outcome(q, "done", <<>>)
                /\ UNCHANGED <<calls, currentThreadID>>
           ELSE /\ calls' = <<ReadCall(r, TRUE, None)>>
                /\ currentThreadID' = renderers[r].threadID
                /\ UNCHANGED requests
  /\ UNCHANGED <<freeList, slot, data, renderers>>

\* The consumer stops reading before the end.
StreamDestroyed(q) ==
  /\ calls = <<>> /\ requests[q].status = "active" /\ q \in Streams
  /\ Destroy(requests[q].renderer)
  /\ renderers' = Destroyed(requests[q].renderer)
  /\ Outcome(q, "destroyed", <<>>)
  /\ UNCHANGED <<data, calls, currentThreadID>>
-----------------------------------------------------------------------------
\* Some data is there, some is missing; a synchronous renderer never waits.
Init ==
  /\ freeList = InitialList
  /\ slot = [c \in Context |-> <<>>]
  /\ data \in [Data -> {"ready", "pending"}]
  /\ renderers = <<>> /\ calls = <<>> /\ currentThreadID = 0
  /\ \E G \in Groups :
       requests = [q \in Request |-> [status |-> IF q \in G THEN "new" ELSE "absent",
                                      renderer |-> 0, delivered |-> <<>>]]

RunStep ==
  \/ RenderText \/ RenderNothing \/ RenderHost \/ RenderFragment \/ RenderConsumer
  \/ RenderProvider \/ RenderSuspense \/ Suspend \/ Throw \/ CallNested \/ NestedRefused
  \/ FinishFrame \/ FinishProvider \/ FinishBoundary \/ ShowFallback \/ Exhaust
  \/ NestedReturns \/ NestedCaught \/ NestedFails

ClientStep ==
  \E q \in Request : Start(q) \/ StartRefused(q) \/ StreamReads(q)
                     \/ ReadReturns(q) \/ ReadFails(q)

Next == RunStep \/ ClientStep \/ \E q \in Request : StreamDestroyed(q)

Spec     == Init /\ [][Next]_vars
FairSpec == Spec /\ WF_vars(RunStep \/ ClientStep)
-----------------------------------------------------------------------------
\* Between two turns of the innermost loop there is one buffer for each boundary
\* its renderer is in, and the current thread ID is its own.
TypeOK ==
  /\ IsFreeList(freeList)
  /\ \A c \in Context : Range(slot[c]) \subseteq Element
  /\ \A r \in DOMAIN renderers : ShapeOK(renderers[r])
  /\ \A i \in DOMAIN calls : Len(calls[i].out) = renderers[calls[i].renderer].depth + 1
  /\ currentThreadID = IF calls = <<>> THEN 0 ELSE Me.threadID
  /\ \A q \in Request :
       requests[q].status \in {"absent", "new", "active", "done", "failed", "destroyed"}

Missing == { d \in Data : data[d] # "ready" }

\* The markup of each request, for each set of missing data, and how it ends: with
\* an error when something in its tree throws or suspends outside of a boundary.
Promises ==
  { [ request |-> q, missing |-> missing,
      markup  |-> IF q \in Static THEN StaticMarkupOf(Root[q], missing)
                                  ELSE MarkupOf(Root[q], missing),
      ends    |-> IF Rendering(Root[q], missing).ends = "ok" THEN {"done"} ELSE {"failed"} ] :
    q \in Request, missing \in SUBSET Data }

Promise(q) == CHOOSE p \in Promises : p.request = q /\ p.missing = Missing

Live == { r \in DOMAIN renderers : ~renderers[r].exhausted }

\* The free list holds every ID that no unfinished renderer holds, also while
\* renderers of nested calls come and go and errors pass through them.
ThreadIDsAccounted == Intact(freeList, { renderers[r].threadID : r \in Live })

\* A context holds its default under every ID that no unfinished renderer holds:
\* a request that unwinds, fails or is destroyed leaves no value behind.
NothingLeftBehind ==
  \A c \in Context : \A id \in 1 .. Len(slot[c]) - 1 :
    (\A r \in Live : renderers[r].threadID # id) => slot[c][id + 1] = Default[c]

Stream == INSTANCE MarkupStream
            WITH promised <- [q \in Request |-> Promise(q)],
                 status <- [q \in Request |-> requests[q].status],
                 delivered <- [q \in Request |-> requests[q].delivered]

\* The renderer keeps the promise of the API: the markup with fallbacks where data
\* is missing, in order and in whole outermost boundaries, also when components call
\* renderToString, and an end to every request, with an error just when its tree ends
\* in one.
ImplementsMarkupStream == Stream!FairSpec
=============================================================================
