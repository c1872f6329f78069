------------------------- MODULE SyncRendererProofs -------------------------
(***************************************************************************)
(* What the synchronous renderer keeps, for all trees, numbers of requests *)
(* and depths of nested calls, wherever they end.                          *)
(*                                                                         *)
(* Thread IDs are accounted for: each step keeps the renderers and the IDs *)
(* they hold, or takes an ID for a new renderer, or gives back the ID of a *)
(* renderer that ends (IDsInv).                                            *)
(*                                                                         *)
(* Nothing is left behind in a context: what the outermost provider of a   *)
(* context has remembered is the default, or the slot holds it (SlotsInv). *)
(*                                                                         *)
(* The arrays of a renderer agree (TypeInv): a read has a buffer for each  *)
(* boundary its renderer is in, a provider a slot to restore, and the      *)
(* thread IDs that nested reads restore form a chain (CallsTyped).         *)
(***************************************************************************)
EXTENDS SyncRenderer, DataLemmas

HeldBy(rs) == { rs[r].threadID : r \in { s \in DOMAIN rs : ~rs[s].exhausted } }

IsRenderer(x) == {"threadID", "exhausted"} \subseteq DOMAIN x

Similar(x, y) ==
  /\ IsRenderer(x) /\ IsRenderer(y)
  /\ x.threadID = y.threadID /\ x.exhausted = y.exhausted

\* No two unfinished renderers have the same ID; without that, what one of them
\* frees is still in use.
IDsHeld(list, rs) ==
  /\ IsFreeList(list) /\ IsSeq(rs)
  /\ \A r \in DOMAIN rs :
       IsRenderer(rs[r]) /\ (~rs[r].exhausted => rs[r].threadID \in IDs(list))
  /\ \A r, s \in DOMAIN rs :
       ~rs[r].exhausted /\ ~rs[s].exhausted /\ rs[r].threadID = rs[s].threadID => r = s
  /\ Intact(list, HeldBy(rs))

IsCall(c, rs) ==
  /\ {"renderer", "previous"} \subseteq DOMAIN c
  /\ c.renderer \in DOMAIN rs /\ c.previous \in Nat

CallsOK == IsSeq(calls) /\ \A i \in DOMAIN calls : IsCall(calls[i], renderers)

RequestsOK ==
  /\ DOMAIN requests = Request
  /\ \A q \in Request :
       /\ {"status", "renderer"} \subseteq DOMAIN requests[q]
       /\ requests[q].status = "active" => requests[q].renderer \in DOMAIN renderers

IDsInv ==
  IDsHeld(freeList, renderers) /\ CallsOK /\ RequestsOK /\ currentThreadID \in Nat
-----------------------------------------------------------------------------
\* A renderer goes on with its ID.
LEMMA KeepsIDs ==
  ASSUME NEW list, NEW rs, IDsHeld(list, rs), NEW n \in DOMAIN rs, NEW x, Similar(rs[n], x)
  PROVE  LET t == [rs EXCEPT ![n] = x]
         IN  IDsHeld(list, t) /\ DOMAIN t = DOMAIN rs
<1>. DEFINE t == [rs EXCEPT ![n] = x]
<1>1. /\ IsSeq(t) /\ DOMAIN t = DOMAIN rs /\ t[n] = x
      /\ \A i \in DOMAIN rs \ {n} : t[i] = rs[i]
  BY ExceptIsSeq DEF IDsHeld
<1>. HIDE DEF t
<1>2. \A i \in DOMAIN rs : Similar(rs[i], t[i])
  BY <1>1 DEF IDsHeld, Similar
<1>3. HeldBy(t) = HeldBy(rs)
  BY <1>1, <1>2 DEF HeldBy, Similar
<1>4. IDsHeld(list, t)
  BY <1>1, <1>2, <1>3 DEF IDsHeld, Similar
<1>. QED
  BY <1>1, <1>4 DEF t

\* A new renderer takes an ID.
LEMMA TakesID ==
  ASSUME NEW list, NEW rs, IDsHeld(list, rs), CanAlloc(list), NEW x, IsRenderer(x),
         x.threadID = AllocatedID(list), ~x.exhausted
  PROVE  LET t == Append(rs, x)
         IN  /\ IDsHeld(AfterAlloc(list), t)
             /\ Len(t) \in DOMAIN t /\ DOMAIN rs \subseteq DOMAIN t
<1>. DEFINE t == Append(rs, x)
            n == Len(rs) + 1
<1>1. /\ IsSeq(t) /\ DOMAIN t = DOMAIN rs \cup {n} /\ t[n] = x /\ Len(t) = n
      /\ n \notin DOMAIN rs /\ \A i \in DOMAIN rs : t[i] = rs[i]
  BY AppendIsSeq DEF IDsHeld
<1>2. HeldBy(rs) \subseteq IDs(list)
  BY DEF HeldBy, IDsHeld
<1>3. /\ IsFreeList(AfterAlloc(list))
      /\ Intact(AfterAlloc(list), HeldBy(rs) \cup {AllocatedID(list)})
      /\ AllocatedID(list) \in IDs(AfterAlloc(list)) /\ AllocatedID(list) \notin HeldBy(rs)
      /\ IDs(list) \subseteq IDs(AfterAlloc(list))
  BY <1>2, AllocTakesFree DEF IDsHeld
<1>. HIDE DEF t, n
<1>4. HeldBy(t) = HeldBy(rs) \cup {AllocatedID(list)}
  BY <1>1 DEF HeldBy
<1>5. \A r \in DOMAIN rs : ~rs[r].exhausted => rs[r].threadID # AllocatedID(list)
  BY <1>3 DEF HeldBy
<1>6. IDsHeld(AfterAlloc(list), t)
  BY <1>1, <1>3, <1>4, <1>5 DEF IDsHeld
<1>. QED
  BY <1>1, <1>6 DEF t

\* A renderer ends: if it has not ended before, it gives its ID back.
LEMMA GivesID ==
  ASSUME NEW list, NEW rs, IDsHeld(list, rs), NEW n \in DOMAIN rs,
         NEW x, IsRenderer(x), x.exhausted = TRUE,
         NEW after, after = IF rs[n].exhausted THEN list ELSE AfterFree(list, rs[n].threadID)
  PROVE  LET t == [rs EXCEPT ![n] = x]
         IN  IDsHeld(after, t) /\ DOMAIN t = DOMAIN rs
<1>. DEFINE t == [rs EXCEPT ![n] = x]
            id == rs[n].threadID
<1>1. /\ IsSeq(t) /\ DOMAIN t = DOMAIN rs /\ t[n] = x
      /\ \A i \in DOMAIN rs \ {n} : t[i] = rs[i]
  BY ExceptIsSeq DEF IDsHeld
<1>. HIDE DEF t
<1>2. CASE rs[n].exhausted
  <2>1. HeldBy(t) = HeldBy(rs)
    BY <1>1, <1>2 DEF HeldBy
  <2>2. IDsHeld(list, t)
    BY <1>1, <1>2, <2>1 DEF IDsHeld
  <2>. QED
    BY <1>1, <1>2, <2>2 DEF t
<1>3. CASE ~rs[n].exhausted
  <2>1. HeldBy(t) = HeldBy(rs) \ {id}
    BY <1>1, <1>3 DEF HeldBy, IDsHeld
  <2>2. id \in HeldBy(rs) /\ id \in IDs(list)
    BY <1>3 DEF HeldBy, IDsHeld
  <2>3. /\ AfterFree(list, id).size = list.size
        /\ IsFreeList(AfterFree(list, id))
        /\ Intact(AfterFree(list, id), HeldBy(rs) \ {id})
    BY <2>2, FreeToList DEF IDsHeld
  <2>4. IDs(AfterFree(list, id)) = IDs(list)
    BY <2>3 DEF IDs
  <2>5. IDsHeld(AfterFree(list, id), t)
    BY <1>1, <2>1, <2>3, <2>4 DEF IDsHeld
  <2>. QED
    BY <1>1, <1>3, <2>5 DEF t
<1>. QED
  BY <1>2, <1>3
-----------------------------------------------------------------------------
\* The innermost read has a renderer.
LEMMA CallIsCall ==
  ASSUME IDsInv, calls # <<>>
  PROVE  /\ Len(calls) \in DOMAIN calls /\ Call = calls[Len(calls)]
         /\ IsCall(Call, renderers) /\ Me = renderers[Call.renderer] /\ IsRenderer(Me)
<1>1. Len(calls) \in DOMAIN calls /\ Call = calls[Len(calls)]
  BY FrontIsSeq DEF IDsInv, CallsOK, Call
<1>2. IsCall(Call, renderers)
  BY <1>1 DEF IDsInv, CallsOK
<1>. QED
  BY <1>1, <1>2 DEF IDsInv, IDsHeld, Me, IsCall

SameRenderer(c, d) ==
  /\ {"renderer", "previous"} \subseteq DOMAIN d
  /\ d.renderer = c.renderer /\ d.previous = c.previous

\* Writing markup leaves the read to its renderer, and to what it restores.
LEMMA WrittenSame ==
  ASSUME NEW c, {"renderer", "previous"} \subseteq DOMAIN c, NEW depth, NEW markup
  PROVE  SameRenderer(c, Written(c, depth, markup))
BY DEF SameRenderer, Written

\* What happens to the read and its renderer inside of the loop.
LEMMA CallsKept ==
  ASSUME IDsInv, calls # <<>>, NEW call, SameRenderer(Call, call),
         calls' = [calls EXCEPT ![Len(calls)] = call], DOMAIN renderers \subseteq DOMAIN renderers'
  PROVE  CallsOK'
<1>1. Len(calls) \in DOMAIN calls /\ Call = calls[Len(calls)] /\ IsCall(Call, renderers)
  BY CallIsCall
<1>2. IsSeq(calls') /\ DOMAIN calls' = DOMAIN calls /\ calls'[Len(calls)] = call
      /\ \A i \in DOMAIN calls \ {Len(calls)} : calls'[i] = calls[i]
  BY <1>1, ExceptIsSeq DEF IDsInv, CallsOK
<1>3. IsCall(call, renderers')
  BY <1>1 DEF IsCall, SameRenderer
<1>. QED
  BY <1>2, <1>3 DEF IDsInv, CallsOK, IsCall

\* Streams keep their renderers.
LEMMA RequestsKept ==
  ASSUME RequestsOK, UNCHANGED requests, DOMAIN renderers \subseteq DOMAIN renderers'
  PROVE  RequestsOK'
BY DEF RequestsOK

\* A step of the loop in which the renderer goes on keeps every ID.
LEMMA BecomeKeeps ==
  ASSUME IDsInv, calls # <<>>, NEW renderer, NEW call, Become(renderer, call),
         Similar(Me, renderer), SameRenderer(Call, call),
         UNCHANGED <<freeList, currentThreadID, requests>>
  PROVE  IDsInv'
<1>1. /\ Call.renderer \in DOMAIN renderers
      /\ renderers' = [renderers EXCEPT ![Call.renderer] = renderer]
      /\ Similar(renderers[Call.renderer], renderer)
  BY CallIsCall DEF Become, IsCall
<1>2. IDsHeld(freeList, renderers') /\ DOMAIN renderers' = DOMAIN renderers
  BY <1>1, KeepsIDs DEF IDsInv
<1>3. CallsOK'
  BY <1>2, CallsKept DEF Become
<1>. QED
  BY <1>2, <1>3, RequestsKept DEF IDsInv

\* So does one that writes markup.
LEMMA EmitKeeps ==
  ASSUME IDsInv, calls # <<>>, NEW renderer, NEW markup, Emit(Result(renderer, markup)),
         Similar(Me, renderer), UNCHANGED <<freeList, currentThreadID, requests>>
  PROVE  IDsInv'
<1>1. Result(renderer, markup).renderer = renderer
      /\ Result(renderer, markup).markup = markup
  BY DEF Result
<1>2. Become(renderer, Written(Call, renderer.depth, markup))
  BY <1>1 DEF Emit
<1>3. SameRenderer(Call, Written(Call, renderer.depth, markup))
  BY CallIsCall, WrittenSame DEF IsCall
<1>. QED
  BY <1>2, <1>3, BecomeKeeps
-----------------------------------------------------------------------------
\* render() keeps a renderer's ID.
LEMMA PushSimilar ==
  ASSUME NEW x, IsRenderer(x), NEW frame
  PROVE  Similar(x, PushFrame(x, frame))
BY DEF PushFrame, Similar, IsRenderer

\* Taking the next child does not concern the ID, ...
LEMMA NextSimilar ==
  ASSUME IsRenderer(Me)
  PROVE  Similar(Me, Next1)
BY DEF Next1, Similar, IsRenderer

\* ... nor do two such changes, ...
LEMMA SimilarTransitive ==
  ASSUME NEW x, NEW y, NEW z, Similar(x, y), Similar(y, z)
  PROVE  Similar(x, z)
BY DEF Similar

\* ... nor does the rendering of a text, ...
LEMMA TextSimilar ==
  ASSUME NEW x, IsRenderer(x), NEW e
  PROVE  \E y, markup : TextRendered(x, e) = Result(y, markup) /\ Similar(x, y)
<1>. DEFINE y == [x EXCEPT !.afterText = IF x.static THEN @ ELSE TRUE]
<1>1. Similar(x, y)
  BY DEF Similar, IsRenderer
<1>. QED
  BY <1>1 DEF TextRendered

\* ... a host element, ...
LEMMA HostSimilar ==
  ASSUME NEW x, IsRenderer(x), NEW e, NEW isRoot
  PROVE  \E y, markup : HostRendered(x, e, isRoot) = Result(y, markup) /\ Similar(x, y)
<1>. DEFINE f == Frame(Kind(e), Shape[e].kids, <<CloseTag(e)>>)
            y == [PushFrame(x, f) EXCEPT !.afterText = FALSE, !.select = SelectIn(e, @)]
<1>1. Similar(x, PushFrame(x, f))
  BY PushSimilar
<1>2. Similar(x, y)
  BY <1>1 DEF Similar, IsRenderer
<1>. QED
  BY <1>2 DEF HostRendered

\* ... a fragment, ...
LEMMA FragmentSimilar ==
  ASSUME NEW x, IsRenderer(x), NEW e
  PROVE  \E y, markup : FragmentRendered(x, e) = Result(y, markup) /\ Similar(x, y)
BY PushSimilar DEF FragmentRendered

\* ... a consumer, ...
LEMMA ContextSimilar ==
  ASSUME NEW x, IsRenderer(x), NEW e, NEW id
  PROVE  \E y, markup : ContextRendered(x, e, id) = Result(y, markup) /\ Similar(x, y)
BY PushSimilar DEF ContextRendered

\* ... a provider and its arrays, ...
LEMMA ProviderPushedSimilar ==
  ASSUME NEW x, IsRenderer(x), NEW c
  PROVE  Similar(x, ProviderPushed(x, c))
BY DEF ProviderPushed, Similar, IsRenderer

\* ... with its frame, ...
LEMMA ProviderSimilar ==
  ASSUME NEW x, IsRenderer(x), NEW e
  PROVE  \E y, markup : ProviderRendered(x, e) = Result(y, markup) /\ Similar(x, y)
<1>. DEFINE f == Frame("provider", Shape[e].kids, <<>>)
            p == PushFrame(x, f)
            y == ProviderPushed(p, Shape[e].context)
<1>1. Similar(x, p) /\ IsRenderer(p)
  BY PushSimilar DEF Similar
<1>2. Similar(p, y)
  BY <1>1, ProviderPushedSimilar
<1>3. Similar(x, y)
  BY <1>1, <1>2, SimilarTransitive
<1>. QED
  BY <1>3 DEF ProviderRendered

\* ... or a boundary, ...
LEMMA SuspenseSimilar ==
  ASSUME NEW x, IsRenderer(x), NEW e
  PROVE  \E y, markup : SuspenseRendered(x, e) = Result(y, markup) /\ Similar(x, y)
<1>. DEFINE y == [PushFrame(x, SuspenseFrame(e)) EXCEPT !.depth = @ + 1]
<1>1. Similar(x, PushFrame(x, SuspenseFrame(e)))
  BY PushSimilar
<1>2. Similar(x, y)
  BY <1>1 DEF Similar, IsRenderer
<1>. QED
  BY <1>2 DEF SuspenseRendered

\* ... nor does leaving a frame, ...
LEMMA FrameLeftSimilar ==
  ASSUME NEW x, IsRenderer(x)
  PROVE  Similar(x, FrameLeft(x))
BY DEF FrameLeft, Similar, IsRenderer

\* ... or the provider of one.
LEMMA ProviderPoppedSimilar ==
  ASSUME NEW x, IsRenderer(x)
  PROVE  Similar(x, ProviderPopped(x))
BY DEF ProviderPopped, Similar, IsRenderer
-----------------------------------------------------------------------------
\* The rendering of one child leaves the IDs alone.
LEMMA RenderedKeeps ==
  ASSUME IDsInv, AtChild, NEW result, Emit(result),
         UNCHANGED <<freeList, currentThreadID, requests>>,
         \E y, markup : result = Result(y, markup) /\ Similar(Next1, y)
  PROVE  IDsInv'
<1>1. calls # <<>>
  BY DEF AtChild, InLoop
<1>2. PICK y, markup : result = Result(y, markup) /\ Similar(Next1, y)
  OBVIOUS
<1>3. Similar(Me, y)
  BY <1>1, <1>2, CallIsCall, NextSimilar, SimilarTransitive
<1>. QED
  BY <1>1, <1>2, <1>3, EmitKeeps

\* What the steps that render a child start from.
LEMMA AtChildFacts ==
  ASSUME IDsInv, AtChild
  PROVE  calls # <<>> /\ IsRenderer(Me) /\ IsRenderer(Next1) /\ Similar(Me, Next1)
         /\ SameRenderer(Call, Call)
BY CallIsCall, NextSimilar DEF AtChild, InLoop, Similar, SameRenderer, IsCall

\* Each way to render a child keeps the IDs.
LEMMA RenderKeeps ==
  ASSUME IDsInv,
         RenderText \/ RenderNothing \/ RenderHost \/ RenderFragment \/ RenderConsumer
         \/ RenderProvider \/ RenderSuspense
  PROVE  IDsInv'
<1>. AtChild /\ UNCHANGED <<freeList, currentThreadID, requests>>
  BY DEF RenderText, RenderNothing, RenderHost, RenderFragment, RenderConsumer,
         RenderProvider, RenderSuspense, AtElement
<1>. IsRenderer(Next1) /\ Similar(Next1, Next1)
  BY AtChildFacts DEF Similar
<1>1. CASE RenderText
  BY <1>1, TextSimilar, RenderedKeeps DEF RenderText
<1>2. CASE RenderNothing
  <2>1. \E y, markup : Result(Next1, <<>>) = Result(y, markup) /\ Similar(Next1, y)
    OBVIOUS
  <2>. QED
    BY <1>2, <2>1, RenderedKeeps DEF RenderNothing
<1>3. CASE RenderHost
  BY <1>3, HostSimilar, RenderedKeeps DEF RenderHost
<1>4. CASE RenderFragment
  BY <1>4, FragmentSimilar, RenderedKeeps DEF RenderFragment
<1>5. CASE RenderConsumer
  BY <1>5, ContextSimilar, RenderedKeeps DEF RenderConsumer
<1>6. CASE RenderProvider
  BY <1>6, ProviderSimilar, RenderedKeeps DEF RenderProvider
<1>7. CASE RenderSuspense
  BY <1>7, SuspenseSimilar, RenderedKeeps DEF RenderSuspense
<1>. QED
  BY <1>1, <1>2, <1>3, <1>4, <1>5, <1>6, <1>7

\* The result of a component that called renderToString does not concern the ID.
LEMMA ReturnedSimilar ==
  ASSUME NEW x, IsRenderer(x), NEW e
  PROVE  Similar(x, Returned(x, e))
BY DEF Returned, Similar, IsRenderer

\* A component suspends, throws, or is refused a nested renderer.
LEMMA InterruptKeeps ==
  ASSUME IDsInv, Suspend \/ Throw \/ NestedRefused
  PROVE  IDsInv'
<1>. AtChild /\ UNCHANGED <<freeList, currentThreadID, requests>>
  BY DEF Suspend, Throw, NestedRefused, AtElement
<1>. /\ calls # <<>> /\ IsRenderer(Next1) /\ Similar(Me, Next1)
     /\ {"renderer", "previous"} \subseteq DOMAIN Call /\ SameRenderer(Call, Call)
  BY AtChildFacts, CallIsCall DEF IsCall
<1>1. CASE Suspend
  <2>. DEFINE w == Written(Call, Me.depth, <<>>)
  <2>1. SameRenderer(Call, w)
    BY WrittenSame
  <2>2. SameRenderer(Call, [w EXCEPT !.suspended = TRUE])
    BY <2>1 DEF SameRenderer
  <2>. QED
    BY <1>1, <2>2, BecomeKeeps DEF Suspend
<1>2. SameRenderer(Call, [Call EXCEPT !.failed = TRUE])
  BY DEF SameRenderer
<1>3. CASE Throw
  BY <1>2, <1>3, BecomeKeeps DEF Throw
<1>4. CASE NestedRefused
  <2>1. Similar(Me, Returned(Next1, Target.of))
    BY ReturnedSimilar, SimilarTransitive
  <2>. QED
    BY <1>2, <1>4, <2>1, BecomeKeeps DEF NestedRefused
<1>. QED
  BY <1>1, <1>3, <1>4

\* A frame is left.
LEMMA FinishKeeps ==
  ASSUME IDsInv, FinishFrame \/ FinishProvider \/ FinishBoundary \/ ShowFallback
  PROVE  IDsInv'
<1>. calls # <<>> /\ UNCHANGED <<freeList, currentThreadID, requests>>
  BY DEF FinishFrame, FinishProvider, FinishBoundary, ShowFallback, AtFrameEnd, InLoop
<1>. IsRenderer(Me) /\ {"renderer", "previous"} \subseteq DOMAIN Call
  BY CallIsCall DEF IsCall
<1>1. Similar(Me, FrameLeft(Me)) /\ IsRenderer(FrameLeft(Me))
  BY FrameLeftSimilar DEF Similar
<1>2. SameRenderer(Call, Written(Call, Me.depth, Top.footer))
  BY WrittenSame
<1>3. CASE FinishFrame
  BY <1>1, <1>2, <1>3, BecomeKeeps DEF FinishFrame
<1>4. CASE FinishProvider
  <2>1. Similar(Me, ProviderPopped(FrameLeft(Me)))
    BY <1>1, ProviderPoppedSimilar, SimilarTransitive
  <2>. QED
    BY <1>2, <1>4, <2>1, BecomeKeeps DEF FinishProvider
<1>5. Similar(Me, BoundaryLeft) /\ IsRenderer(BoundaryLeft)
  BY <1>1 DEF BoundaryLeft, Similar, IsRenderer
<1>. DEFINE c == [Call EXCEPT !.out = Front(@)]
<1>6. SameRenderer(Call, c)
  BY DEF SameRenderer
<1>7. \A depth, markup : SameRenderer(Call, Written(c, depth, markup))
  BY <1>6, WrittenSame DEF SameRenderer
<1>8. CASE FinishBoundary
  BY <1>5, <1>7, <1>8, BecomeKeeps DEF FinishBoundary
<1>9. CASE ShowFallback
  <2>. DEFINE w == Written(c, Me.depth - 1, <<OpenFallback>>)
  <2>1. Similar(Me, PushFrame(BoundaryLeft, FallbackFrame))
    BY <1>5, PushSimilar, SimilarTransitive
  <2>2. SameRenderer(Call, w)
    BY <1>7
  <2>3. SameRenderer(Call, [w EXCEPT !.suspended = FALSE])
    BY <2>2 DEF SameRenderer
  <2>. QED
    BY <1>9, <2>1, <2>3, BecomeKeeps DEF ShowFallback
<1>. QED
  BY <1>3, <1>4, <1>8, <1>9
-----------------------------------------------------------------------------
\* A new renderer, with the ID that the allocator hands out.
LEMMA NewRendererIsRenderer ==
  ASSUME NEW e, NEW isStatic
  PROVE  /\ IsRenderer(NewRenderer(e, isStatic)) /\ ~NewRenderer(e, isStatic).exhausted
         /\ NewRenderer(e, isStatic).threadID = AllocatedID(freeList)
BY DEF NewRenderer, IsRenderer

\* A read starts with a renderer that exists, and remembers a thread ID.
LEMMA ReadCallIsCall ==
  ASSUME currentThreadID \in Nat, NEW r, NEW rs, r \in DOMAIN rs, NEW bounded, NEW nested
  PROVE  IsCall(ReadCall(r, bounded, nested), rs)
BY DEF ReadCall, IsCall

\* An ID that is handed out is a number, ...
LEMMA AllocatedIsNat ==
  ASSUME NEW list, NEW rs, IDsHeld(list, rs)
  PROVE  AllocatedID(list) \in Nat
BY SizesAssumption DEF IDsHeld, IsFreeList, AllocatedID

\* ... and so is the ID of an unfinished renderer.
LEMMA IDIsNat ==
  ASSUME IDsInv, NEW r \in DOMAIN renderers, ~renderers[r].exhausted
  PROVE  renderers[r].threadID \in Nat
BY DEF IDsInv, IDsHeld, IDs

\* A nested call takes an ID while the renderers around it keep theirs.
LEMMA CallNestedKeeps ==
  ASSUME IDsInv, CallNested
  PROVE  IDsInv'
<1>. DEFINE rs  == [renderers EXCEPT ![Call.renderer] = Next1]
            new == NewRenderer(Shape[Target.of].inner, FALSE)
<1>1. /\ AtChild /\ CanAlloc(freeList) /\ UNCHANGED requests
      /\ renderers' = Append(rs, new) /\ freeList' = AfterAlloc(freeList)
      /\ calls' = Append(calls, ReadCall(Len(renderers'), FALSE, Target.of))
  BY DEF CallNested, AtElement
<1>2. IDsHeld(freeList, rs) /\ DOMAIN rs = DOMAIN renderers
  <2>1. calls # <<>> /\ Similar(Me, Next1)
    BY <1>1, AtChildFacts
  <2>2. Call.renderer \in DOMAIN renderers /\ Similar(renderers[Call.renderer], Next1)
    BY <2>1, CallIsCall DEF IsCall
  <2>. QED
    BY <2>2, KeepsIDs DEF IDsInv
<1>. HIDE DEF rs
<1>3. /\ IDsHeld(freeList', renderers')
      /\ Len(renderers') \in DOMAIN renderers' /\ DOMAIN renderers \subseteq DOMAIN renderers'
  BY <1>1, <1>2, NewRendererIsRenderer, TakesID
<1>4. IsCall(ReadCall(Len(renderers'), FALSE, Target.of), renderers')
  BY <1>3, ReadCallIsCall DEF IDsInv
<1>5. CallsOK'
  <2>. DEFINE c == ReadCall(Len(renderers'), FALSE, Target.of)
  <2>1. IsSeq(calls)
    BY DEF IDsInv, CallsOK
  <2>2. calls' = Append(calls, c) /\ IsCall(c, renderers')
    BY <1>1, <1>4
  <2>. HIDE DEF c
  <2>3. /\ IsSeq(calls') /\ DOMAIN calls' = DOMAIN calls \cup {Len(calls) + 1}
        /\ calls'[Len(calls) + 1] = c /\ \A i \in DOMAIN calls : calls'[i] = calls[i]
    BY <2>1, <2>2, AppendIsSeq
  <2>. QED
    BY <1>3, <2>2, <2>3 DEF IDsInv, CallsOK, IsCall
<1>6. currentThreadID' \in Nat
  BY AllocatedIsNat DEF CallNested, IDsInv
<1>. QED
  BY <1>1, <1>3, <1>5, <1>6, RequestsKept DEF IDsInv

\* A request takes an ID.
LEMMA StartKeeps ==
  ASSUME IDsInv, NEW q \in Request, Start(q)
  PROVE  IDsInv'
<1>1. /\ calls = <<>> /\ CanAlloc(freeList) /\ freeList' = AfterAlloc(freeList)
      /\ renderers' = Append(renderers, NewRenderer(Root[q], q \in Static))
      /\ requests' = [requests EXCEPT ![q].status = "active", ![q].renderer = Len(renderers')]
      /\ \/ calls' = calls
         \/ calls' = <<ReadCall(Len(renderers'), FALSE, None)>>
  BY DEF Start
<1>2. /\ IDsHeld(freeList', renderers')
      /\ Len(renderers') \in DOMAIN renderers' /\ DOMAIN renderers \subseteq DOMAIN renderers'
  BY <1>1, NewRendererIsRenderer, TakesID DEF IDsInv
<1>3. CallsOK'
  <2>1. CASE calls' = calls
    BY <1>2, <2>1 DEF IDsInv, CallsOK, IsCall
  <2>2. CASE calls' = <<ReadCall(Len(renderers'), FALSE, None)>>
    <3>. DEFINE c == ReadCall(Len(renderers'), FALSE, None)
    <3>1. IsCall(c, renderers')
      BY <1>2, ReadCallIsCall DEF IDsInv
    <3>. HIDE DEF c
    <3>2. <<c>> \in Seq({c}) /\ DOMAIN <<c>> = {1} /\ <<c>>[1] = c
      OBVIOUS
    <3>. QED
      BY <2>2, <3>1, <3>2 DEF CallsOK, IsSeq, c
  <2>. QED
    BY <1>1, <2>1, <2>2
<1>4. RequestsOK'
  <2>1. \A p \in Request : {"status", "renderer"} \subseteq DOMAIN requests[p]
    BY DEF IDsInv, RequestsOK
  <2>2. DOMAIN requests = Request
    BY DEF IDsInv, RequestsOK
  <2>3. /\ DOMAIN requests' = Request
        /\ \A p \in Request \ {q} : requests'[p] = requests[p]
        /\ {"status", "renderer"} \subseteq DOMAIN requests'[q]
        /\ requests'[q].renderer \in DOMAIN renderers'
    BY <1>1, <1>2, <2>1, <2>2
  <2>4. \A p \in Request :
          /\ {"status", "renderer"} \subseteq DOMAIN requests'[p]
          /\ requests'[p].status = "active" => requests'[p].renderer \in DOMAIN renderers'
    BY <1>2, <2>1, <2>3 DEF IDsInv, RequestsOK
  <2>. QED
    BY <2>3, <2>4 DEF RequestsOK
<1>5. currentThreadID' \in Nat
  BY AllocatedIsNat DEF Start, IDsInv
<1>. QED
  BY <1>2, <1>3, <1>4, <1>5 DEF IDsInv
-----------------------------------------------------------------------------
\* A renderer that has rendered its tree gives its ID back.
LEMMA ExhaustKeeps ==
  ASSUME IDsInv, Exhaust
  PROVE  IDsInv'
<1>. DEFINE x == [Me EXCEPT !.exhausted = TRUE]
<1>1. /\ calls # <<>> /\ ~Me.exhausted /\ Become(x, Call)
      /\ UNCHANGED <<requests, currentThreadID>>
      /\ freeList' = AfterFree(freeList, Me.threadID)
  BY DEF Exhaust, InLoop
<1>2. /\ Call.renderer \in DOMAIN renderers /\ Me = renderers[Call.renderer]
      /\ IsRenderer(Me) /\ SameRenderer(Call, Call)
  BY <1>1, CallIsCall DEF IsCall, SameRenderer
<1>3. IsRenderer(x) /\ x.exhausted = TRUE
  BY <1>2 DEF IsRenderer
<1>. HIDE DEF x
<1>4. IDsHeld(freeList', renderers') /\ DOMAIN renderers' = DOMAIN renderers
  BY <1>1, <1>2, <1>3, GivesID DEF IDsInv, Become
<1>5. CallsOK'
  BY <1>1, <1>2, <1>4, CallsKept DEF Become
<1>. QED
  BY <1>1, <1>4, <1>5, RequestsKept DEF IDsInv

\* destroy() frees the ID of a renderer once, and no other.
LEMMA DestroyGives ==
  ASSUME IDsInv, NEW r \in DOMAIN renderers, Destroy(r)
  PROVE  IDsHeld(freeList', Destroyed(r)) /\ DOMAIN Destroyed(r) = DOMAIN renderers
<1>. DEFINE x == [renderers[r] EXCEPT !.exhausted = TRUE]
<1>1. IsRenderer(x) /\ x.exhausted = TRUE
  BY DEF IDsInv, IDsHeld, IsRenderer
<1>2. Destroyed(r) = [renderers EXCEPT ![r] = x]
  BY DEF Destroyed
<1>3. freeList' = IF renderers[r].exhausted THEN freeList
                  ELSE AfterFree(freeList, renderers[r].threadID)
  BY DEF Destroy
<1>4. IDsHeld(freeList, renderers)
  BY DEF IDsInv
<1>. HIDE DEF x
<1>5. LET t == [renderers EXCEPT ![r] = x]
      IN  IDsHeld(freeList', t) /\ DOMAIN t = DOMAIN renderers
  BY <1>1, <1>3, <1>4, GivesID
<1>. QED
  BY <1>2, <1>5

\* The reads around the one that is left keep their renderers, ...
LEMMA LeaveKeeps ==
  ASSUME IDsInv, calls # <<>>, calls' = Front(calls), DOMAIN renderers \subseteq DOMAIN renderers'
  PROVE  CallsOK'
<1>1. IsSeq(calls) /\ \A i \in DOMAIN calls : IsCall(calls[i], renderers)
  BY DEF IDsInv, CallsOK
<1>2. /\ Len(calls) \in Nat /\ IsSeq(calls') /\ DOMAIN calls' = 1 .. Len(calls) - 1
      /\ DOMAIN calls = 1 .. Len(calls)
      /\ \A i \in 1 .. Len(calls) - 1 : calls'[i] = calls[i]
  BY <1>1, FrontIsSeq
<1>. QED
  BY <1>1, <1>2 DEF CallsOK, IsCall

\* ... and the thread ID is again the one of before, ...
LEMMA RestoredIsNat ==
  ASSUME IDsInv, calls # <<>>, currentThreadID' = ThreadIDRestored
  PROVE  currentThreadID' \in Nat
BY CallIsCall DEF ThreadIDRestored, IsCall

\* ... and what a caller gets does not concern the renderer of its request.
LEMMA OutcomeKeeps ==
  ASSUME RequestsOK, NEW q \in Request, NEW status, NEW markup, Outcome(q, status, markup),
         DOMAIN renderers \subseteq DOMAIN renderers',
         status = "active" => requests[q].renderer \in DOMAIN renderers
  PROVE  RequestsOK'
<1>1. DOMAIN requests = Request /\ {"status", "renderer"} \subseteq DOMAIN requests[q]
  BY DEF RequestsOK
<1>2. /\ DOMAIN requests' = Request
      /\ \A p \in Request \ {q} : requests'[p] = requests[p]
      /\ {"status", "renderer"} \subseteq DOMAIN requests'[q]
      /\ requests'[q].renderer = requests[q].renderer /\ requests'[q].status = status
  BY <1>1 DEF Outcome
<1>. QED
  BY <1>1, <1>2 DEF RequestsOK

\* A read ends, with the renderer destroyed or left to the stream.
LEMMA ReadEnds ==
  ASSUME IDsInv, NEW q \in Request, ReadReturns(q) \/ ReadFails(q)
  PROVE  IDsInv'
<1>1. /\ calls # <<>> /\ AtRequest(q) /\ calls' = Front(calls)
      /\ currentThreadID' = ThreadIDRestored
  BY DEF ReadReturns, ReadFails, Returns, Fails, Leave
<1>2. Call.renderer \in DOMAIN renderers /\ requests[q].renderer = Call.renderer
  BY <1>1, CallIsCall DEF IsCall, AtRequest
<1>3. CASE UNCHANGED <<freeList, renderers>> /\ \E m : Outcome(q, "active", m)
  BY <1>1, <1>2, <1>3, LeaveKeeps, OutcomeKeeps, RestoredIsNat DEF IDsInv
<1>4. CASE /\ Destroy(Call.renderer) /\ renderers' = Destroyed(Call.renderer)
           /\ \E status \in {"done", "failed"} : \E m : Outcome(q, status, m)
  <2>1. IDsHeld(freeList', renderers') /\ DOMAIN renderers' = DOMAIN renderers
    BY <1>2, <1>4, DestroyGives
  <2>2. CallsOK'
    BY <1>1, <2>1, LeaveKeeps
  <2>3. RequestsOK'
    BY <1>4, <2>1, OutcomeKeeps DEF IDsInv
  <2>. QED
    BY <1>1, <2>1, <2>2, <2>3, RestoredIsNat DEF IDsInv
<1>. QED
  BY <1>3, <1>4 DEF ReadReturns, ReadFails

\* A nested read ends: its renderer gives back its ID, the one around it goes on.
LEMMA NestedEnds ==
  ASSUME IDsInv, NestedReturns \/ NestedCaught \/ NestedFails
  PROVE  IDsInv'
<1>1. /\ calls # <<>> /\ Len(calls) > 1 /\ Destroy(Call.renderer) /\ UNCHANGED requests
      /\ currentThreadID' = ThreadIDRestored
      /\ \/ /\ calls' = Front(calls)
            /\ renderers' = [Destroyed(Call.renderer) EXCEPT ![Outer] = Returned(@, Call.nested)]
         \/ /\ calls' = [Front(calls) EXCEPT ![Len(calls) - 1].failed = TRUE]
            /\ renderers' = Destroyed(Call.renderer)
  BY DEF NestedReturns, NestedCaught, NestedFails, Returns, Fails, Leave
<1>2. IsSeq(calls) /\ \A i \in DOMAIN calls : IsCall(calls[i], renderers)
  BY DEF IDsInv, CallsOK
<1>3. /\ Len(calls) \in Nat /\ DOMAIN calls = 1 .. Len(calls)
      /\ Len(calls) - 1 \in 1 .. Len(calls) - 1
      /\ IsSeq(Front(calls)) /\ DOMAIN Front(calls) = 1 .. Len(calls) - 1
      /\ \A i \in 1 .. Len(calls) - 1 : Front(calls)[i] = calls[i]
  BY <1>1, <1>2, FrontIsSeq
<1>4. Outer \in DOMAIN renderers
  BY <1>1, <1>2, <1>3 DEF Outer, IsCall
<1>. DEFINE rs == Destroyed(Call.renderer)
<1>5. IDsHeld(freeList', rs) /\ DOMAIN rs = DOMAIN renderers
  BY <1>1, CallIsCall, DestroyGives DEF IsCall
<1>. HIDE DEF rs
<1>6. CASE /\ calls' = Front(calls)
           /\ renderers' = [rs EXCEPT ![Outer] = Returned(@, Call.nested)]
  <2>1. Similar(rs[Outer], Returned(rs[Outer], Call.nested))
    BY <1>4, <1>5, ReturnedSimilar DEF IDsHeld
  <2>2. IDsHeld(freeList', renderers') /\ DOMAIN renderers' = DOMAIN renderers
    BY <1>4, <1>5, <1>6, <2>1, KeepsIDs
  <2>. QED
    BY <1>1, <1>6, <2>2, LeaveKeeps, RequestsKept, RestoredIsNat DEF IDsInv
<1>7. CASE calls' = [Front(calls) EXCEPT ![Len(calls) - 1].failed = TRUE] /\ renderers' = rs
  <2>. DEFINE n == Len(calls) - 1
              c == [Front(calls)[n] EXCEPT !.failed = TRUE]
  <2>1. IsCall(c, renderers)
    BY <1>2, <1>3 DEF IsCall
  <2>2. calls' = [Front(calls) EXCEPT ![n] = c]
    BY <1>7
  <2>. HIDE DEF c
  <2>3. /\ IsSeq(calls') /\ DOMAIN calls' = DOMAIN Front(calls) /\ calls'[n] = c
        /\ \A i \in DOMAIN Front(calls) \ {n} : calls'[i] = Front(calls)[i]
    BY <1>3, <2>2, ExceptIsSeq
  <2>4. CallsOK'
    BY <1>2, <1>3, <1>5, <1>7, <2>1, <2>3 DEF CallsOK, IsCall
  <2>. QED
    BY <1>1, <1>5, <1>7, <2>4, RequestsKept, RestoredIsNat DEF IDsInv
<1>. QED
  BY <1>1, <1>6, <1>7 DEF rs

\* The callers' other steps.
LEMMA ClientKeeps ==
  ASSUME IDsInv, NEW q \in Request, StartRefused(q) \/ StreamReads(q) \/ StreamDestroyed(q)
  PROVE  IDsInv'
<1>1. CASE StartRefused(q)
  <2>1. /\ UNCHANGED <<freeList, renderers, calls, currentThreadID>>
        /\ Outcome(q, "failed", <<>>)
    BY <1>1 DEF StartRefused
  <2>. QED
    BY <2>1, OutcomeKeeps DEF IDsInv, CallsOK
<1>2. CASE StreamReads(q)
  <2>1. /\ UNCHANGED <<freeList, renderers>> /\ requests[q].renderer \in DOMAIN renderers
        /\ \/ Outcome(q, "done", <<>>) /\ UNCHANGED <<calls, currentThreadID>>
           \/ /\ ~renderers[requests[q].renderer].exhausted
              /\ calls' = <<ReadCall(requests[q].renderer, TRUE, None)>>
              /\ currentThreadID' = renderers[requests[q].renderer].threadID
              /\ UNCHANGED requests
    BY <1>2 DEF StreamReads, IDsInv, RequestsOK
  <2>2. CASE Outcome(q, "done", <<>>) /\ UNCHANGED <<calls, currentThreadID>>
    BY <2>1, <2>2, OutcomeKeeps DEF IDsInv, CallsOK
  <2>3. CASE /\ ~renderers[requests[q].renderer].exhausted
             /\ calls' = <<ReadCall(requests[q].renderer, TRUE, None)>>
             /\ currentThreadID' = renderers[requests[q].renderer].threadID
             /\ UNCHANGED requests
    <3>. DEFINE c == ReadCall(requests[q].renderer, TRUE, None)
    <3>1. IsCall(c, renderers')
      BY <2>1, ReadCallIsCall DEF IDsInv
    <3>. HIDE DEF c
    <3>2. <<c>> \in Seq({c}) /\ DOMAIN <<c>> = {1} /\ <<c>>[1] = c
      OBVIOUS
    <3>3. CallsOK'
      BY <2>3, <3>1, <3>2 DEF CallsOK, IsSeq, c
    <3>. QED
      BY <2>1, <2>3, <3>3, RequestsKept, IDIsNat DEF IDsInv
  <2>. QED
    BY <2>1, <2>2, <2>3
<1>3. CASE StreamDestroyed(q)
  <2>. DEFINE r == requests[q].renderer
  <2>1. /\ r \in DOMAIN renderers /\ Destroy(r) /\ renderers' = Destroyed(r)
        /\ Outcome(q, "destroyed", <<>>) /\ UNCHANGED <<calls, currentThreadID>>
    BY <1>3 DEF StreamDestroyed, IDsInv, RequestsOK
  <2>2. IDsHeld(freeList', renderers') /\ DOMAIN renderers' = DOMAIN renderers
    BY <2>1, DestroyGives
  <2>3. CallsOK'
    BY <2>1, <2>2 DEF IDsInv, CallsOK, IsCall
  <2>. QED
    BY <2>1, <2>2, <2>3, OutcomeKeeps DEF IDsInv
<1>. QED
  BY <1>1, <1>2, <1>3
-----------------------------------------------------------------------------
\* Before the first request every ID is free.
LEMMA InitEstablishes ==
  ASSUME Init
  PROVE  IDsInv
<1>1. IsSeq(<<>>) /\ DOMAIN <<>> = {}
  BY DEF IsSeq
<1>2. HeldBy(<<>>) = {}
  BY <1>1 DEF HeldBy
<1>3. IDsHeld(InitialList, <<>>)
  BY <1>1, <1>2, InitialListIntact DEF IDsHeld
<1>4. RequestsOK
  BY DEF Init, RequestsOK
<1>. QED
  BY <1>1, <1>3, <1>4 DEF Init, IDsInv, CallsOK

\* Each step keeps the IDs accounted for.
LEMMA NextKeeps ==
  ASSUME IDsInv, [Next]_vars
  PROVE  IDsInv'
<1>1. CASE RunStep
  BY <1>1, RenderKeeps, InterruptKeeps, CallNestedKeeps, FinishKeeps, ExhaustKeeps, NestedEnds
     DEF RunStep
<1>2. CASE ClientStep
  BY <1>2, StartKeeps, ClientKeeps, ReadEnds DEF ClientStep
<1>3. CASE \E q \in Request : StreamDestroyed(q)
  BY <1>3, ClientKeeps
<1>4. CASE UNCHANGED vars
  BY <1>4 DEF vars, IDsInv, CallsOK, RequestsOK
<1>. QED
  BY <1>1, <1>2, <1>3, <1>4 DEF Next

\* Every unfinished renderer holds an ID that no other one holds, and reads and
\* streams have renderers: IDsInv holds in every run.
THEOREM IDsInvariant == Spec => []IDsInv
<1>1. Init => IDsInv
  BY InitEstablishes
<1>2. IDsInv /\ [Next]_vars => IDsInv'
  BY NextKeeps
<1>. QED
  BY <1>1, <1>2, PTL DEF Spec

\* Whatever is rendered, and however requests and nested calls end, no ID is lost
\* and none is handed out twice.
THEOREM SyncThreadIDsAccounted == Spec => []ThreadIDsAccounted
<1>1. IDsInv => ThreadIDsAccounted
  BY DEF IDsInv, IDsHeld, HeldBy, ThreadIDsAccounted, Live
<1>. QED
  BY <1>1, IDsInvariant, PTL
-----------------------------------------------------------------------------
Fields ==
  {"threadID", "exhausted", "stack", "providers", "contextStack", "contextValueStack"}

ProviderFrames(stack) == { i \in DOMAIN stack : stack[i].kind = "provider" }

FramesOK(stack) == IsSeq(stack) /\ \A i \in DOMAIN stack : "kind" \in DOMAIN stack[i]

\* A renderer remembers one value for each provider it is in.
StackOK(x) ==
  /\ Fields \subseteq DOMAIN x
  /\ FramesOK(x.stack)
  /\ x.providers \in Nat /\ x.providers = Cardinality(ProviderFrames(x.stack))
  /\ IsSeq(x.contextStack) /\ IsSeq(x.contextValueStack)
  /\ Len(x.contextStack) = Len(x.contextValueStack) /\ x.providers <= Len(x.contextStack)

AtDefault(s, c, id) == id + 1 \in DOMAIN s => s[id + 1] = Default[c]

Mine(x, c) == { i \in 1 .. x.providers : x.contextStack[i] = c }

\* What the outermost provider of a context has remembered is the default: this is
\* what leaving or clearing the providers ends with.
Restorable(x, c, s) ==
  \/ Mine(x, c) = {} /\ AtDefault(s, c, x.threadID)
  \/ \E i \in Mine(x, c) :
       (\A j \in Mine(x, c) : i <= j) /\ x.contextValueStack[i] = Default[c]

RendererOK(x, slots) ==
  ~x.exhausted => StackOK(x) /\ \A c \in Context : Restorable(x, c, slots[c])

SlotsOK(slots, rs) ==
  /\ DOMAIN slots = Context /\ \A c \in Context : IsSeq(slots[c])
  /\ \A r \in DOMAIN rs : RendererOK(rs[r], slots)
  /\ \A c \in Context, id \in Nat :
       (\A r \in DOMAIN rs : ~rs[r].exhausted => rs[r].threadID # id)
         => AtDefault(slots[c], c, id)

SlotsInv == SlotsOK(slot, renderers)
-----------------------------------------------------------------------------
\* The slots change for one renderer, and only under its ID; the others have
\* other IDs.
LEMMA OneRenderer ==
  ASSUME NEW list, NEW rs, IDsHeld(list, rs), NEW slots, SlotsOK(slots, rs),
         NEW n \in DOMAIN rs, ~rs[n].exhausted, NEW x, Similar(rs[n], x),
         NEW after, DOMAIN after = Context, \A c \in Context : IsSeq(after[c]),
         RendererOK(x, after),
         \A c \in Context, id \in Nat :
           id # x.threadID /\ AtDefault(slots[c], c, id) => AtDefault(after[c], c, id)
  PROVE  SlotsOK(after, [rs EXCEPT ![n] = x])
<1>. DEFINE t == [rs EXCEPT ![n] = x]
<1>1. DOMAIN t = DOMAIN rs /\ t[n] = x /\ \A i \in DOMAIN rs \ {n} : t[i] = rs[i]
  BY ExceptIsSeq DEF IDsHeld
<1>. HIDE DEF t
<1>2. ASSUME NEW r \in DOMAIN rs \ {n}, ~rs[r].exhausted
      PROVE  RendererOK(rs[r], after)
  <2>1. rs[r].threadID # x.threadID /\ rs[r].threadID \in Nat
    BY <1>2 DEF IDsHeld, Similar, IDs
  <2>2. StackOK(rs[r]) /\ \A c \in Context : Restorable(rs[r], c, slots[c])
    BY <1>2 DEF SlotsOK, RendererOK
  <2>3. \A c \in Context : Restorable(rs[r], c, after[c])
    BY <2>1, <2>2 DEF Restorable
  <2>. QED
    BY <2>2, <2>3 DEF RendererOK
<1>3. \A r \in DOMAIN t : RendererOK(t[r], after)
  BY <1>1, <1>2 DEF RendererOK
<1>4. ASSUME NEW c \in Context, NEW id \in Nat,
             \A r \in DOMAIN t : ~t[r].exhausted => t[r].threadID # id
      PROVE  AtDefault(after[c], c, id)
  <2>1. \A r \in DOMAIN rs : ~rs[r].exhausted => rs[r].threadID # id
    BY <1>1, <1>4 DEF Similar
  <2>2. AtDefault(slots[c], c, id)
    BY <2>1 DEF SlotsOK
  <2>3. id # x.threadID
    BY <1>1, <1>4 DEF Similar
  <2>. QED
    BY <2>2, <2>3
<1>5. SlotsOK(after, t)
  BY <1>3, <1>4 DEF SlotsOK
<1>. QED
  BY <1>5 DEF t

\* A renderer ends, with every context at its default under its ID.
LEMMA RendererEnds ==
  ASSUME NEW list, NEW rs, IDsHeld(list, rs), NEW slots, SlotsOK(slots, rs),
         NEW n \in DOMAIN rs, NEW x, x.exhausted = TRUE,
         NEW after, DOMAIN after = Context, \A c \in Context : IsSeq(after[c]),
         \A c \in Context, id \in Nat :
           id # rs[n].threadID /\ AtDefault(slots[c], c, id) => AtDefault(after[c], c, id),
         IF rs[n].exhausted THEN after = slots
         ELSE \A c \in Context : AtDefault(after[c], c, rs[n].threadID)
  PROVE  SlotsOK(after, [rs EXCEPT ![n] = x])
<1>. DEFINE t == [rs EXCEPT ![n] = x]
<1>1. DOMAIN t = DOMAIN rs /\ t[n] = x /\ \A i \in DOMAIN rs \ {n} : t[i] = rs[i]
  BY ExceptIsSeq DEF IDsHeld
<1>. HIDE DEF t
<1>2. ASSUME NEW r \in DOMAIN rs \ {n}, ~rs[r].exhausted
      PROVE  RendererOK(rs[r], after)
  <2>1. StackOK(rs[r]) /\ \A c \in Context : Restorable(rs[r], c, slots[c])
    BY <1>2 DEF SlotsOK, RendererOK
  <2>2. CASE rs[n].exhausted
    BY <2>1, <2>2 DEF RendererOK
  <2>3. CASE ~rs[n].exhausted
    <3>1. rs[r].threadID # rs[n].threadID /\ rs[r].threadID \in Nat
      BY <1>2, <2>3 DEF IDsHeld, IDs
    <3>2. \A c \in Context : Restorable(rs[r], c, after[c])
      BY <2>1, <3>1 DEF Restorable
    <3>. QED
      BY <2>1, <3>2 DEF RendererOK
  <2>. QED
    BY <2>2, <2>3
<1>3. \A r \in DOMAIN t : RendererOK(t[r], after)
  BY <1>1, <1>2 DEF RendererOK
<1>4. ASSUME NEW c \in Context, NEW id \in Nat,
             \A r \in DOMAIN t : ~t[r].exhausted => t[r].threadID # id
      PROVE  AtDefault(after[c], c, id)
  <2>1. \A r \in DOMAIN rs \ {n} : ~rs[r].exhausted => rs[r].threadID # id
    BY <1>1, <1>4
  <2>2. CASE rs[n].exhausted
    BY <2>1, <2>2 DEF SlotsOK
  <2>3. CASE ~rs[n].exhausted /\ id = rs[n].threadID
    BY <2>3
  <2>4. CASE id # rs[n].threadID
    BY <2>1, <2>4 DEF SlotsOK
  <2>. QED
    BY <2>2, <2>3, <2>4
<1>5. SlotsOK(after, t)
  BY <1>3, <1>4 DEF SlotsOK
<1>. QED
  BY <1>5 DEF t

\* A new renderer is in no provider, and its ID was nobody's.
LEMMA RendererBegins ==
  ASSUME NEW list, NEW rs, IDsHeld(list, rs), CanAlloc(list), NEW slots, SlotsOK(slots, rs),
         NEW x, ~x.exhausted, StackOK(x), x.providers = 0, x.threadID = AllocatedID(list)
  PROVE  SlotsOK(slots, Append(rs, x))
<1>. DEFINE t == Append(rs, x)
            n == Len(rs) + 1
<1>1. /\ DOMAIN t = DOMAIN rs \cup {n} /\ t[n] = x
      /\ n \notin DOMAIN rs /\ \A i \in DOMAIN rs : t[i] = rs[i]
  BY AppendIsSeq DEF IDsHeld
<1>. HIDE DEF t, n
<1>2. HeldBy(rs) \subseteq IDs(list)
  BY DEF HeldBy, IDsHeld
<1>3. AllocatedID(list) \notin HeldBy(rs)
  BY <1>2, AllocTakesFree DEF IDsHeld
<1>4. \A r \in DOMAIN rs : ~rs[r].exhausted => rs[r].threadID # x.threadID
  BY <1>3 DEF HeldBy
<1>5. x.threadID \in Nat
  BY AllocatedIsNat
<1>6. \A c \in Context : AtDefault(slots[c], c, x.threadID)
  BY <1>4, <1>5 DEF SlotsOK
<1>7. \A c : Mine(x, c) = {}
  BY DEF Mine
<1>8. RendererOK(x, slots)
  BY <1>6, <1>7 DEF RendererOK, Restorable
<1>9. SlotsOK(slots, t)
  BY <1>1, <1>8 DEF SlotsOK
<1>. QED
  BY <1>9 DEF t
-----------------------------------------------------------------------------
\* A renderer goes on in the same providers.
SameProviders(x, y) ==
  /\ Fields \subseteq DOMAIN y /\ FramesOK(y.stack)
  /\ ProviderFrames(y.stack) = ProviderFrames(x.stack)
  /\ x.threadID = y.threadID /\ x.exhausted = y.exhausted /\ x.providers = y.providers
  /\ x.contextStack = y.contextStack /\ x.contextValueStack = y.contextValueStack

\* A renderer in the same providers restores the same.
LEMMA SameProvidersOK ==
  ASSUME NEW x, NEW y, StackOK(x), SameProviders(x, y)
  PROVE  /\ StackOK(y) /\ Similar(x, y)
         /\ \A c, s : Restorable(x, c, s) => Restorable(y, c, s)
<1>1. StackOK(y) /\ Similar(x, y)
  BY DEF StackOK, SameProviders, Similar, IsRenderer, Fields
<1>2. \A c : Mine(x, c) = Mine(y, c)
  BY DEF Mine, SameProviders
<1>3. \A c, s : Restorable(x, c, s) => Restorable(y, c, s)
  BY <1>2 DEF Restorable, SameProviders
<1>. QED
  BY <1>1, <1>3

\* Two changes that keep the providers keep them together.
LEMMA SameProvidersTransitive ==
  ASSUME NEW x, NEW y, NEW z, SameProviders(x, y), SameProviders(y, z)
  PROVE  SameProviders(x, z)
BY DEF SameProviders

\* Entering a frame that is no provider.
LEMMA PushSame ==
  ASSUME NEW x, StackOK(x), NEW frame, "kind" \in DOMAIN frame, frame.kind # "provider"
  PROVE  SameProviders(x, PushFrame(x, frame))
<1>. DEFINE s == Append(x.stack, frame)
            y == PushFrame(x, frame)
<1>1. y = [x EXCEPT !.stack = s] /\ IsSeq(x.stack)
  BY DEF PushFrame, StackOK, FramesOK
<1>2. /\ IsSeq(s) /\ DOMAIN s = DOMAIN x.stack \cup {Len(x.stack) + 1}
      /\ s[Len(x.stack) + 1] = frame /\ \A i \in DOMAIN x.stack : s[i] = x.stack[i]
  BY <1>1, AppendIsSeq
<1>. HIDE DEF s
<1>3. FramesOK(s) /\ ProviderFrames(s) = ProviderFrames(x.stack)
  BY <1>2 DEF FramesOK, ProviderFrames, StackOK
<1>. QED
  BY <1>1, <1>3 DEF SameProviders, StackOK, Fields

\* The children of the innermost frame change.
LEMMA RestSame ==
  ASSUME NEW x, StackOK(x), NEW rest
  PROVE  SameProviders(x, [x EXCEPT !.stack[Len(x.stack)].rest = rest])
<1>. DEFINE f == [x.stack[Len(x.stack)] EXCEPT !.rest = rest]
            s == [x.stack EXCEPT ![Len(x.stack)] = f]
<1>0. IsSeq(x.stack)
  BY DEF StackOK, FramesOK
<1>. HIDE DEF f
<1>1. /\ IsSeq(s) /\ DOMAIN s = DOMAIN x.stack
      /\ \A i \in DOMAIN x.stack : s[i] = IF i = Len(x.stack) THEN f ELSE x.stack[i]
  BY <1>0, ExceptAny
<1>2. Len(x.stack) \in DOMAIN x.stack
        => "kind" \in DOMAIN f /\ f.kind = x.stack[Len(x.stack)].kind
  BY DEF StackOK, FramesOK, f
<1>. HIDE DEF s
<1>3. FramesOK(s) /\ ProviderFrames(s) = ProviderFrames(x.stack)
  BY <1>1, <1>2 DEF FramesOK, ProviderFrames, StackOK
<1>4. SameProviders(x, [x EXCEPT !.stack = s])
  BY <1>3 DEF SameProviders, StackOK, Fields
<1>. QED
  BY <1>4 DEF s, f

\* Leaving a frame.
LEMMA FrameLeftOK ==
  ASSUME NEW x, StackOK(x), x.stack # <<>>
  PROVE  LET y == FrameLeft(x)
         IN  /\ Fields \subseteq DOMAIN y /\ FramesOK(y.stack)
             /\ ProviderFrames(y.stack) = ProviderFrames(x.stack) \ {Len(x.stack)}
             /\ y.threadID = x.threadID /\ y.exhausted = x.exhausted
             /\ y.providers = x.providers /\ y.contextStack = x.contextStack
             /\ y.contextValueStack = x.contextValueStack
<1>. DEFINE s == Front(x.stack)
            y == FrameLeft(x)
<1>1. /\ Len(x.stack) \in Nat /\ IsSeq(s) /\ DOMAIN s = 1 .. Len(x.stack) - 1
      /\ DOMAIN x.stack = 1 .. Len(x.stack)
      /\ \A i \in 1 .. Len(x.stack) - 1 : s[i] = x.stack[i]
  BY FrontIsSeq DEF StackOK, FramesOK
<1>2. /\ DOMAIN y = DOMAIN x /\ y.stack = s
      /\ y.threadID = x.threadID /\ y.exhausted = x.exhausted
      /\ y.providers = x.providers /\ y.contextStack = x.contextStack
      /\ y.contextValueStack = x.contextValueStack
  BY DEF FrameLeft, StackOK, Fields
<1>. HIDE DEF s, y
<1>3. FramesOK(s) /\ ProviderFrames(s) = ProviderFrames(x.stack) \ {Len(x.stack)}
  BY <1>1, SMTT(60) DEF FramesOK, ProviderFrames, StackOK
<1>4. Fields \subseteq DOMAIN y
  BY <1>2 DEF StackOK
<1>. QED
  BY <1>2, <1>3, <1>4 DEF y
-----------------------------------------------------------------------------
\* validateContextBounds only adds defaults.
LEMMA BoundedOK ==
  ASSUME NEW c, IsSeq(slot[c]), NEW id \in Nat
  PROVE  /\ IsSeq(Bounded(c, id)) /\ id + 1 \in DOMAIN Bounded(c, id)
         /\ \A k \in Nat : AtDefault(slot[c], c, k) => AtDefault(Bounded(c, id), c, k)
         /\ AtDefault(slot[c], c, id) => ValueOf(c, id) = Default[c]
<1>. DEFINE n == IF Len(slot[c]) > id THEN Len(slot[c]) ELSE id + 1
            b == [i \in 1 .. n |-> IF i <= Len(slot[c]) THEN slot[c][i] ELSE Default[c]]
<1>1. PICK S : slot[c] \in Seq(S)
  BY DEF IsSeq
<1>2. /\ Len(slot[c]) \in Nat /\ DOMAIN slot[c] = 1 .. Len(slot[c])
      /\ \A i \in 1 .. Len(slot[c]) : slot[c][i] \in S
  BY <1>1
<1>3. n \in Nat /\ id + 1 \in 1 .. n
  BY <1>2
<1>4. b \in [1 .. n -> S \cup {Default[c]}]
  BY <1>2, <1>3
<1>5. Bounded(c, id) = b
  BY DEF Bounded
<1>. HIDE DEF n
<1>6. /\ DOMAIN b = 1 .. n
      /\ \A i \in 1 .. n : b[i] = IF i \in DOMAIN slot[c] THEN slot[c][i] ELSE Default[c]
  BY <1>2, <1>3
<1>. HIDE DEF b
<1>7. b \in Seq(S \cup {Default[c]})
  BY <1>3, <1>4
<1>. QED
  BY <1>3, <1>5, <1>6, <1>7 DEF IsSeq, AtDefault, ValueOf

\* pushProvider and popProvider assign to the arrays, and do not shorten them.
Stored(s, n, v) == IF n > Len(s) THEN Append(s, v) ELSE [s EXCEPT ![n] = v]

\* Stored puts a value where the counter points, and keeps those below it.
LEMMA StoreOK ==
  ASSUME NEW s, IsSeq(s), NEW n \in Nat, n >= 1, n <= Len(s) + 1, NEW v
  PROVE  /\ IsSeq(Stored(s, n, v))
         /\ Len(Stored(s, n, v)) = IF n > Len(s) THEN n ELSE Len(s)
         /\ Stored(s, n, v)[n] = v
         /\ \A i \in 1 .. n - 1 : Stored(s, n, v)[i] = s[i]
<1>. DEFINE t == Stored(s, n, v)
<1>1. Len(s) \in Nat /\ DOMAIN s = 1 .. Len(s)
  BY DEF IsSeq
<1>2. CASE n > Len(s)
  <2>1. n = Len(s) + 1
    BY <1>1, <1>2
  <2>. QED
    BY <1>1, <1>2, <2>1, AppendIsSeq DEF Stored
<1>3. CASE ~(n > Len(s))
  <2>1. n \in DOMAIN s /\ \A i \in 1 .. n - 1 : i \in DOMAIN s \ {n}
    BY <1>1, <1>3
  <2>2. t = [s EXCEPT ![n] = v]
    BY <1>3 DEF Stored
  <2>3. /\ IsSeq(t) /\ Len(t) = Len(s) /\ t[n] = v
        /\ \A i \in DOMAIN s \ {n} : t[i] = s[i]
    BY <2>1, <2>2, ExceptIsSeq, ZenonT(60)
  <2>. QED
    BY <1>3, <2>1, <2>3
<1>. QED
  BY <1>2, <1>3

\* A stack has finitely many providers.
LEMMA ProviderFramesFinite ==
  ASSUME NEW s, FramesOK(s)
  PROVE  IsFiniteSet(ProviderFrames(s)) /\ Len(s) \in Nat /\ DOMAIN s = 1 .. Len(s)
<1>1. Len(s) \in Nat /\ DOMAIN s = 1 .. Len(s)
  BY DEF FramesOK, IsSeq
<1>2. IsFiniteSet(1 .. Len(s))
  BY <1>1, FS_Interval
<1>3. ProviderFrames(s) \subseteq 1 .. Len(s)
  BY <1>1 DEF ProviderFrames
<1>. QED
  BY <1>1, <1>2, <1>3, FS_Subset

\* Entering a provider: what it remembers is the default unless there is one for
\* the same context around it.
LEMMA ProviderEntered ==
  ASSUME NEW x, StackOK(x), x.threadID \in Nat,
         NEW c, NEW kids,
         NEW y, y = ProviderPushed(PushFrame(x, Frame("provider", kids, <<>>)), c)
  PROVE  /\ StackOK(y) /\ Similar(x, y)
         /\ \A s : IsSeq(slot[c]) /\ Restorable(x, c, slot[c]) => Restorable(y, c, s)
         /\ \A d, s : d # c /\ Restorable(x, d, s) => Restorable(y, d, s)
<1>. DEFINE f     == Frame("provider", kids, <<>>)
            n     == x.providers + 1
            v     == ValueOf(c, x.threadID)
            stack == Append(x.stack, f)
            cs    == Stored(x.contextStack, n, c)
            vs    == Stored(x.contextValueStack, n, v)
<1>1. /\ Fields \subseteq DOMAIN x /\ IsSeq(x.stack) /\ FramesOK(x.stack)
      /\ x.providers \in Nat /\ x.providers = Cardinality(ProviderFrames(x.stack))
      /\ IsSeq(x.contextStack) /\ IsSeq(x.contextValueStack)
      /\ Len(x.contextStack) = Len(x.contextValueStack) /\ x.providers <= Len(x.contextStack)
      /\ Len(x.contextStack) \in Nat
  BY DEF StackOK, FramesOK, IsSeq
<1>2. /\ DOMAIN y = DOMAIN x /\ y.threadID = x.threadID /\ y.exhausted = x.exhausted
      /\ y.stack = stack /\ y.providers = n /\ y.contextStack = cs /\ y.contextValueStack = vs
  <2>. DEFINE p == PushFrame(x, f)
  <2>1. /\ DOMAIN p = DOMAIN x /\ p.threadID = x.threadID /\ p.exhausted = x.exhausted
        /\ p.stack = stack /\ p.providers = x.providers /\ p.contextStack = x.contextStack
        /\ p.contextValueStack = x.contextValueStack
    BY <1>1 DEF PushFrame, Fields
  <2>. HIDE DEF p, stack
  <2>2. y = ProviderPushed(p, c)
    BY DEF p
  <2>. QED
    BY <1>1, <2>1, <2>2, ZenonT(60) DEF ProviderPushed, Fields, Stored
<1>3. "kind" \in DOMAIN f /\ f.kind = "provider"
  BY DEF Frame
<1>. HIDE DEF f
<1>4. /\ IsSeq(stack) /\ Len(x.stack) \in Nat
      /\ DOMAIN stack = DOMAIN x.stack \cup {Len(x.stack) + 1}
      /\ stack[Len(x.stack) + 1] = f /\ \A i \in DOMAIN x.stack : stack[i] = x.stack[i]
  BY <1>1, AppendIsSeq
<1>. HIDE DEF stack
<1>5. /\ FramesOK(stack)
      /\ ProviderFrames(stack) = ProviderFrames(x.stack) \cup {Len(x.stack) + 1}
  BY <1>1, <1>3, <1>4 DEF FramesOK, ProviderFrames
<1>6. Cardinality(ProviderFrames(stack)) = n
  <2>1. IsFiniteSet(ProviderFrames(x.stack)) /\ DOMAIN x.stack = 1 .. Len(x.stack)
    BY <1>1, ProviderFramesFinite
  <2>2. Len(x.stack) + 1 \notin ProviderFrames(x.stack)
    BY <1>4, <2>1 DEF ProviderFrames
  <2>. DEFINE S == ProviderFrames(x.stack)
              k == Len(x.stack) + 1
  <2>3. IsFiniteSet(S) /\ k \notin S /\ Cardinality(S) = x.providers
    BY <1>1, <2>1, <2>2
  <2>. HIDE DEF S, k
  <2>4. Cardinality(S \cup {k}) = Cardinality(S) + 1
    BY <2>3, FS_AddElement
  <2>. QED
    BY <1>5, <2>3, <2>4 DEF S, k
<1>7. n \in Nat /\ n >= 1 /\ n <= Len(x.contextStack) + 1 /\ n <= Len(x.contextValueStack) + 1
  BY <1>1
<1>8. /\ IsSeq(cs) /\ Len(cs) = IF n > Len(x.contextStack) THEN n ELSE Len(x.contextStack)
      /\ cs[n] = c /\ \A i \in 1 .. n - 1 : cs[i] = x.contextStack[i]
  <2>. HIDE DEF n
  <2>. QED
    BY <1>1, <1>7, StoreOK
<1>9. /\ IsSeq(vs) /\ Len(vs) = IF n > Len(x.contextStack) THEN n ELSE Len(x.contextStack)
      /\ vs[n] = v /\ \A i \in 1 .. n - 1 : vs[i] = x.contextValueStack[i]
  <2>. HIDE DEF n, v
  <2>. QED
    BY <1>1, <1>7, StoreOK
<1>. HIDE DEF cs, vs
<1>10. StackOK(y) /\ Similar(x, y)
  <2>1. Similar(x, y)
    BY <1>1, <1>2 DEF Similar, IsRenderer, Fields
  <2>2. Len(cs) = Len(vs) /\ n <= Len(cs)
    BY <1>1, <1>7, <1>8, <1>9
  <2>. HIDE DEF n, v
  <2>3. StackOK(y)
    BY <1>1, <1>2, <1>5, <1>6, <1>7, <1>8, <1>9, <2>2 DEF StackOK
  <2>. QED
    BY <2>1, <2>3
<1>11. \A d : Mine(y, d) = Mine(x, d) \cup (IF d = c THEN {n} ELSE {})
  <2>1. \A i \in Int : i \in 1 .. n <=> i \in 1 .. n - 1 \/ i = n
    BY <1>7
  <2>2. x.providers = n - 1
    BY <1>1
  <2>. HIDE DEF n
  <2>. QED
    BY <1>2, <1>7, <1>8, <2>1, <2>2 DEF Mine
<1>12. \A d : \A i \in Mine(x, d) : i \in 1 .. n - 1 /\ i <= n /\ vs[i] = x.contextValueStack[i]
  BY <1>1, <1>9 DEF Mine
<1>13. ASSUME NEW s, IsSeq(slot[c]), Restorable(x, c, slot[c])
       PROVE  Restorable(y, c, s)
  <2>1. CASE Mine(x, c) = {} /\ AtDefault(slot[c], c, x.threadID)
    <3>1. v = Default[c]
      BY <1>13, <2>1, BoundedOK
    <3>2. Mine(y, c) = {n}
      BY <1>11, <2>1
    <3>. QED
      BY <1>2, <1>7, <1>9, <3>1, <3>2 DEF Restorable
  <2>2. CASE \E i \in Mine(x, c) :
               (\A j \in Mine(x, c) : i <= j) /\ x.contextValueStack[i] = Default[c]
    BY <1>2, <1>11, <1>12, <2>2 DEF Restorable
  <2>. QED
    BY <1>13, <2>1, <2>2 DEF Restorable
<1>14. ASSUME NEW d, NEW s, d # c, Restorable(x, d, s)
       PROVE  Restorable(y, d, s)
  BY <1>2, <1>11, <1>12, <1>14 DEF Restorable
<1>. QED
  BY <1>10, <1>13, <1>14

\* Leaving a provider: the slot gets what was remembered, the default when this was
\* the outermost provider of its context.
LEMMA ProviderLeft ==
  ASSUME NEW x, StackOK(x), x.threadID \in Nat, x.stack # <<>>,
         Last(x.stack).kind = "provider",
         DOMAIN slot = Context, \A c \in Context : IsSeq(slot[c]),
         NEW y, y = ProviderPopped(FrameLeft(x)),
         NEW after, after = SlotRestored(x)
  PROVE  /\ StackOK(y) /\ Similar(x, y)
         /\ DOMAIN after = Context /\ \A c \in Context : IsSeq(after[c])
         /\ \A c \in Context : Restorable(x, c, slot[c]) => Restorable(y, c, after[c])
         /\ \A c \in Context, id \in Nat :
              id # x.threadID /\ AtDefault(slot[c], c, id) => AtDefault(after[c], c, id)
<1>. DEFINE n == x.providers
            k == x.contextStack[n]
            v == x.contextValueStack[n]
            w == FrameLeft(x)
            cs == [x.contextStack EXCEPT ![n] = None]
            vs == [x.contextValueStack EXCEPT ![n] = None]
<1>1. /\ Fields \subseteq DOMAIN x /\ IsSeq(x.stack) /\ FramesOK(x.stack)
      /\ n \in Nat /\ n = Cardinality(ProviderFrames(x.stack))
      /\ IsSeq(x.contextStack) /\ IsSeq(x.contextValueStack)
      /\ Len(x.contextStack) = Len(x.contextValueStack) /\ n <= Len(x.contextStack)
      /\ Len(x.contextStack) \in Nat
  BY DEF StackOK, FramesOK, IsSeq
<1>2. /\ Fields \subseteq DOMAIN w /\ FramesOK(w.stack)
      /\ ProviderFrames(w.stack) = ProviderFrames(x.stack) \ {Len(x.stack)}
      /\ w.threadID = x.threadID /\ w.exhausted = x.exhausted
      /\ w.providers = n /\ w.contextStack = x.contextStack
      /\ w.contextValueStack = x.contextValueStack
  BY FrameLeftOK
<1>. HIDE DEF w
<1>3. /\ Fields \subseteq DOMAIN y /\ y.stack = w.stack
      /\ y.threadID = x.threadID /\ y.exhausted = x.exhausted
      /\ y.providers = n - 1 /\ y.contextStack = cs /\ y.contextValueStack = vs
  <2>1. y = ProviderPopped(w)
    BY DEF w
  <2>. QED
    BY <1>2, <2>1, ZenonT(60) DEF ProviderPopped, Fields
<1>4. Cardinality(ProviderFrames(w.stack)) = n - 1 /\ n >= 1
  <2>. DEFINE S == ProviderFrames(x.stack)
              l == Len(x.stack)
  <2>1. IsFiniteSet(S)
    BY <1>1, ProviderFramesFinite
  <2>2. l \in S
    <3>1. l \in DOMAIN x.stack /\ Last(x.stack) = x.stack[l]
      BY <1>1, FrontIsSeq
    <3>. QED
      BY <3>1 DEF ProviderFrames
  <2>3. Cardinality(S) = n /\ ProviderFrames(w.stack) = S \ {l}
    BY <1>1, <1>2
  <2>. HIDE DEF S, l
  <2>4. Cardinality(S \ {l}) = Cardinality(S) - 1
    BY <2>1, <2>2, FS_RemoveElement
  <2>5. Cardinality(S \ {l}) \in Nat
    BY <2>1, FS_RemoveElement, FS_CardinalityType
  <2>. QED
    BY <1>1, <2>3, <2>4, <2>5
<1>5. /\ IsSeq(cs) /\ Len(cs) = Len(x.contextStack)
      /\ \A i \in 1 .. n - 1 : cs[i] = x.contextStack[i]
  <2>1. n \in DOMAIN x.contextStack /\ \A i \in 1 .. n - 1 : i \in DOMAIN x.contextStack \ {n}
    BY <1>1, <1>4 DEF IsSeq
  <2>. QED
    BY <1>1, <2>1, ExceptIsSeq
<1>6. /\ IsSeq(vs) /\ Len(vs) = Len(x.contextStack)
      /\ \A i \in 1 .. n - 1 : vs[i] = x.contextValueStack[i]
  <2>1. /\ n \in DOMAIN x.contextValueStack
        /\ \A i \in 1 .. n - 1 : i \in DOMAIN x.contextValueStack \ {n}
    BY <1>1, <1>4 DEF IsSeq
  <2>. QED
    BY <1>1, <2>1, ExceptIsSeq
<1>. HIDE DEF cs, vs
<1>7. StackOK(y) /\ Similar(x, y)
  <2>1. Similar(x, y)
    BY <1>1, <1>3 DEF Similar, IsRenderer, Fields
  <2>2. Len(cs) = Len(vs) /\ n - 1 <= Len(cs) /\ n - 1 \in Nat
    BY <1>1, <1>4, <1>5, <1>6
  <2>. HIDE DEF n
  <2>3. StackOK(y)
    BY <1>2, <1>3, <1>4, <1>5, <1>6, <2>2 DEF StackOK
  <2>. QED
    BY <2>1, <2>3
<1>8. /\ DOMAIN after = Context
      /\ \A c \in Context \ {k} : after[c] = slot[c]
      /\ k \in Context => after[k] = [slot[k] EXCEPT ![x.threadID + 1] = v]
  BY DEF SlotRestored
<1>9. \A c \in Context :
        /\ IsSeq(after[c]) /\ DOMAIN after[c] = DOMAIN slot[c]
        /\ \A i \in DOMAIN slot[c] :
             after[c][i] = IF c = k /\ i = x.threadID + 1 THEN v ELSE slot[c][i]
  <2>. SUFFICES ASSUME NEW c \in Context
                PROVE  /\ IsSeq(after[c]) /\ DOMAIN after[c] = DOMAIN slot[c]
                       /\ \A i \in DOMAIN slot[c] :
                            after[c][i] = IF c = k /\ i = x.threadID + 1 THEN v ELSE slot[c][i]
    OBVIOUS
  <2>. HIDE DEF k, v
  <2>1. CASE c = k
    <3>. DEFINE s == slot[c]
                m == x.threadID + 1
                t == [s EXCEPT ![m] = v]
    <3>1. IsSeq(s) /\ after[c] = t
      BY <1>8, <2>1
    <3>. HIDE DEF s, m
    <3>2. /\ IsSeq(t) /\ DOMAIN t = DOMAIN s
          /\ \A i \in DOMAIN s : t[i] = IF i = m THEN v ELSE s[i]
      BY <3>1, ExceptAny
    <3>. HIDE DEF t
    <3>. QED
      BY <2>1, <3>1, <3>2 DEF s, m
  <2>2. CASE c # k
    BY <1>8, <2>2
  <2>. QED
    BY <2>1, <2>2
<1>10. \A c \in Context, id \in Nat :
         id # x.threadID /\ AtDefault(slot[c], c, id) => AtDefault(after[c], c, id)
  BY <1>9 DEF AtDefault
<1>11. \A c : Mine(y, c) = Mine(x, c) \ {n}
  <2>1. \A i \in Int : i \in 1 .. n - 1 <=> i \in 1 .. n /\ i # n
    BY <1>1
  <2>2. y.providers = n - 1 /\ y.contextStack = cs
    BY <1>3
  <2>. QED
    BY <1>1, <1>5, <2>1, <2>2 DEF Mine
<1>12. \A c : \A i \in Mine(y, c) : vs[i] = x.contextValueStack[i]
  BY <1>1, <1>3, <1>6 DEF Mine
<1>13. ASSUME NEW c \in Context, Restorable(x, c, slot[c])
       PROVE  Restorable(y, c, after[c])
  <2>1. CASE c # k
    <3>1. n \notin Mine(x, c)
      BY <2>1 DEF Mine
    <3>. HIDE DEF n, k, v
    <3>2. Mine(y, c) = Mine(x, c)
      <4>1. Mine(y, c) = Mine(x, c) \ {n}
        BY <1>11
      <4>. QED
        BY <3>1, <4>1
    <3>3. after[c] = slot[c]
      BY <1>8, <2>1
    <3>. QED
      BY <1>3, <1>12, <1>13, <3>2, <3>3 DEF Restorable
  <2>2. CASE c = k
    <3>1. n \in Mine(x, c)
      BY <1>1, <1>4, <2>2 DEF Mine
    <3>2. PICK i \in Mine(x, c) :
            (\A j \in Mine(x, c) : i <= j) /\ x.contextValueStack[i] = Default[c]
      BY <1>13, <3>1 DEF Restorable
    <3>3. CASE i = n
      <4>1. Mine(y, c) = {}
        <5>1. \A j \in Mine(x, c) : j \in Int /\ j <= n /\ n <= j
          BY <1>1, <3>2, <3>3 DEF Mine
        <5>. HIDE DEF n
        <5>2. \A j \in Mine(x, c) : j = n
          BY <1>1, <5>1
        <5>. QED
          BY <1>11, <5>2
      <4>2. AtDefault(after[c], c, x.threadID)
        BY <1>9, <2>2, <3>2, <3>3 DEF AtDefault
      <4>. QED
        BY <1>3, <4>1, <4>2 DEF Restorable
    <3>4. CASE i # n
      <4>1. i \in Mine(y, c) /\ (\A j \in Mine(y, c) : i <= j)
        BY <1>11, <3>2, <3>4
      <4>. QED
        BY <1>3, <1>12, <3>2, <4>1 DEF Restorable
    <3>. QED
      BY <3>3, <3>4
  <2>. QED
    BY <2>1, <2>2
<1>. QED
  BY <1>7, <1>8, <1>9, <1>10, <1>13

\* clearProviders puts every context back at its default.
LEMMA ClearedOK ==
  ASSUME NEW x, StackOK(x), x.threadID \in Nat,
         DOMAIN slot = Context, \A c \in Context : IsSeq(slot[c]),
         \A c \in Context : Restorable(x, c, slot[c])
  PROVE  /\ DOMAIN Cleared(x) = Context /\ \A c \in Context : IsSeq(Cleared(x)[c])
         /\ \A c \in Context : AtDefault(Cleared(x)[c], c, x.threadID)
         /\ \A c \in Context, id \in Nat :
              id # x.threadID /\ AtDefault(slot[c], c, id) => AtDefault(Cleared(x)[c], c, id)
<1>1. DOMAIN Cleared(x) = Context
  BY DEF Cleared
<1>2. ASSUME NEW c \in Context
      PROVE  /\ IsSeq(Cleared(x)[c]) /\ AtDefault(Cleared(x)[c], c, x.threadID)
             /\ \A id \in Nat : id # x.threadID /\ AtDefault(slot[c], c, id)
                                  => AtDefault(Cleared(x)[c], c, id)
  <2>. DEFINE least == CHOOSE i \in Mine(x, c) : \A j \in Mine(x, c) : i <= j
  <2>1. Cleared(x)[c] = IF Mine(x, c) = {} THEN slot[c]
                        ELSE [slot[c] EXCEPT ![x.threadID + 1] = x.contextValueStack[least]]
    BY DEF Cleared, Mine
  <2>2. CASE Mine(x, c) = {}
    BY <2>1, <2>2 DEF Restorable
  <2>3. CASE Mine(x, c) # {}
    <3>1. PICK i \in Mine(x, c) :
            (\A j \in Mine(x, c) : i <= j) /\ x.contextValueStack[i] = Default[c]
      BY <2>3 DEF Restorable
    <3>2. least \in Mine(x, c) /\ \A j \in Mine(x, c) : least <= j
      BY <3>1
    <3>3. least = i
      <4>. HIDE DEF least
      <4>0. \A j \in Mine(x, c) : j \in Int
        BY DEF Mine, StackOK
      <4>1. least <= i /\ i <= least /\ least \in Int /\ i \in Int
        BY <3>1, <3>2, <4>0
      <4>. QED
        BY <4>1
    <3>4. Cleared(x)[c] = [slot[c] EXCEPT ![x.threadID + 1] = Default[c]]
      BY <2>1, <2>3, <3>1, <3>3
    <3>5. /\ IsSeq(Cleared(x)[c]) /\ DOMAIN Cleared(x)[c] = DOMAIN slot[c]
          /\ \A j \in DOMAIN slot[c] :
               Cleared(x)[c][j] = IF j = x.threadID + 1 THEN Default[c] ELSE slot[c][j]
      <4>. DEFINE s == slot[c]
                  m == x.threadID + 1
                  t == [s EXCEPT ![m] = Default[c]]
      <4>1. IsSeq(s) /\ Cleared(x)[c] = t
        BY <3>4
      <4>. HIDE DEF s, m
      <4>2. /\ IsSeq(t) /\ DOMAIN t = DOMAIN s
            /\ \A j \in DOMAIN s : t[j] = IF j = m THEN Default[c] ELSE s[j]
        BY <4>1, ExceptAny
      <4>. HIDE DEF t
      <4>. QED
        BY <4>1, <4>2 DEF s, m
    <3>. QED
      BY <3>5 DEF AtDefault
  <2>. QED
    BY <2>2, <2>3
<1>. QED
  BY <1>1, <1>2
-----------------------------------------------------------------------------
SyncInv == IDsInv /\ SlotsInv

\* The renderer of the innermost read, while it is unfinished.
LEMMA MeOK ==
  ASSUME SyncInv, calls # <<>>, ~Me.exhausted
  PROVE  /\ Call.renderer \in DOMAIN renderers /\ Me = renderers[Call.renderer]
         /\ StackOK(Me) /\ Me.threadID \in Nat
         /\ \A c \in Context : Restorable(Me, c, slot[c])
<1>1. Call.renderer \in DOMAIN renderers /\ Me = renderers[Call.renderer]
  BY CallIsCall DEF SyncInv, IsCall
<1>2. RendererOK(Me, slot)
  BY <1>1 DEF SyncInv, SlotsInv, SlotsOK
<1>3. Me.threadID \in Nat
  BY <1>1, IDIsNat DEF SyncInv
<1>. QED
  BY <1>1, <1>2, <1>3 DEF RendererOK

\* The parts of the invariant that are about the slots.
LEMMA SlotsFacts ==
  ASSUME SyncInv
  PROVE  /\ IDsHeld(freeList, renderers) /\ SlotsOK(slot, renderers)
         /\ DOMAIN slot = Context /\ \A c \in Context : IsSeq(slot[c])
BY DEF SyncInv, IDsInv, SlotsInv, SlotsOK

\* The slots stay, or get defaults.
Extended ==
  /\ DOMAIN slot' = Context /\ \A c \in Context : IsSeq(slot'[c])
  /\ \A c \in Context, id \in Nat : AtDefault(slot[c], c, id) => AtDefault(slot'[c], c, id)

\* Slots that are not touched are extended by nothing.
LEMMA UnchangedExtended ==
  ASSUME SyncInv, UNCHANGED slot
  PROVE  Extended
BY SlotsFacts DEF Extended

\* A renderer goes on in the same providers.
LEMMA SameKeeps ==
  ASSUME SyncInv, calls # <<>>, ~Me.exhausted, Extended, NEW y, SameProviders(Me, y)
  PROVE  /\ SlotsOK(slot', [renderers EXCEPT ![Call.renderer] = y]) /\ Similar(Me, y)
<1>1. /\ Call.renderer \in DOMAIN renderers /\ Me = renderers[Call.renderer]
      /\ StackOK(Me) /\ Me.threadID \in Nat
      /\ \A c \in Context : Restorable(Me, c, slot[c])
  BY MeOK
<1>2. /\ StackOK(y) /\ Similar(Me, y)
      /\ \A c, s : Restorable(Me, c, s) => Restorable(y, c, s)
  BY <1>1, SameProvidersOK
<1>3. \A c \in Context : Restorable(Me, c, slot'[c])
  BY <1>1 DEF Restorable, Extended
<1>4. RendererOK(y, slot')
  BY <1>2, <1>3 DEF RendererOK
<1>. DEFINE after == slot'
<1>5. /\ DOMAIN after = Context /\ \A c \in Context : IsSeq(after[c])
      /\ \A c \in Context, id \in Nat : AtDefault(slot[c], c, id) => AtDefault(after[c], c, id)
      /\ RendererOK(y, after)
  BY <1>4 DEF Extended
<1>. HIDE DEF after
<1>6. SlotsOK(after, [renderers EXCEPT ![Call.renderer] = y])
  BY <1>1, <1>2, <1>5, SlotsFacts, OneRenderer
<1>. QED
  BY <1>2, <1>6 DEF after

\* The same for a step of the loop, ...
LEMMA BecomeSame ==
  ASSUME SyncInv, calls # <<>>, ~Me.exhausted, Extended, NEW y, SameProviders(Me, y),
         NEW call, Become(y, call)
  PROVE  SlotsInv'
BY SameKeeps DEF Become, SlotsInv

\* ... in which taking the next child does not concern the providers.
LEMMA NextSame ==
  ASSUME StackOK(Me)
  PROVE  SameProviders(Me, Next1)
BY RestSame DEF Next1

\* What the steps that render a child start from.
LEMMA AtChildOK ==
  ASSUME SyncInv, AtChild
  PROVE  /\ calls # <<>> /\ ~Me.exhausted /\ StackOK(Me) /\ SameProviders(Me, Next1)
         /\ StackOK(Next1)
<1>1. calls # <<>> /\ ~Me.exhausted
  BY DEF AtChild, InLoop
<1>2. StackOK(Me)
  BY <1>1, MeOK
<1>. QED
  BY <1>1, <1>2, NextSame, SameProvidersOK

\* A child is rendered that is no provider.
LEMMA RenderedSame ==
  ASSUME SyncInv, AtChild, Extended, NEW result, Emit(result),
         \E y, markup : result = Result(y, markup) /\ SameProviders(Next1, y)
  PROVE  SlotsInv'
<1>1. PICK y, markup : result = Result(y, markup) /\ SameProviders(Next1, y)
  OBVIOUS
<1>2. calls # <<>> /\ ~Me.exhausted /\ SameProviders(Me, y)
  BY <1>1, AtChildOK, SameProvidersTransitive
<1>3. result.renderer = y
  BY <1>1 DEF Result
<1>. QED
  BY <1>2, <1>3, BecomeSame DEF Emit

\* Fields that the providers have nothing to do with.
LEMMA FrameKind ==
  ASSUME NEW kind, NEW kids, NEW footer
  PROVE  "kind" \in DOMAIN Frame(kind, kids, footer) /\ Frame(kind, kids, footer).kind = kind
BY DEF Frame

\* A text enters no provider, ...
LEMMA TextSame ==
  ASSUME NEW x, StackOK(x), NEW e
  PROVE  \E y, markup : TextRendered(x, e) = Result(y, markup) /\ SameProviders(x, y)
<1>. DEFINE y == [x EXCEPT !.afterText = IF x.static THEN @ ELSE TRUE]
<1>1. SameProviders(x, y)
  BY DEF SameProviders, StackOK, Fields
<1>. QED
  BY <1>1 DEF TextRendered

\* ... nor does a host element, ...
LEMMA HostSame ==
  ASSUME NEW x, StackOK(x), NEW e, Kind(e) # "provider", NEW isRoot
  PROVE  \E y, markup : HostRendered(x, e, isRoot) = Result(y, markup) /\ SameProviders(x, y)
<1>. DEFINE f == Frame(Kind(e), Shape[e].kids, <<CloseTag(e)>>)
            p == PushFrame(x, f)
            y == [p EXCEPT !.afterText = FALSE, !.select = SelectIn(e, @)]
<1>1. SameProviders(x, p)
  BY FrameKind, PushSame
<1>2. HostRendered(x, e, isRoot)
        = Result(y, <<OpenTag(e, isRoot, IsSelected(e, x.select))>>)
  BY DEF HostRendered
<1>. HIDE DEF p
<1>3. SameProviders(x, y)
  BY <1>1 DEF SameProviders, Fields
<1>. QED
  BY <1>2, <1>3

\* ... a fragment, ...
LEMMA FragmentSame ==
  ASSUME NEW x, StackOK(x), NEW e
  PROVE  \E y, markup : FragmentRendered(x, e) = Result(y, markup) /\ SameProviders(x, y)
BY FrameKind, PushSame DEF FragmentRendered

\* ... a consumer ...
LEMMA ContextSame ==
  ASSUME NEW x, StackOK(x), NEW e, NEW id
  PROVE  \E y, markup : ContextRendered(x, e, id) = Result(y, markup) /\ SameProviders(x, y)
BY FrameKind, PushSame DEF ContextRendered

\* ... or a boundary.
LEMMA SuspenseSame ==
  ASSUME NEW x, StackOK(x), NEW e
  PROVE  \E y, markup : SuspenseRendered(x, e) = Result(y, markup) /\ SameProviders(x, y)
<1>. DEFINE p == PushFrame(x, SuspenseFrame(e))
            y == [p EXCEPT !.depth = @ + 1]
<1>1. "kind" \in DOMAIN SuspenseFrame(e) /\ SuspenseFrame(e).kind = "suspense"
  BY DEF SuspenseFrame, Frame
<1>2. SameProviders(x, p)
  BY <1>1, PushSame
<1>3. SuspenseRendered(x, e) = Result(y, <<OpenBoundary>>)
  BY DEF SuspenseRendered
<1>. HIDE DEF p
<1>4. SameProviders(x, y)
  BY <1>2 DEF SameProviders, Fields
<1>. QED
  BY <1>3, <1>4
-----------------------------------------------------------------------------
\* A context is read: its slots may be extended by defaults.
LEMMA ConsumerExtends ==
  ASSUME SyncInv, NEW c, NEW id \in Nat, slot' = [slot EXCEPT ![c] = Bounded(c, id)]
  PROVE  Extended
<1>1. DOMAIN slot = Context /\ \A d \in Context : IsSeq(slot[d])
  BY SlotsFacts
<1>2. /\ DOMAIN slot' = Context
      /\ \A d \in Context : slot'[d] = IF d = c THEN Bounded(c, id) ELSE slot[d]
  BY <1>1
<1>3. ASSUME NEW d \in Context
      PROVE  /\ IsSeq(slot'[d])
             /\ \A k \in Nat : AtDefault(slot[d], d, k) => AtDefault(slot'[d], d, k)
  <2>1. CASE d = c
    BY <1>1, <1>2, <2>1, BoundedOK
  <2>2. CASE d # c
    BY <1>1, <1>2, <2>2
  <2>. QED
    BY <2>1, <2>2
<1>. QED
  BY <1>2, <1>3 DEF Extended

\* Reading a context keeps what is restored.
LEMMA ConsumerKeeps ==
  ASSUME SyncInv, RenderConsumer
  PROVE  SlotsInv'
<1>. DEFINE c  == Shape[Target.of].context
            id == IF Kind(Target.of) = "consumer" THEN Me.threadID ELSE currentThreadID
<1>1. /\ AtChild /\ slot' = [slot EXCEPT ![c] = Bounded(c, id)]
      /\ Emit(ContextRendered(Next1, Target.of, id))
  BY DEF RenderConsumer, AtElement
<1>2. StackOK(Next1) /\ Me.threadID \in Nat /\ currentThreadID \in Nat
  BY <1>1, AtChildOK, MeOK DEF SyncInv, IDsInv
<1>3. id \in Nat
  BY <1>2
<1>. HIDE DEF id, c
<1>4. Extended
  BY <1>1, <1>3, ConsumerExtends
<1>. QED
  BY <1>1, <1>2, <1>4, ContextSame, RenderedSame

\* Entering a provider changes one slot, which its renderer restores.
LEMMA ProviderKeeps ==
  ASSUME SyncInv, RenderProvider
  PROVE  SlotsInv'
<1>. DEFINE e == Target.of
            c == Shape[e].context
            y == ProviderPushed(PushFrame(Next1, Frame("provider", Shape[e].kids, <<>>)), c)
            after == SlotProvided(Me, c, Shape[e].value)
<1>1. /\ AtChild /\ slot' = after
      /\ renderers' = [renderers EXCEPT ![Call.renderer] = y]
  BY DEF RenderProvider, AtElement, Emit, Become, ProviderRendered, Result
<1>2. /\ calls # <<>> /\ ~Me.exhausted /\ StackOK(Next1) /\ SameProviders(Me, Next1)
      /\ Call.renderer \in DOMAIN renderers /\ Me = renderers[Call.renderer]
      /\ StackOK(Me) /\ Me.threadID \in Nat
      /\ \A d \in Context : Restorable(Me, d, slot[d])
      /\ Next1.threadID = Me.threadID
  BY <1>1, AtChildOK, MeOK DEF SameProviders
<1>3. \A d \in Context : Restorable(Next1, d, slot[d])
  BY <1>2, SameProvidersOK
<1>4. DOMAIN slot = Context /\ \A d \in Context : IsSeq(slot[d])
  BY SlotsFacts
<1>5. /\ StackOK(y) /\ Similar(Next1, y)
      /\ \A s : IsSeq(slot[c]) /\ Restorable(Next1, c, slot[c]) => Restorable(y, c, s)
      /\ \A d, s : d # c /\ Restorable(Next1, d, s) => Restorable(y, d, s)
  <2>. HIDE DEF c
  <2>. QED
    BY <1>2, ProviderEntered
<1>. DEFINE b == Bounded(c, Me.threadID)
            m == Me.threadID + 1
            t == [b EXCEPT ![m] = Shape[e].value]
<1>6. after = [slot EXCEPT ![c] = t]
  BY DEF SlotProvided
<1>. HIDE DEF y, after, c, t
<1>7. DOMAIN after = Context /\ \A d \in Context : after[d] = IF d = c THEN t ELSE slot[d]
  BY <1>4, <1>6
<1>8. ASSUME c \in Context
      PROVE  /\ IsSeq(t)
             /\ \A id \in Nat : id # Me.threadID /\ AtDefault(slot[c], c, id) => AtDefault(t, c, id)
  <2>1. /\ IsSeq(b)
        /\ \A id \in Nat : AtDefault(slot[c], c, id) => AtDefault(b, c, id)
    BY <1>2, <1>4, <1>8, BoundedOK
  <2>. HIDE DEF b, m
  <2>2. /\ IsSeq(t) /\ DOMAIN t = DOMAIN b
        /\ \A i \in DOMAIN b : t[i] = IF i = m THEN Shape[e].value ELSE b[i]
    BY <2>1, ExceptAny DEF t
  <2>3. \A id \in Nat : id # Me.threadID => id + 1 # m
    BY <1>2 DEF m
  <2>. QED
    BY <2>1, <2>2, <2>3 DEF AtDefault
<1>9. /\ \A d \in Context : IsSeq(after[d])
      /\ \A d \in Context, id \in Nat :
           id # y.threadID /\ AtDefault(slot[d], d, id) => AtDefault(after[d], d, id)
  <2>1. y.threadID = Me.threadID
    BY <1>2, <1>5 DEF Similar
  <2>. QED
    BY <1>4, <1>7, <1>8, <2>1
<1>10. RendererOK(y, after)
  BY <1>3, <1>4, <1>5, <1>7 DEF RendererOK
<1>11. Similar(Me, y)
  BY <1>2, <1>5, SameProvidersOK, SimilarTransitive
<1>12. SlotsOK(after, [renderers EXCEPT ![Call.renderer] = y])
  BY <1>2, <1>7, <1>9, <1>10, <1>11, SlotsFacts, OneRenderer
<1>. QED
  BY <1>1, <1>12 DEF SlotsInv

\* Each way to render a child.
LEMMA RenderKeepsSlots ==
  ASSUME SyncInv,
         RenderText \/ RenderNothing \/ RenderHost \/ RenderFragment \/ RenderConsumer
         \/ RenderProvider \/ RenderSuspense
  PROVE  SlotsInv'
<1>. AtChild
  BY DEF RenderText, RenderNothing, RenderHost, RenderFragment, RenderConsumer,
         RenderProvider, RenderSuspense, AtElement
<1>. StackOK(Next1) /\ SameProviders(Next1, Next1)
  BY AtChildOK DEF SameProviders, StackOK
<1>1. CASE RenderText
  BY <1>1, TextSame, RenderedSame, UnchangedExtended DEF RenderText
<1>2. CASE RenderNothing
  <2>1. \E y, markup : Result(Next1, <<>>) = Result(y, markup) /\ SameProviders(Next1, y)
    OBVIOUS
  <2>. QED
    BY <1>2, <2>1, RenderedSame, UnchangedExtended DEF RenderNothing
<1>3. CASE RenderHost
  <2>1. Kind(Target.of) # "provider"
    BY <1>3 DEF RenderHost, AtElement
  <2>. QED
    BY <1>3, <2>1, HostSame, RenderedSame, UnchangedExtended DEF RenderHost
<1>4. CASE RenderFragment
  BY <1>4, FragmentSame, RenderedSame, UnchangedExtended DEF RenderFragment
<1>5. CASE RenderConsumer
  BY <1>5, ConsumerKeeps
<1>6. CASE RenderProvider
  BY <1>6, ProviderKeeps
<1>7. CASE RenderSuspense
  BY <1>7, SuspenseSame, RenderedSame, UnchangedExtended DEF RenderSuspense
<1>. QED
  BY <1>1, <1>2, <1>3, <1>4, <1>5, <1>6, <1>7
-----------------------------------------------------------------------------
\* The result of a nested call enters and leaves no provider.
LEMMA ReturnedSame ==
  ASSUME NEW x, StackOK(x), NEW e
  PROVE  SameProviders(x, Returned(x, e))
BY RestSame DEF Returned

\* A component suspends, throws or is refused: frames stay.
LEMMA InterruptKeepsSlots ==
  ASSUME SyncInv, Suspend \/ Throw \/ NestedRefused
  PROVE  SlotsInv'
<1>1. AtChild /\ UNCHANGED slot
  BY DEF Suspend, Throw, NestedRefused, AtElement
<1>2. /\ calls # <<>> /\ ~Me.exhausted /\ Extended
      /\ StackOK(Next1) /\ SameProviders(Me, Next1)
  BY <1>1, AtChildOK, UnchangedExtended
<1>3. SameProviders(Me, Returned(Next1, Target.of))
  BY <1>2, ReturnedSame, SameProvidersTransitive
<1>. QED
  BY <1>2, <1>3, BecomeSame DEF Suspend, Throw, NestedRefused

\* A frame that is no provider's is left.
LEMMA FrameLeftSame ==
  ASSUME NEW x, StackOK(x), x.stack # <<>>, Last(x.stack).kind # "provider"
  PROVE  SameProviders(x, FrameLeft(x)) /\ StackOK(FrameLeft(x))
<1>1. Len(x.stack) \notin ProviderFrames(x.stack)
  BY FrontIsSeq DEF StackOK, FramesOK, ProviderFrames
<1>2. SameProviders(x, FrameLeft(x))
  BY <1>1, FrameLeftOK DEF SameProviders
<1>. QED
  BY <1>2, SameProvidersOK

\* A frame, or a boundary, is left, with or without a fallback.
LEMMA FinishKeepsSlots ==
  ASSUME SyncInv, FinishFrame \/ FinishBoundary \/ ShowFallback
  PROVE  SlotsInv'
<1>1. /\ calls # <<>> /\ ~Me.exhausted /\ Me.stack # <<>>
      /\ Top.kind # "provider" /\ UNCHANGED slot
  BY DEF FinishFrame, FinishBoundary, ShowFallback, AtFrameEnd, InLoop
<1>2. StackOK(Me) /\ Extended
  BY <1>1, MeOK, UnchangedExtended
<1>3. SameProviders(Me, FrameLeft(Me)) /\ StackOK(FrameLeft(Me))
  BY <1>1, <1>2, FrameLeftSame DEF Top
<1>4. CASE FinishFrame
  BY <1>1, <1>2, <1>3, <1>4, BecomeSame DEF FinishFrame
<1>5. SameProviders(Me, BoundaryLeft)
  <2>. DEFINE x == FrameLeft(Me)
  <2>1. BoundaryLeft = [x EXCEPT !.depth = @ - 1]
    BY DEF BoundaryLeft
  <2>. HIDE DEF x
  <2>2. SameProviders(x, BoundaryLeft)
    BY <1>3, <2>1 DEF SameProviders, StackOK, Fields, x
  <2>. QED
    BY <1>3, <2>2, SameProvidersTransitive DEF x
<1>6. CASE FinishBoundary
  BY <1>1, <1>2, <1>5, <1>6, BecomeSame DEF FinishBoundary
<1>7. CASE ShowFallback
  <2>1. "kind" \in DOMAIN FallbackFrame /\ FallbackFrame.kind = "fallback"
    BY FrameKind DEF FallbackFrame
  <2>2. StackOK(BoundaryLeft)
    BY <1>2, <1>5, SameProvidersOK
  <2>3. SameProviders(Me, PushFrame(BoundaryLeft, FallbackFrame))
    BY <1>5, <2>1, <2>2, PushSame, SameProvidersTransitive
  <2>. QED
    BY <1>1, <1>2, <1>7, <2>3, BecomeSame DEF ShowFallback
<1>. QED
  BY <1>4, <1>6, <1>7

\* A provider is left, also when unwinding to a boundary.
LEMMA FinishProviderKeeps ==
  ASSUME SyncInv, FinishProvider
  PROVE  SlotsInv'
<1>. DEFINE y == ProviderPopped(FrameLeft(Me))
            after == SlotRestored(Me)
<1>1. /\ calls # <<>> /\ ~Me.exhausted /\ Me.stack # <<>> /\ Last(Me.stack).kind = "provider"
      /\ slot' = after /\ renderers' = [renderers EXCEPT ![Call.renderer] = y]
  BY DEF FinishProvider, AtFrameEnd, InLoop, Top, Become
<1>2. /\ Call.renderer \in DOMAIN renderers /\ Me = renderers[Call.renderer]
      /\ StackOK(Me) /\ Me.threadID \in Nat
      /\ \A c \in Context : Restorable(Me, c, slot[c])
  BY <1>1, MeOK
<1>3. DOMAIN slot = Context /\ \A c \in Context : IsSeq(slot[c])
  BY SlotsFacts
<1>4. /\ StackOK(y) /\ Similar(Me, y)
      /\ DOMAIN after = Context /\ \A c \in Context : IsSeq(after[c])
      /\ \A c \in Context : Restorable(Me, c, slot[c]) => Restorable(y, c, after[c])
      /\ \A c \in Context, id \in Nat :
           id # Me.threadID /\ AtDefault(slot[c], c, id) => AtDefault(after[c], c, id)
  BY <1>1, <1>2, <1>3, ProviderLeft
<1>. HIDE DEF y, after
<1>5. RendererOK(y, after)
  BY <1>2, <1>4 DEF RendererOK
<1>6. \A c \in Context, id \in Nat :
        id # y.threadID /\ AtDefault(slot[c], c, id) => AtDefault(after[c], c, id)
  BY <1>4 DEF Similar
<1>7. SlotsOK(after, [renderers EXCEPT ![Call.renderer] = y])
  BY <1>1, <1>2, <1>4, <1>5, <1>6, SlotsFacts, OneRenderer
<1>. QED
  BY <1>1, <1>7 DEF SlotsInv

\* A renderer that has left all its frames has left all its providers.
LEMMA ExhaustKeepsSlots ==
  ASSUME SyncInv, Exhaust
  PROVE  SlotsInv'
<1>. DEFINE x == [Me EXCEPT !.exhausted = TRUE]
<1>1. /\ calls # <<>> /\ ~Me.exhausted /\ Me.stack = <<>> /\ UNCHANGED slot
      /\ renderers' = [renderers EXCEPT ![Call.renderer] = x]
  BY DEF Exhaust, InLoop, Become
<1>2. /\ Call.renderer \in DOMAIN renderers /\ Me = renderers[Call.renderer]
      /\ StackOK(Me) /\ Me.threadID \in Nat
      /\ \A c \in Context : Restorable(Me, c, slot[c])
  BY <1>1, MeOK
<1>3. Me.providers = 0
  <2>1. ProviderFrames(<<>>) = {}
    BY DEF ProviderFrames
  <2>. QED
    BY <1>1, <1>2, <2>1, FS_EmptySet DEF StackOK
<1>4. \A c \in Context : AtDefault(slot[c], c, Me.threadID)
  BY <1>2, <1>3 DEF Restorable, Mine
<1>5. x.exhausted = TRUE
  BY <1>2 DEF StackOK, Fields
<1>. HIDE DEF x
<1>6. SlotsOK(slot, [renderers EXCEPT ![Call.renderer] = x])
  BY <1>1, <1>2, <1>4, <1>5, SlotsFacts, RendererEnds
<1>. QED
  BY <1>1, <1>6 DEF SlotsInv

\* destroy() in the middle of a tree.
LEMMA DestroyClears ==
  ASSUME SyncInv, NEW r \in DOMAIN renderers, Destroy(r)
  PROVE  SlotsOK(slot', Destroyed(r))
<1>. DEFINE x == [renderers[r] EXCEPT !.exhausted = TRUE]
            after == slot'
<1>1. x.exhausted = TRUE
  BY SlotsFacts DEF IDsHeld, IsRenderer
<1>2. Destroyed(r) = [renderers EXCEPT ![r] = x]
  BY DEF Destroyed
<1>3. DOMAIN slot = Context /\ \A c \in Context : IsSeq(slot[c])
  BY SlotsFacts
<1>4. CASE renderers[r].exhausted
  <2>1. slot' = slot
    BY <1>4 DEF Destroy
  <2>. HIDE DEF x
  <2>2. SlotsOK(slot, [renderers EXCEPT ![r] = x])
    BY <1>1, <1>3, <1>4, SlotsFacts, RendererEnds
  <2>. QED
    BY <1>2, <2>1, <2>2
<1>5. CASE ~renderers[r].exhausted
  <2>. DEFINE me == renderers[r]
  <2>1. slot' = Cleared(me)
    BY <1>5 DEF Destroy
  <2>2. /\ StackOK(me) /\ me.threadID \in Nat
        /\ \A c \in Context : Restorable(me, c, slot[c])
    BY <1>5, IDIsNat, SlotsFacts DEF SyncInv, SlotsOK, RendererOK
  <2>3. /\ DOMAIN after = Context /\ \A c \in Context : IsSeq(after[c])
        /\ \A c \in Context : AtDefault(after[c], c, me.threadID)
        /\ \A c \in Context, id \in Nat :
             id # me.threadID /\ AtDefault(slot[c], c, id) => AtDefault(after[c], c, id)
    BY <1>3, <2>1, <2>2, ClearedOK
  <2>. HIDE DEF x, after
  <2>4. SlotsOK(after, [renderers EXCEPT ![r] = x])
    BY <1>1, <1>5, <2>3, SlotsFacts, RendererEnds
  <2>. QED
    BY <1>2, <2>4 DEF after
<1>. QED
  BY <1>4, <1>5

\* A new renderer is in one frame and in no provider.
LEMMA NewRendererOK ==
  ASSUME NEW e, NEW isStatic
  PROVE  LET x == NewRenderer(e, isStatic)
         IN  /\ StackOK(x) /\ ~x.exhausted /\ x.providers = 0
             /\ x.threadID = AllocatedID(freeList)
<1>. DEFINE x == NewRenderer(e, isStatic)
            f == Frame("root", TopLevel(e), <<>>)
<1>1. /\ Fields \subseteq DOMAIN x /\ x.stack = <<f>> /\ ~x.exhausted /\ x.providers = 0
      /\ x.contextStack = <<>> /\ x.contextValueStack = <<>>
      /\ x.threadID = AllocatedID(freeList)
  BY DEF NewRenderer, Fields
<1>2. "kind" \in DOMAIN f /\ f.kind = "root"
  BY FrameKind
<1>. HIDE DEF x, f
<1>3. <<f>> \in Seq({f}) /\ DOMAIN <<f>> = {1} /\ <<f>>[1] = f
  OBVIOUS
<1>4. FramesOK(<<f>>) /\ ProviderFrames(<<f>>) = {}
  BY <1>2, <1>3 DEF FramesOK, ProviderFrames, IsSeq
<1>5. IsSeq(<<>>) /\ Len(<<>>) = 0
  BY DEF IsSeq
<1>6. StackOK(x)
  <2>1. Cardinality(ProviderFrames(x.stack)) = 0 /\ FramesOK(x.stack)
    BY <1>1, <1>4, FS_EmptySet
  <2>2. IsSeq(x.contextStack) /\ Len(x.contextStack) = 0
    BY <1>1, <1>5
  <2>3. IsSeq(x.contextValueStack) /\ Len(x.contextValueStack) = 0
    BY <1>1, <1>5
  <2>. QED
    BY <1>1, <2>1, <2>2, <2>3 DEF StackOK
<1>. QED
  BY <1>1, <1>6 DEF x

\* The renderer of a nested call finds defaults under its ID.
LEMMA CallNestedKeepsSlots ==
  ASSUME SyncInv, CallNested
  PROVE  SlotsInv'
<1>. DEFINE rs  == [renderers EXCEPT ![Call.renderer] = Next1]
            new == NewRenderer(Shape[Target.of].inner, FALSE)
<1>1. /\ AtChild /\ CanAlloc(freeList) /\ slot' = slot /\ renderers' = Append(rs, new)
  BY DEF CallNested, AtElement
<1>2. calls # <<>> /\ ~Me.exhausted /\ SameProviders(Me, Next1)
  BY <1>1, AtChildOK
<1>3. SlotsOK(slot, rs) /\ Similar(Me, Next1)
  BY <1>1, <1>2, SameKeeps, UnchangedExtended
<1>4. IDsHeld(freeList, rs)
  <2>1. Call.renderer \in DOMAIN renderers /\ Me = renderers[Call.renderer]
    BY <1>2, MeOK
  <2>. QED
    BY <1>3, <2>1, KeepsIDs, SlotsFacts
<1>5. /\ StackOK(new) /\ ~new.exhausted /\ new.providers = 0
      /\ new.threadID = AllocatedID(freeList)
  BY NewRendererOK
<1>. HIDE DEF rs, new
<1>6. SlotsOK(slot, Append(rs, new))
  BY <1>1, <1>3, <1>4, <1>5, RendererBegins
<1>. QED
  BY <1>1, <1>6 DEF SlotsInv

\* So does the renderer of a request.
LEMMA StartKeepsSlots ==
  ASSUME SyncInv, NEW q \in Request, Start(q)
  PROVE  SlotsInv'
<1>. DEFINE new == NewRenderer(Root[q], q \in Static)
<1>1. CanAlloc(freeList) /\ slot' = slot /\ renderers' = Append(renderers, new)
  BY DEF Start
<1>2. /\ StackOK(new) /\ ~new.exhausted /\ new.providers = 0
      /\ new.threadID = AllocatedID(freeList)
  BY NewRendererOK
<1>. HIDE DEF new
<1>3. SlotsOK(slot, Append(renderers, new))
  BY <1>1, <1>2, SlotsFacts, RendererBegins
<1>. QED
  BY <1>1, <1>3 DEF SlotsInv

\* A read ends and its renderer, unless it is a stream's, is destroyed.
LEMMA ReadEndsSlots ==
  ASSUME SyncInv, NEW q \in Request, ReadReturns(q) \/ ReadFails(q)
  PROVE  SlotsInv'
<1>1. calls # <<>>
  BY DEF ReadReturns, ReadFails, Returns, Fails
<1>2. Call.renderer \in DOMAIN renderers
  BY <1>1, CallIsCall DEF IsCall, SyncInv
<1>3. \/ UNCHANGED <<slot, renderers>>
      \/ Destroy(Call.renderer) /\ renderers' = Destroyed(Call.renderer)
  BY DEF ReadReturns, ReadFails
<1>. QED
  BY <1>2, <1>3, DestroyClears DEF SlotsInv, SyncInv

\* The renderer around a nested one gets the component's result.
LEMMA NestedEndsSlots ==
  ASSUME SyncInv, NestedReturns \/ NestedCaught \/ NestedFails
  PROVE  SlotsInv'
<1>. DEFINE rs == Destroyed(Call.renderer)
            x  == Returned(rs[Outer], Call.nested)
            after == slot'
<1>1. /\ calls # <<>> /\ Len(calls) > 1 /\ Destroy(Call.renderer)
      /\ \/ renderers' = [rs EXCEPT ![Outer] = x]
         \/ renderers' = rs
  BY DEF NestedReturns, NestedCaught, NestedFails, Returns, Fails
<1>2. Call.renderer \in DOMAIN renderers
  BY <1>1, CallIsCall DEF IsCall, SyncInv
<1>3. Outer \in DOMAIN renderers
  <2>1. IsSeq(calls) /\ \A i \in DOMAIN calls : IsCall(calls[i], renderers)
    BY DEF SyncInv, IDsInv, CallsOK
  <2>2. Len(calls) - 1 \in DOMAIN calls
    BY <1>1, <2>1, FrontIsSeq
  <2>. QED
    BY <2>1, <2>2 DEF Outer, IsCall
<1>4. IDsHeld(freeList', rs) /\ DOMAIN rs = DOMAIN renderers
  BY <1>1, <1>2, DestroyGives DEF SyncInv
<1>5. SlotsOK(after, rs)
  BY <1>1, <1>2, DestroyClears
<1>6. IsRenderer(rs[Outer]) /\ Similar(rs[Outer], x)
  BY <1>3, <1>4, ReturnedSimilar DEF IDsHeld
<1>7. SameProviders(rs[Outer], x) \/ rs[Outer].exhausted
  BY <1>3, <1>4, <1>5, ReturnedSame DEF SlotsOK, RendererOK
<1>. HIDE DEF rs, x, after
<1>8. DOMAIN after = Context /\ \A c \in Context : IsSeq(after[c])
  BY <1>5 DEF SlotsOK
<1>. DEFINE list == freeList'
<1>9. IDsHeld(list, rs) /\ Outer \in DOMAIN rs
  BY <1>3, <1>4
<1>. HIDE DEF list
<1>10. SlotsOK(after, [rs EXCEPT ![Outer] = x])
  <2>1. CASE rs[Outer].exhausted
    <3>1. x.exhausted = TRUE
      BY <1>6, <2>1 DEF Similar
    <3>. QED
      BY <1>5, <1>8, <1>9, <2>1, <3>1, RendererEnds
  <2>2. CASE ~rs[Outer].exhausted
    <3>1. StackOK(rs[Outer]) /\ \A c \in Context : Restorable(rs[Outer], c, after[c])
      BY <1>5, <1>9, <2>2 DEF SlotsOK, RendererOK
    <3>2. RendererOK(x, after)
      BY <1>7, <2>2, <3>1, SameProvidersOK DEF RendererOK
    <3>. QED
      BY <1>5, <1>6, <1>8, <1>9, <2>2, <3>2, OneRenderer
  <2>. QED
    BY <2>1, <2>2
<1>. QED
  BY <1>1, <1>5, <1>10 DEF SlotsInv, after

\* The callers' other steps.
LEMMA ClientKeepsSlots ==
  ASSUME SyncInv, NEW q \in Request, StartRefused(q) \/ StreamReads(q) \/ StreamDestroyed(q)
  PROVE  SlotsInv'
<1>1. CASE StartRefused(q) \/ StreamReads(q)
  BY <1>1 DEF StartRefused, StreamReads, SlotsInv, SyncInv
<1>2. CASE StreamDestroyed(q)
  <2>1. /\ requests[q].renderer \in DOMAIN renderers
        /\ Destroy(requests[q].renderer) /\ renderers' = Destroyed(requests[q].renderer)
    BY <1>2 DEF StreamDestroyed, SyncInv, IDsInv, RequestsOK
  <2>. QED
    BY <2>1, DestroyClears DEF SlotsInv
<1>. QED
  BY <1>1, <1>2
-----------------------------------------------------------------------------
\* No slot exists yet.
LEMMA InitSlots ==
  ASSUME Init
  PROVE  SlotsInv
<1>1. IsSeq(<<>>) /\ DOMAIN <<>> = {}
  BY DEF IsSeq
<1>2. DOMAIN slot = Context /\ \A c \in Context : slot[c] = <<>>
  BY DEF Init
<1>3. DOMAIN renderers = {}
  BY <1>1 DEF Init
<1>. QED
  BY <1>1, <1>2, <1>3 DEF SlotsInv, SlotsOK, AtDefault

\* Each step keeps what is restored.
LEMMA NextKeepsSlots ==
  ASSUME SyncInv, [Next]_vars
  PROVE  SlotsInv'
<1>1. CASE RunStep
  BY <1>1, RenderKeepsSlots, InterruptKeepsSlots, CallNestedKeepsSlots, FinishKeepsSlots,
     FinishProviderKeeps, ExhaustKeepsSlots, NestedEndsSlots DEF RunStep
<1>2. CASE ClientStep
  BY <1>2, StartKeepsSlots, ClientKeepsSlots, ReadEndsSlots DEF ClientStep
<1>3. CASE \E q \in Request : StreamDestroyed(q)
  BY <1>3, ClientKeepsSlots
<1>4. CASE UNCHANGED vars
  BY <1>4 DEF vars, SyncInv, SlotsInv
<1>. QED
  BY <1>1, <1>2, <1>3, <1>4 DEF Next

\* The outermost provider of each context remembers its default, in every run: this,
\* with distinct IDs, is what makes leaving and clearing restore the right value.
THEOREM SyncInvariant == Spec => []SyncInv
<1>1. Init => SyncInv
  BY InitEstablishes, InitSlots DEF SyncInv
<1>2. SyncInv /\ [Next]_vars => SyncInv'
  BY NextKeeps, NextKeepsSlots DEF SyncInv
<1>. QED
  BY <1>1, <1>2, PTL DEF Spec

\* Whatever trees are rendered, a request that ends, fails, unwinds or is destroyed
\* leaves no value in a context under an ID that the next request gets.
THEOREM SyncNothingLeftBehind == Spec => []NothingLeftBehind
<1>1. SyncInv => NothingLeftBehind
  <2>. SUFFICES ASSUME SyncInv, NEW c \in Context, NEW id \in 1 .. Len(slot[c]) - 1,
                       \A r \in Live : renderers[r].threadID # id
                PROVE  slot[c][id + 1] = Default[c]
    BY DEF NothingLeftBehind
  <2>1. IsSeq(slot[c]) /\ id \in Nat
    BY SlotsFacts
  <2>2. id + 1 \in DOMAIN slot[c]
    BY <2>1 DEF IsSeq
  <2>3. AtDefault(slot[c], c, id)
    BY <2>1, SlotsFacts DEF SlotsOK, Live
  <2>. QED
    BY <2>2, <2>3 DEF AtDefault
<1>. QED
  BY <1>1, SyncInvariant, PTL
-----------------------------------------------------------------------------
Boundaries(stack) == { i \in DOMAIN stack : stack[i].kind = "suspense" }

IsFrame(f) ==
  /\ {"kind", "rest", "footer", "fallback"} \subseteq DOMAIN f
  /\ f.rest \in Seq(Element) /\ f.fallback \in Seq(Element)

\* A renderer counts the boundaries that it is in.
Shaped(x) ==
  /\ {"stack", "depth"} \subseteq DOMAIN x
  /\ IsSeq(x.stack) /\ \A i \in DOMAIN x.stack : IsFrame(x.stack[i])
  /\ x.depth = Cardinality(Boundaries(x.stack))

\* The providers that a renderer is in are of contexts with a slot for it.
Remembers(x, slots) ==
  /\ Fields \subseteq DOMAIN x /\ x.threadID \in Nat /\ x.providers \in Nat
  /\ IsSeq(x.contextStack) /\ IsSeq(x.contextValueStack)
  /\ Len(x.contextStack) = Len(x.contextValueStack) /\ x.providers <= Len(x.contextStack)
  /\ \A i \in 1 .. Len(x.contextStack) :
       IF i <= x.providers
         THEN /\ x.contextStack[i] \in Context /\ x.contextValueStack[i] \in Element
              /\ Len(slots[x.contextStack[i]]) > x.threadID
         ELSE x.contextStack[i] = None

ValuesOK(slots) == DOMAIN slots = Context /\ \A c \in Context : slots[c] \in Seq(Element)

\* Slots are never taken away from a context.
Grows(before, after) == \A c \in Context : Len(after[c]) >= Len(before[c])
-----------------------------------------------------------------------------
\* A renderer is in finitely many boundaries.
LEMMA BoundariesFinite ==
  ASSUME NEW s, IsSeq(s)
  PROVE  /\ IsFiniteSet(Boundaries(s)) /\ Cardinality(Boundaries(s)) \in Nat
         /\ Len(s) \in Nat /\ DOMAIN s = 1 .. Len(s)
<1>1. Len(s) \in Nat /\ DOMAIN s = 1 .. Len(s)
  BY DEF IsSeq
<1>2. IsFiniteSet(1 .. Len(s))
  BY <1>1, FS_Interval
<1>3. Boundaries(s) \subseteq 1 .. Len(s)
  BY <1>1 DEF Boundaries
<1>4. IsFiniteSet(Boundaries(s))
  BY <1>2, <1>3, FS_Subset
<1>. QED
  BY <1>1, <1>4, FS_CardinalityType

\* How many boundaries there are depends on the frames alone.
LEMMA ShapedByFrames ==
  ASSUME NEW x, Shaped(x), NEW y, {"stack", "depth"} \subseteq DOMAIN y,
         y.stack = x.stack, y.depth = x.depth
  PROVE  Shaped(y)
BY DEF Shaped

\* Entering a frame.
LEMMA PushShaped ==
  ASSUME NEW x, Shaped(x), NEW f, IsFrame(f),
         NEW y, {"stack", "depth"} \subseteq DOMAIN y, y.stack = Append(x.stack, f),
         y.depth = IF f.kind = "suspense" THEN x.depth + 1 ELSE x.depth
  PROVE  Shaped(y) /\ x.depth \in Nat
<1>. DEFINE s == Append(x.stack, f)
            k == Len(x.stack) + 1
<1>1. /\ IsSeq(s) /\ DOMAIN s = DOMAIN x.stack \cup {k} /\ s[k] = f
      /\ \A i \in DOMAIN x.stack : s[i] = x.stack[i]
  BY AppendIsSeq DEF Shaped
<1>2. /\ IsFiniteSet(Boundaries(x.stack)) /\ Cardinality(Boundaries(x.stack)) \in Nat
      /\ Len(x.stack) \in Nat /\ DOMAIN x.stack = 1 .. Len(x.stack)
  BY BoundariesFinite DEF Shaped
<1>3. k \notin DOMAIN x.stack
  BY <1>2
<1>. HIDE DEF s, k
<1>4. \A i \in DOMAIN s : IsFrame(s[i])
  BY <1>1 DEF Shaped
<1>5. CASE f.kind = "suspense"
  <2>. DEFINE B == Boundaries(x.stack)
  <2>1. Boundaries(s) = B \cup {k} /\ k \notin B
    BY <1>1, <1>3, <1>5 DEF Boundaries
  <2>2. IsFiniteSet(B) /\ x.depth = Cardinality(B)
    BY <1>2 DEF Shaped
  <2>. HIDE DEF B
  <2>3. Cardinality(B \cup {k}) = Cardinality(B) + 1
    BY <2>1, <2>2, FS_AddElement
  <2>. QED
    BY <1>1, <1>2, <1>4, <1>5, <2>1, <2>2, <2>3 DEF Shaped, s
<1>6. CASE f.kind # "suspense"
  <2>1. Boundaries(s) = Boundaries(x.stack)
    BY <1>1, <1>3, <1>6 DEF Boundaries
  <2>. QED
    BY <1>1, <1>2, <1>4, <1>6, <2>1 DEF Shaped, s
<1>. QED
  BY <1>5, <1>6

\* The children of the innermost frame change.
LEMMA RestShaped ==
  ASSUME NEW x, Shaped(x), NEW rest, x.stack # <<>> => rest \in Seq(Element)
  PROVE  LET y == [x EXCEPT !.stack[Len(x.stack)].rest = rest]
         IN  Shaped(y) /\ y.depth = x.depth
<1>. DEFINE n == Len(x.stack)
            f == [x.stack[n] EXCEPT !.rest = rest]
            s == [x.stack EXCEPT ![n] = f]
            y == [x EXCEPT !.stack = s]
<1>0. n \in DOMAIN x.stack => x.stack # <<>>
  BY DEF Shaped
<1>1. n \in DOMAIN x.stack => IsFrame(f) /\ f.kind = x.stack[n].kind
  BY <1>0 DEF Shaped, IsFrame
<1>. HIDE DEF f
<1>2. /\ IsSeq(s) /\ DOMAIN s = DOMAIN x.stack
      /\ \A i \in DOMAIN x.stack : s[i] = IF i = n THEN f ELSE x.stack[i]
  BY ExceptAny DEF Shaped
<1>. HIDE DEF s, n
<1>3. Boundaries(s) = Boundaries(x.stack) /\ \A i \in DOMAIN s : IsFrame(s[i])
  BY <1>1, <1>2 DEF Boundaries, Shaped
<1>4. /\ {"stack", "depth"} \subseteq DOMAIN y /\ y.stack = s /\ y.depth = x.depth
  BY DEF Shaped
<1>. HIDE DEF y
<1>5. Shaped(y)
  BY <1>2, <1>3, <1>4 DEF Shaped
<1>. QED
  BY <1>4, <1>5 DEF y, s, f, n

\* Leaving a frame.
LEMMA FrameLeftShaped ==
  ASSUME NEW x, Shaped(x), x.stack # <<>>,
         NEW y, {"stack", "depth"} \subseteq DOMAIN y, y.stack = Front(x.stack),
         y.depth = IF Last(x.stack).kind = "suspense" THEN x.depth - 1 ELSE x.depth
  PROVE  /\ Shaped(y) /\ IsFrame(Last(x.stack)) /\ x.depth \in Nat
         /\ Last(x.stack).kind = "suspense" => x.depth - 1 \in Nat
<1>. DEFINE s == Front(x.stack)
            k == Len(x.stack)
<1>1. /\ IsSeq(s) /\ DOMAIN s = 1 .. k - 1 /\ DOMAIN x.stack = 1 .. k
      /\ \A i \in 1 .. k - 1 : s[i] = x.stack[i]
      /\ k \in Nat /\ k \in DOMAIN x.stack /\ Last(x.stack) = x.stack[k]
  BY FrontIsSeq DEF Shaped
<1>2. IsFiniteSet(Boundaries(x.stack)) /\ Cardinality(Boundaries(x.stack)) \in Nat
  BY BoundariesFinite DEF Shaped
<1>. HIDE DEF s, k
<1>3. DOMAIN s = DOMAIN x.stack \ {k}
  BY <1>1
<1>4. \A i \in DOMAIN s : IsFrame(s[i])
  BY <1>1, <1>3 DEF Shaped
<1>5. CASE Last(x.stack).kind = "suspense"
  <2>. DEFINE B == Boundaries(x.stack)
  <2>1. Boundaries(s) = B \ {k} /\ k \in B
    BY <1>1, <1>3, <1>5 DEF Boundaries
  <2>2. IsFiniteSet(B) /\ x.depth = Cardinality(B)
    BY <1>2 DEF Shaped
  <2>. HIDE DEF B
  <2>3. Cardinality(B \ {k}) = Cardinality(B) - 1 /\ Cardinality(B \ {k}) \in Nat
    BY <2>1, <2>2, FS_RemoveElement, FS_CardinalityType
  <2>4. Cardinality(B) \in Nat
    BY <2>2, FS_CardinalityType
  <2>. QED
    BY <1>1, <1>4, <1>5, <2>1, <2>2, <2>3, <2>4 DEF Shaped, s
<1>6. CASE Last(x.stack).kind # "suspense"
  <2>1. Boundaries(s) = Boundaries(x.stack)
    BY <1>1, <1>3, <1>6 DEF Boundaries
  <2>. QED
    BY <1>1, <1>2, <1>4, <1>6, <2>1 DEF Shaped, s
<1>. QED
  BY <1>5, <1>6
-----------------------------------------------------------------------------
\* What resolve() comes to is an element of the tree.
LEMMA ResolvedIsElement ==
  ASSUME NEW e \in Element, Resolved(e).is = "element"
  PROVE  Resolved(e).of \in Element
<1>. DEFINE Awaits(x, statuses) == Shape[x].data # None /\ data[Shape[x].data] \in statuses
            Throws(x)   == Kind(x) = "thrower" \/ (Kind(x) = "component" /\ Awaits(x, {"failed"}))
            Suspends(x) == Kind(x) = "component" /\ Awaits(x, {"idle", "pending"})
            ToElement(x) == Kind(x) = "component" /\ ~Awaits(x, {"idle", "pending", "failed"})
            Over(x) ==
              CASE Throws(x)   -> [is |-> "error", of |-> None]
                [] Suspends(x) -> [is |-> "promise", of |-> Shape[x].data]
                [] ToElement(x) -> [is |-> "null", of |-> None]
                [] OTHER       -> [is |-> "element", of |-> x]
            GoesOn(x) == ToElement(x) /\ Shape[x].kid # None
            call == CHOOSE f :
              f = [x \in Element |-> IF GoesOn(x) THEN f[Shape[x].kid] ELSE Over(x)]
            again   == { x \in Element : GoesOn(x) }
            next    == [x \in Element |-> Shape[x].kid]
            out     == [x \in Element |-> Over(x)]
            results == { out[x] : x \in Element }
<1>1. PICK rank \in [Components -> 0 .. Cardinality(Components)] :
        \A x \in Components : Shape[x].kid \in Components => rank[Shape[x].kid] < rank[x]
  BY MarkupAssumption
<1>. DEFINE size == [x \in Element |-> IF x \in Components THEN rank[x] + 1 ELSE 0]
<1>2. \A x \in Components : rank[x] \in Nat
  BY <1>1
<1>3. \A x \in again : next[x] \in Element /\ x \in Components
  BY MarkupAssumption DEF Components
<1>4. Decreases(Element, again, next, size)
  <2>1. again \subseteq Element /\ \A x \in Element : size[x] \in Nat
    BY <1>2 DEF Components
  <2>2. ASSUME NEW x \in again PROVE size[next[x]] < size[x]
    <3>1. x \in Components /\ x \in Element /\ next[x] = Shape[x].kid /\ next[x] \in Element
      BY <1>3 DEF Components
    <3>. HIDE DEF again, next
    <3>2. size[x] = rank[x] + 1
      BY <3>1
    <3>3. CASE next[x] \in Components
      BY <1>1, <1>2, <3>1, <3>2, <3>3
    <3>4. CASE next[x] \notin Components
      BY <1>2, <3>1, <3>2, <3>4
    <3>. QED
      BY <3>3, <3>4
  <2>. HIDE DEF size, again, next
  <2>. QED
    BY <1>3, <2>1, <2>2 DEF Decreases
<1>5. \A f : IsLoop(f, Element, again, next, out)
             <=> f = [x \in Element |-> IF GoesOn(x) THEN f[Shape[x].kid] ELSE Over(x)]
  <2>. SUFFICES ASSUME NEW f
                PROVE  [x \in Element |-> IF x \in again THEN f[next[x]] ELSE out[x]]
                         = [x \in Element |-> IF GoesOn(x) THEN f[Shape[x].kid] ELSE Over(x)]
    BY DEF IsLoop
  <2>. HIDE DEF GoesOn, Over
  <2>. QED
    OBVIOUS
<1>6. \E f : IsLoop(f, Element, again, next, out)
  <2>. HIDE DEF size, again, next, out
  <2>. QED
    BY <1>4, LoopEnds
<1>7. IsLoop(call, Element, again, next, out)
  <2>. HIDE DEF again, next, out, GoesOn, Over
  <2>. QED
    BY <1>5, <1>6
<1>8. Keeps(Element, results, Element, again, next, out)
  <2>. HIDE DEF again, next, out
  <2>. QED
    BY <1>3 DEF Keeps
<1>9. call[e] \in results
  <2>. HIDE DEF size, again, next, out, call, results
  <2>. QED
    BY <1>4, <1>7, <1>8, LoopKeeps
<1>10. Resolved(e) = call[e]
  BY DEF Resolved
<1>11. PICK x \in Element : Resolved(e) = out[x]
  BY <1>9, <1>10
<1>. QED
  BY <1>11
-----------------------------------------------------------------------------
\* Slots are added, never taken away.
LEMMA RemembersMore ==
  ASSUME NEW x, NEW before, Remembers(x, before), NEW after, ValuesOK(before), ValuesOK(after),
         Grows(before, after)
  PROVE  Remembers(x, after)
<1>1. \A c \in Context : Len(before[c]) \in Nat /\ Len(after[c]) \in Nat
  BY DEF ValuesOK
<1>2. \A i \in 1 .. Len(x.contextStack) :
        i <= x.providers => Len(after[x.contextStack[i]]) > x.threadID
  <2>. SUFFICES ASSUME NEW i \in 1 .. Len(x.contextStack), i <= x.providers
                PROVE  Len(after[x.contextStack[i]]) > x.threadID
    OBVIOUS
  <2>. DEFINE c == x.contextStack[i]
  <2>1. c \in Context /\ Len(before[c]) > x.threadID /\ x.threadID \in Nat
    BY DEF Remembers
  <2>2. Len(after[c]) >= Len(before[c])
    BY <2>1 DEF Grows
  <2>. HIDE DEF c
  <2>3. Len(after[c]) > x.threadID
    BY <1>1, <2>1, <2>2
  <2>. QED
    BY <2>3 DEF c
<1>. QED
  BY <1>2 DEF Remembers

\* A renderer in the same providers remembers the same.
LEMMA RemembersSame ==
  ASSUME NEW x, NEW slots, Remembers(x, slots), NEW y, SameProviders(x, y)
  PROVE  Remembers(y, slots) /\ y.threadID = x.threadID
BY DEF Remembers, SameProviders

\* validateContextBounds adds slots, up to the one of the thread ID.
LEMMA BoundedValues ==
  ASSUME NEW c \in Context, slot[c] \in Seq(Element), NEW id \in Nat
  PROVE  /\ Bounded(c, id) \in Seq(Element) /\ Len(Bounded(c, id)) >= Len(slot[c])
         /\ Len(Bounded(c, id)) > id /\ id + 1 \in DOMAIN Bounded(c, id)
         /\ ValueOf(c, id) \in Element
<1>. DEFINE s == slot[c]
            n == IF Len(s) > id THEN Len(s) ELSE id + 1
            b == [i \in 1 .. n |-> IF i <= Len(s) THEN s[i] ELSE Default[c]]
<1>1. /\ s \in Seq(Element) /\ Len(s) \in Nat /\ \A i \in 1 .. Len(s) : s[i] \in Element
      /\ Default[c] \in Element
  BY MarkupAssumption DEF ContextValues
<1>2. n \in Nat /\ n >= Len(s) /\ n > id /\ id + 1 \in 1 .. n
  BY <1>1
<1>3. Bounded(c, id) = b
  BY DEF Bounded
<1>. HIDE DEF n, s
<1>4. b \in [1 .. n -> Element]
  BY <1>1, <1>2
<1>. HIDE DEF b
<1>5. b \in Seq(Element) /\ DOMAIN b = 1 .. n
  BY <1>2, <1>4
<1>6. Len(b) = n
  BY <1>2, <1>5
<1>. QED
  BY <1>2, <1>3, <1>4, <1>5, <1>6 DEF ValueOf, s

\* A slot is assigned to.
LEMMA ValuesSet ==
  ASSUME ValuesOK(slot), NEW c \in Context, NEW s \in Seq(Element), Len(s) >= Len(slot[c]),
         NEW after, after = [slot EXCEPT ![c] = s]
  PROVE  ValuesOK(after) /\ Grows(slot, after) /\ after[c] = s
<1>1. DOMAIN after = Context /\ \A d \in Context : after[d] = IF d = c THEN s ELSE slot[d]
  BY DEF ValuesOK
<1>2. \A d \in Context : Len(slot[d]) \in Nat
  BY DEF ValuesOK
<1>. QED
  BY <1>1, <1>2 DEF ValuesOK, Grows

\* Assigning to an element of a sequence of elements.
LEMMA ElementSet ==
  ASSUME NEW s \in Seq(Element), NEW m, NEW v, m \in DOMAIN s => v \in Element
  PROVE  [s EXCEPT ![m] = v] \in Seq(Element) /\ Len([s EXCEPT ![m] = v]) = Len(s)
<1>1. CASE m \in DOMAIN s
  BY <1>1
<1>2. CASE m \notin DOMAIN s
  <2>1. [s EXCEPT ![m] = v] = s
    BY <1>2
  <2>. QED
    BY <2>1
<1>. QED
  BY <1>1, <1>2

\* Entering a provider.
LEMMA ProviderRemembers ==
  ASSUME NEW x, Remembers(x, slot), Shaped(x), ValuesOK(slot), NEW c \in Context, NEW v \in Element,
         NEW kids,
         NEW y, y = ProviderPushed(PushFrame(x, Frame("provider", kids, <<>>)), c),
         NEW after, after = SlotProvided(x, c, v)
  PROVE  /\ ValuesOK(after) /\ Grows(slot, after) /\ Remembers(y, after)
         /\ y.threadID = x.threadID /\ DOMAIN y = DOMAIN x /\ y.depth = x.depth
         /\ y.stack = Append(x.stack, Frame("provider", kids, <<>>))
<1>. DEFINE f  == Frame("provider", kids, <<>>)
            n  == x.providers + 1
            w  == ValueOf(c, x.threadID)
            cs == Stored(x.contextStack, n, c)
            vs == Stored(x.contextValueStack, n, w)
            p  == PushFrame(x, f)
<1>1. /\ Fields \subseteq DOMAIN x /\ x.threadID \in Nat /\ x.providers \in Nat
      /\ IsSeq(x.contextStack) /\ IsSeq(x.contextValueStack)
      /\ Len(x.contextStack) = Len(x.contextValueStack) /\ x.providers <= Len(x.contextStack)
      /\ Len(x.contextStack) \in Nat
  BY DEF Remembers, IsSeq
<1>2. /\ DOMAIN p = DOMAIN x /\ p.threadID = x.threadID /\ p.depth = x.depth
      /\ p.stack = Append(x.stack, f) /\ p.providers = x.providers
      /\ p.contextStack = x.contextStack /\ p.contextValueStack = x.contextValueStack
  BY <1>1 DEF PushFrame, Fields
<1>. HIDE DEF p
<1>3. y = ProviderPushed(p, c)
  BY DEF p
<1>4. /\ DOMAIN y = DOMAIN x /\ y.threadID = x.threadID /\ y.depth = x.depth
      /\ y.stack = Append(x.stack, f)
      /\ y.providers = n /\ y.contextStack = cs /\ y.contextValueStack = vs
  BY <1>1, <1>2, <1>3 DEF ProviderPushed, Fields, Stored, Shaped
<1>5. /\ n \in Nat /\ n >= 1 /\ n <= Len(x.contextStack) + 1 /\ n <= Len(x.contextValueStack) + 1
      /\ n - 1 = x.providers
  BY <1>1
<1>6. /\ IsSeq(cs) /\ Len(cs) = (IF n > Len(x.contextStack) THEN n ELSE Len(x.contextStack))
      /\ cs[n] = c /\ \A i \in 1 .. n - 1 : cs[i] = x.contextStack[i]
  <2>. HIDE DEF n
  <2>. QED
    BY <1>1, <1>5, StoreOK
<1>7. /\ IsSeq(vs) /\ Len(vs) = (IF n > Len(x.contextStack) THEN n ELSE Len(x.contextStack))
      /\ vs[n] = w /\ \A i \in 1 .. n - 1 : vs[i] = x.contextValueStack[i]
  <2>. HIDE DEF n, w
  <2>. QED
    BY <1>1, <1>5, StoreOK
<1>8. \A i \in 1 .. Len(cs) : i > n => cs[i] = None
  <2>1. CASE n > Len(x.contextStack)
    BY <1>5, <1>6, <2>1
  <2>2. CASE ~(n > Len(x.contextStack))
    <3>1. cs = [x.contextStack EXCEPT ![n] = c]
      BY <2>2 DEF Stored
    <3>2. \A i \in DOMAIN x.contextStack : i > n => cs[i] = x.contextStack[i]
      <4>. DEFINE s == x.contextStack
                  t == [s EXCEPT ![n] = c]
      <4>1. \A i \in DOMAIN s : t[i] = IF i = n THEN c ELSE s[i]
        <5>1. IsSeq(s)
          BY <1>1
        <5>. HIDE DEF s, n
        <5>. QED
          BY <5>1, ExceptAny
      <4>. HIDE DEF t, s
      <4>2. \A i \in DOMAIN s : i > n => i # n
        BY <1>5
      <4>3. cs = t /\ DOMAIN x.contextStack = DOMAIN s /\ x.contextStack = s
        BY <3>1 DEF t, s
      <4>. QED
        BY <4>1, <4>2, <4>3
    <3>3. Len(cs) = Len(x.contextStack) /\ DOMAIN x.contextStack = 1 .. Len(x.contextStack)
      BY <1>1, <1>6, <2>2 DEF IsSeq
    <3>4. \A i \in 1 .. Len(x.contextStack) : i > n => ~(i <= x.providers)
      BY <1>1, <1>5
    <3>. HIDE DEF n, cs
    <3>. QED
      BY <3>2, <3>3, <3>4 DEF Remembers
  <2>. QED
    BY <2>1, <2>2
<1>. DEFINE b == Bounded(c, x.threadID)
            t == [b EXCEPT ![x.threadID + 1] = v]
<1>9. /\ b \in Seq(Element) /\ Len(b) >= Len(slot[c]) /\ Len(b) > x.threadID /\ w \in Element
  BY <1>1, BoundedValues DEF ValuesOK
<1>10. after = [slot EXCEPT ![c] = t]
  BY DEF SlotProvided
<1>11. t \in Seq(Element) /\ Len(t) = Len(b)
  <2>. HIDE DEF b
  <2>. QED
    BY <1>9, ElementSet
<1>. HIDE DEF b, t
<1>12. ValuesOK(after) /\ Grows(slot, after) /\ after[c] = t
  BY <1>9, <1>10, <1>11, ValuesSet
<1>13. Remembers(x, after)
  BY <1>12, RemembersMore
<1>14. Remembers(y, after)
  <2>1. Len(cs) = Len(vs) /\ n <= Len(cs)
    BY <1>1, <1>5, <1>6, <1>7
  <2>2. ASSUME NEW i \in 1 .. Len(cs), i <= n
        PROVE  /\ cs[i] \in Context /\ vs[i] \in Element /\ Len(after[cs[i]]) > x.threadID
    <3>1. CASE i = n
      BY <1>6, <1>7, <1>9, <1>11, <1>12, <3>1
    <3>2. CASE i # n
      <4>1. i \in 1 .. n - 1 /\ i \in 1 .. Len(x.contextStack) /\ i <= x.providers
        BY <1>1, <1>5, <2>2, <3>2
      <4>. HIDE DEF n, cs, vs
      <4>. QED
        BY <1>6, <1>7, <1>13, <4>1 DEF Remembers
    <3>. QED
      BY <3>1, <3>2
  <2>3. \A i \in 1 .. Len(cs) : ~(i <= n) => cs[i] = None
    BY <1>5, <1>8
  <2>. HIDE DEF n, cs, vs, w
  <2>. QED
    BY <1>1, <1>4, <1>5, <1>6, <1>7, <2>1, <2>2, <2>3 DEF Remembers
<1>. QED
  BY <1>4, <1>12, <1>14

\* A renderer in a provider's frame remembers that provider.
LEMMA InProvider ==
  ASSUME NEW x, StackOK(x), x.stack # <<>>, Last(x.stack).kind = "provider"
  PROVE  x.providers >= 1
<1>. DEFINE S == ProviderFrames(x.stack)
            l == Len(x.stack)
<1>1. IsFiniteSet(S) /\ x.providers = Cardinality(S) /\ x.providers \in Nat
  BY ProviderFramesFinite DEF StackOK
<1>2. l \in S
  BY FrontIsSeq DEF StackOK, FramesOK, ProviderFrames
<1>. HIDE DEF S, l
<1>3. Cardinality(S \ {l}) = Cardinality(S) - 1 /\ Cardinality(S \ {l}) \in Nat
  BY <1>1, <1>2, FS_RemoveElement, FS_CardinalityType
<1>. QED
  BY <1>1, <1>3

\* Leaving a provider.
LEMMA ProviderForgotten ==
  ASSUME NEW x, Remembers(x, slot), Shaped(x), StackOK(x), ValuesOK(slot),
         x.stack # <<>>, Last(x.stack).kind = "provider",
         NEW y, y = ProviderPopped(FrameLeft(x)),
         NEW after, after = SlotRestored(x)
  PROVE  /\ ValuesOK(after) /\ Grows(slot, after) /\ Remembers(y, after)
         /\ y.threadID = x.threadID /\ {"stack", "depth"} \subseteq DOMAIN y
         /\ y.depth = x.depth /\ y.stack = Front(x.stack)
<1>. DEFINE n  == x.providers
            c  == x.contextStack[n]
            v  == x.contextValueStack[n]
            w  == FrameLeft(x)
            cs == [x.contextStack EXCEPT ![n] = None]
            vs == [x.contextValueStack EXCEPT ![n] = None]
<1>1. /\ Fields \subseteq DOMAIN x /\ x.threadID \in Nat /\ n \in Nat /\ n >= 1
      /\ IsSeq(x.contextStack) /\ IsSeq(x.contextValueStack)
      /\ Len(x.contextStack) = Len(x.contextValueStack) /\ n <= Len(x.contextStack)
      /\ Len(x.contextStack) \in Nat
      /\ DOMAIN x.contextStack = 1 .. Len(x.contextStack)
      /\ DOMAIN x.contextValueStack = 1 .. Len(x.contextStack)
  BY InProvider DEF Remembers, IsSeq
<1>2. n \in 1 .. Len(x.contextStack) /\ n - 1 \in Nat /\ n - 1 <= Len(x.contextStack)
  BY <1>1
<1>3. c \in Context /\ v \in Element
  BY <1>1, <1>2 DEF Remembers
<1>4. /\ DOMAIN w = DOMAIN x /\ w.threadID = x.threadID /\ w.depth = x.depth
      /\ w.stack = Front(x.stack) /\ w.providers = n
      /\ w.contextStack = x.contextStack /\ w.contextValueStack = x.contextValueStack
  BY <1>1 DEF FrameLeft, Fields, Shaped
<1>. HIDE DEF w
<1>5. y = ProviderPopped(w)
  BY DEF w
<1>6. /\ DOMAIN y = DOMAIN x /\ y.threadID = x.threadID /\ y.depth = x.depth
      /\ y.stack = Front(x.stack)
      /\ y.providers = n - 1 /\ y.contextStack = cs /\ y.contextValueStack = vs
  BY <1>1, <1>4, <1>5 DEF ProviderPopped, Fields, Shaped
<1>7. /\ IsSeq(cs) /\ Len(cs) = Len(x.contextStack)
      /\ \A i \in 1 .. Len(x.contextStack) : cs[i] = IF i = n THEN None ELSE x.contextStack[i]
  <2>. DEFINE q == x.contextStack
  <2>1. IsSeq(q) /\ cs = [q EXCEPT ![n] = None] /\ DOMAIN q = 1 .. Len(q)
    BY <1>1
  <2>. HIDE DEF n, q, cs
  <2>2. IsSeq(cs) /\ Len(cs) = Len(q) /\ \A i \in DOMAIN q : cs[i] = IF i = n THEN None ELSE q[i]
    BY <2>1, ExceptAny
  <2>. QED
    BY <2>1, <2>2 DEF q
<1>8. /\ IsSeq(vs) /\ Len(vs) = Len(x.contextStack)
      /\ \A i \in 1 .. Len(x.contextStack) : i # n => vs[i] = x.contextValueStack[i]
  <2>. DEFINE q == x.contextValueStack
  <2>1. /\ IsSeq(q) /\ vs = [q EXCEPT ![n] = None]
        /\ DOMAIN q = 1 .. Len(x.contextStack) /\ Len(q) = Len(x.contextStack)
    BY <1>1
  <2>. HIDE DEF n, q, vs
  <2>2. IsSeq(vs) /\ Len(vs) = Len(q) /\ \A i \in DOMAIN q : vs[i] = IF i = n THEN None ELSE q[i]
    BY <2>1, ExceptAny
  <2>3. \A i \in DOMAIN q : i # n => vs[i] = q[i]
    BY <2>2
  <2>. QED
    BY <2>1, <2>2, <2>3 DEF q
<1>. HIDE DEF cs, vs
<1>. DEFINE s == slot[c]
            t == [s EXCEPT ![x.threadID + 1] = v]
<1>9. after = [slot EXCEPT ![c] = t]
  BY DEF SlotRestored
<1>10. s \in Seq(Element) /\ Len(s) \in Nat
  BY <1>3 DEF ValuesOK
<1>11. t \in Seq(Element) /\ Len(t) = Len(s)
  <2>. HIDE DEF s, v
  <2>. QED
    BY <1>3, <1>10, ElementSet
<1>12. ValuesOK(after) /\ Grows(slot, after)
  <2>. HIDE DEF t, c
  <2>1. Len(t) >= Len(slot[c])
    BY <1>10, <1>11
  <2>. QED
    BY <1>3, <1>9, <1>11, <2>1, ValuesSet
<1>13. Remembers(x, after)
  BY <1>12, RemembersMore
<1>14. Remembers(y, after)
  <2>1. ASSUME NEW i \in 1 .. Len(x.contextStack)
        PROVE  IF i <= n - 1
                 THEN /\ cs[i] \in Context /\ vs[i] \in Element
                      /\ Len(after[cs[i]]) > x.threadID
                 ELSE cs[i] = None
    <3>1. CASE i <= n - 1
      <4>1. i <= n /\ i # n
        BY <1>1, <3>1
      <4>2. /\ x.contextStack[i] \in Context /\ x.contextValueStack[i] \in Element
            /\ Len(after[x.contextStack[i]]) > x.threadID
        BY <1>13, <4>1 DEF Remembers
      <4>. QED
        BY <1>7, <1>8, <3>1, <4>1, <4>2
    <3>2. CASE i = n
      BY <1>1, <1>7, <3>2
    <3>3. CASE ~(i <= n - 1) /\ i # n
      <4>1. ~(i <= n)
        BY <1>1, <3>3
      <4>2. x.contextStack[i] = None
        BY <1>13, <4>1 DEF Remembers
      <4>. QED
        BY <1>7, <3>3, <4>2
    <3>. QED
      BY <3>1, <3>2, <3>3
  <2>. HIDE DEF n
  <2>. QED
    BY <1>1, <1>2, <1>6, <1>7, <1>8, <2>1 DEF Remembers
<1>. QED
  BY <1>6, <1>12, <1>14 DEF Shaped

\* clearProviders assigns to slots that are there.
LEMMA ClearedValues ==
  ASSUME NEW x, Remembers(x, slot), ValuesOK(slot)
  PROVE  ValuesOK(Cleared(x)) /\ Grows(slot, Cleared(x))
<1>1. DOMAIN Cleared(x) = Context
  BY DEF Cleared
<1>2. ASSUME NEW c \in Context
      PROVE  Cleared(x)[c] \in Seq(Element) /\ Len(Cleared(x)[c]) >= Len(slot[c])
  <2>. DEFINE s == slot[c]
              least == CHOOSE i \in Mine(x, c) : \A j \in Mine(x, c) : i <= j
  <2>0. s \in Seq(Element) /\ Len(s) \in Nat
    BY DEF ValuesOK
  <2>1. Cleared(x)[c] = IF Mine(x, c) = {} THEN s
                        ELSE [s EXCEPT ![x.threadID + 1] = x.contextValueStack[least]]
    BY DEF Cleared, Mine
  <2>2. CASE Mine(x, c) = {}
    BY <2>0, <2>1, <2>2
  <2>3. CASE Mine(x, c) # {}
    <3>1. Mine(x, c) \subseteq Nat
      BY DEF Mine, Remembers
    <3>2. \E i \in Mine(x, c) : \A j \in Mine(x, c) : i <= j
      BY <2>3, <3>1, LeastElement
    <3>3. least \in Mine(x, c)
      BY <3>2
    <3>. HIDE DEF least
    <3>4. least \in 1 .. Len(x.contextStack) /\ least <= x.providers
      <4>1. least \in 1 .. x.providers
        BY <3>3 DEF Mine
      <4>2. x.providers \in Nat /\ Len(x.contextStack) \in Nat /\ x.providers <= Len(x.contextStack)
        BY DEF Remembers, IsSeq
      <4>. QED
        BY <4>1, <4>2
    <3>5. x.contextValueStack[least] \in Element
      BY <3>4 DEF Remembers
    <3>. DEFINE t == [s EXCEPT ![x.threadID + 1] = x.contextValueStack[least]]
    <3>6. t \in Seq(Element) /\ Len(t) = Len(s)
      <4>. HIDE DEF s
      <4>. QED
        BY <2>0, <3>5, ElementSet
    <3>. QED
      BY <2>0, <2>1, <2>3, <3>6
  <2>. QED
    BY <2>2, <2>3
<1>. QED
  BY <1>1, <1>2 DEF ValuesOK, Grows
-----------------------------------------------------------------------------
\* Each child that is rendered enters one frame at most.
LEMMA FrameIsFrame ==
  ASSUME NEW kind, NEW kids \in Seq(Element), NEW footer
  PROVE  IsFrame(Frame(kind, kids, footer)) /\ Frame(kind, kids, footer).kind = kind
<1>1. <<>> \in Seq(Element)
  OBVIOUS
<1>. QED
  BY <1>1 DEF Frame, IsFrame

OneFrame(x, y) == Shaped(y) /\ y.depth \in {x.depth, x.depth + 1} /\ x.depth \in Nat

\* A frame that is no boundary's.
LEMMA PlainFrame ==
  ASSUME NEW x, Shaped(x), NEW f, IsFrame(f), f.kind # "suspense",
         NEW y, {"stack", "depth"} \subseteq DOMAIN y, y.stack = Append(x.stack, f),
         y.depth = x.depth
  PROVE  OneFrame(x, y)
BY PushShaped DEF OneFrame

\* Text: no frame at all.
LEMMA TextShaped ==
  ASSUME NEW x, Shaped(x), NEW e
  PROVE  OneFrame(x, TextRendered(x, e).renderer)
<1>. DEFINE y == [x EXCEPT !.afterText = IF x.static THEN @ ELSE TRUE]
<1>1. {"stack", "depth"} \subseteq DOMAIN y /\ y.stack = x.stack /\ y.depth = x.depth
  BY DEF Shaped
<1>2. TextRendered(x, e).renderer = y
  BY DEF TextRendered, Result
<1>3. x.depth \in Nat
  BY BoundariesFinite DEF Shaped
<1>. HIDE DEF y
<1>. QED
  BY <1>1, <1>2, <1>3, ShapedByFrames DEF OneFrame

\* A host element.
LEMMA HostShaped ==
  ASSUME NEW x, Shaped(x), NEW e \in Element, Kind(e) \in {"host", "select", "option"}, NEW isRoot
  PROVE  OneFrame(x, HostRendered(x, e, isRoot).renderer)
<1>. DEFINE f == Frame(Kind(e), Shape[e].kids, <<CloseTag(e)>>)
            p == PushFrame(x, f)
            y == [p EXCEPT !.afterText = FALSE, !.select = SelectIn(e, @)]
<1>1. Shape[e].kids \in Seq(Element)
  BY MarkupAssumption
<1>2. IsFrame(f) /\ f.kind # "suspense"
  BY <1>1, FrameIsFrame
<1>3. HostRendered(x, e, isRoot).renderer = y
  BY DEF HostRendered, Result
<1>4. {"stack", "depth"} \subseteq DOMAIN p /\ p.stack = Append(x.stack, f) /\ p.depth = x.depth
  BY DEF PushFrame, Shaped
<1>. HIDE DEF p, f
<1>5. {"stack", "depth"} \subseteq DOMAIN y /\ y.stack = p.stack /\ y.depth = p.depth
  BY <1>4
<1>. HIDE DEF y
<1>. QED
  BY <1>2, <1>3, <1>4, <1>5, PlainFrame

\* A frame with nothing else.
LEMMA PushFrameShaped ==
  ASSUME NEW x, Shaped(x), NEW f, IsFrame(f), f.kind # "suspense"
  PROVE  OneFrame(x, PushFrame(x, f))
<1>. DEFINE y == PushFrame(x, f)
<1>1. {"stack", "depth"} \subseteq DOMAIN y /\ y.stack = Append(x.stack, f) /\ y.depth = x.depth
  BY DEF PushFrame, Shaped
<1>. HIDE DEF y
<1>2. OneFrame(x, y)
  BY <1>1, PlainFrame
<1>. QED
  BY <1>2 DEF y

\* A fragment.
LEMMA FragmentShaped ==
  ASSUME NEW x, Shaped(x), NEW e \in Element, Kind(e) \in {"fragment", "text"}
  PROVE  OneFrame(x, FragmentRendered(x, e).renderer)
<1>. DEFINE kids == IF Kind(e) = "text" THEN <<e>> ELSE Shape[e].kids
<1>1. kids \in Seq(Element)
  BY MarkupAssumption
<1>2. FragmentRendered(x, e).renderer = PushFrame(x, Frame("fragment", kids, <<>>))
  BY DEF FragmentRendered, Result
<1>. HIDE DEF kids
<1>. QED
  BY <1>1, <1>2, FrameIsFrame, PushFrameShaped

\* A consumer, with the value as its only child.
LEMMA ContextShaped ==
  ASSUME NEW x, Shaped(x), NEW e, NEW id, ValueOf(Shape[e].context, id) \in Element
  PROVE  OneFrame(x, ContextRendered(x, e, id).renderer)
<1>. DEFINE kids == <<ValueOf(Shape[e].context, id)>>
<1>1. kids \in Seq(Element)
  OBVIOUS
<1>2. ContextRendered(x, e, id).renderer = PushFrame(x, Frame("consumer", kids, <<>>))
  BY DEF ContextRendered, Result
<1>. HIDE DEF kids
<1>. QED
  BY <1>1, <1>2, FrameIsFrame, PushFrameShaped

\* A boundary, which is counted.
LEMMA SuspenseShaped ==
  ASSUME NEW x, Shaped(x), NEW e \in Element, Kind(e) = "suspense"
  PROVE  OneFrame(x, SuspenseRendered(x, e).renderer)
<1>. DEFINE f == SuspenseFrame(e)
            p == PushFrame(x, f)
            y == [p EXCEPT !.depth = @ + 1]
            g == Frame("suspense", Shape[e].kids, <<CloseBoundary>>)
<1>1. Shape[e].kids \in Seq(Element) /\ Shape[e].fallback \in Seq(Element)
  BY MarkupAssumption
<1>2. IsFrame(g) /\ g.kind = "suspense"
  BY <1>1, FrameIsFrame
<1>3. f = [g EXCEPT !.fallback = Shape[e].fallback]
  BY DEF SuspenseFrame
<1>. HIDE DEF g, f
<1>4. IsFrame(f) /\ f.kind = "suspense"
  BY <1>1, <1>2, <1>3 DEF IsFrame
<1>5. {"stack", "depth"} \subseteq DOMAIN p /\ p.stack = Append(x.stack, f) /\ p.depth = x.depth
  BY DEF PushFrame, Shaped
<1>6. SuspenseRendered(x, e).renderer = y
  BY DEF SuspenseRendered, Result, f
<1>. HIDE DEF p
<1>7. {"stack", "depth"} \subseteq DOMAIN y /\ y.stack = p.stack /\ y.depth = p.depth + 1
  BY <1>5
<1>. HIDE DEF y
<1>8. Shaped(y) /\ x.depth \in Nat
  BY <1>4, <1>5, <1>7, PushShaped
<1>. QED
  BY <1>5, <1>6, <1>7, <1>8 DEF OneFrame
-----------------------------------------------------------------------------
CallFields == {"renderer", "bounded", "out", "previous", "nested"}

\* A read has one buffer for each boundary its renderer is in and one outside of
\* them, and has enough only outside of all boundaries.
CallTyped(c, rs) ==
  /\ CallFields \subseteq DOMAIN c /\ c.renderer \in DOMAIN rs
  /\ IsSeq(c.out) /\ Len(c.out) = rs[c.renderer].depth + 1
  /\ c.bounded /\ Len(c.out[1]) >= Chunk => rs[c.renderer].depth = 0

ThreadIDAt(cs, rs, n) == IF n = 0 THEN 0 ELSE rs[cs[n].renderer].threadID

\* Each read on the stack is of a renderer of its own and restores the thread ID of
\* the one around it; a renderer that is not read is outside of all boundaries.
CallsTyped(cs, rs, current) ==
  /\ IsSeq(cs) /\ IsSeq(rs)
  /\ \A i \in DOMAIN cs : CallTyped(cs[i], rs)
  /\ \A i, j \in DOMAIN cs : cs[i].renderer = cs[j].renderer => i = j
  /\ \A i \in DOMAIN cs : i > 1 => Shape[cs[i].nested].kid \in Element \cup {None}
  /\ \A i \in DOMAIN cs : cs[i].previous = ThreadIDAt(cs, rs, i - 1)
  /\ current = ThreadIDAt(cs, rs, Len(cs))
  /\ \A r \in DOMAIN rs :
       ~rs[r].exhausted /\ (\A i \in DOMAIN cs : cs[i].renderer # r) => rs[r].depth = 0

GoesOn(c, d) ==
  /\ CallFields \subseteq DOMAIN d
  /\ d.renderer = c.renderer /\ d.bounded = c.bounded
  /\ d.previous = c.previous /\ d.nested = c.nested

\* The last element of a sequence is assigned to.
LEMMA LastSet ==
  ASSUME NEW s, IsSeq(s), s # <<>>, NEW x
  PROVE  LET n == Len(s)
             t == [s EXCEPT ![n] = x]
         IN  /\ IsSeq(t) /\ Len(t) = n /\ DOMAIN t = DOMAIN s /\ t[n] = x
             /\ \A i \in DOMAIN s \ {n} : t[i] = s[i]
<1>1. Len(s) \in DOMAIN s
  BY FrontIsSeq
<1>. QED
  BY <1>1, ExceptIsSeq

\* The innermost read goes on.
LEMMA CallGoesOn ==
  ASSUME NEW cs, NEW rs, NEW current, CallsTyped(cs, rs, current), cs # <<>>,
         NEW call, GoesOn(cs[Len(cs)], call), NEW x, x.threadID = rs[call.renderer].threadID,
         IsSeq(call.out), Len(call.out) = x.depth + 1,
         call.bounded /\ Len(call.out[1]) >= Chunk => x.depth = 0
  PROVE  CallsTyped([cs EXCEPT ![Len(cs)] = call], [rs EXCEPT ![call.renderer] = x], current)
<1>. DEFINE n == Len(cs)
            m == call.renderer
            ds == [cs EXCEPT ![n] = call]
            ts == [rs EXCEPT ![m] = x]
<1>1. n \in Nat /\ n \in DOMAIN cs /\ DOMAIN cs = 1 .. n /\ IsSeq(cs) /\ IsSeq(rs)
  BY FrontIsSeq DEF CallsTyped
<1>2. m = cs[n].renderer /\ m \in DOMAIN rs /\ CallFields \subseteq DOMAIN call
  BY <1>1 DEF CallsTyped, CallTyped, GoesOn
<1>3. /\ IsSeq(ds) /\ Len(ds) = n /\ DOMAIN ds = DOMAIN cs /\ ds[n] = call
      /\ \A i \in DOMAIN cs \ {n} : ds[i] = cs[i]
  BY <1>1, LastSet
<1>4. /\ IsSeq(ts) /\ DOMAIN ts = DOMAIN rs /\ ts[m] = x
      /\ \A r \in DOMAIN rs \ {m} : ts[r] = rs[r]
  BY <1>1, <1>2, ExceptIsSeq
<1>. HIDE DEF ds, ts
<1>5. \A i \in DOMAIN cs : GoesOn(cs[i], ds[i])
  BY <1>3 DEF CallsTyped, CallTyped, GoesOn
<1>6. \A r \in DOMAIN rs : ts[r].threadID = rs[r].threadID
  BY <1>4
<1>7. \A i \in 0 .. n : ThreadIDAt(ds, ts, i) = ThreadIDAt(cs, rs, i)
  <2>1. \A i \in 0 .. n : i # 0 => i \in DOMAIN cs /\ cs[i].renderer \in DOMAIN rs
    BY <1>1 DEF CallsTyped, CallTyped
  <2>. QED
    BY <1>5, <1>6, <2>1 DEF ThreadIDAt, GoesOn
<1>8. \A i \in DOMAIN cs : CallTyped(ds[i], ts)
  <2>. SUFFICES ASSUME NEW i \in DOMAIN cs PROVE CallTyped(ds[i], ts)
    OBVIOUS
  <2>1. CASE i = n
    BY <1>2, <1>3, <1>4, <2>1 DEF CallTyped
  <2>2. CASE i # n
    <3>1. cs[i].renderer # m /\ CallTyped(cs[i], rs) /\ ds[i] = cs[i]
      BY <1>1, <1>2, <1>3, <2>2 DEF CallsTyped
    <3>. HIDE DEF m
    <3>. QED
      BY <1>4, <3>1 DEF CallTyped
  <2>. QED
    BY <2>1, <2>2
<1>9. \A i \in DOMAIN cs : ds[i].previous = ThreadIDAt(ds, ts, i - 1)
  <2>1. \A i \in DOMAIN cs : i - 1 \in 0 .. n
    BY <1>1
  <2>. QED
    BY <1>5, <1>7, <2>1 DEF CallsTyped, GoesOn
<1>10. current = ThreadIDAt(ds, ts, Len(ds))
  BY <1>1, <1>3, <1>7 DEF CallsTyped
<1>11. \A r \in DOMAIN ts :
         ~ts[r].exhausted /\ (\A i \in DOMAIN ds : ds[i].renderer # r) => ts[r].depth = 0
  <2>. SUFFICES ASSUME NEW r \in DOMAIN ts, ~ts[r].exhausted,
                       \A i \in DOMAIN ds : ds[i].renderer # r
                PROVE  ts[r].depth = 0
    OBVIOUS
  <2>1. r # m
    BY <1>1, <1>3
  <2>2. ts[r] = rs[r] /\ \A i \in DOMAIN cs : cs[i].renderer # r
    BY <1>3, <1>4, <1>5, <2>1 DEF GoesOn
  <2>. QED
    BY <1>4, <2>2 DEF CallsTyped
<1>12. CallsTyped(ds, ts, current)
  BY <1>3, <1>4, <1>5, <1>8, <1>9, <1>10, <1>11 DEF CallsTyped, GoesOn
<1>. QED
  BY <1>12 DEF ds, ts

\* A renderer is made.
LEMMA RendererAdded ==
  ASSUME NEW cs, NEW rs, NEW current, CallsTyped(cs, rs, current), NEW x, x.depth = 0
  PROVE  CallsTyped(cs, Append(rs, x), current)
<1>. DEFINE ts == Append(rs, x)
            n  == Len(rs) + 1
<1>1. /\ IsSeq(ts) /\ DOMAIN ts = DOMAIN rs \cup {n} /\ ts[n] = x
      /\ \A r \in DOMAIN rs : ts[r] = rs[r]
  BY AppendIsSeq DEF CallsTyped
<1>2. IsSeq(cs) /\ Len(cs) \in Nat /\ DOMAIN cs = 1 .. Len(cs)
  BY DEF CallsTyped, IsSeq
<1>. HIDE DEF ts, n
<1>3. \A i \in DOMAIN cs : CallTyped(cs[i], ts)
  BY <1>1 DEF CallsTyped, CallTyped
<1>4. \A i \in 0 .. Len(cs) : ThreadIDAt(cs, ts, i) = ThreadIDAt(cs, rs, i)
  <2>1. \A i \in 0 .. Len(cs) : i # 0 => i \in DOMAIN cs /\ cs[i].renderer \in DOMAIN rs
    BY <1>2 DEF CallsTyped, CallTyped
  <2>. QED
    BY <1>1, <2>1 DEF ThreadIDAt
<1>5. /\ \A i \in DOMAIN cs : i - 1 \in 0 .. Len(cs)
      /\ Len(cs) \in 0 .. Len(cs)
  BY <1>2
<1>6. CallsTyped(cs, ts, current)
  BY <1>1, <1>3, <1>4, <1>5 DEF CallsTyped
<1>. QED
  BY <1>6 DEF ts

\* A renderer outside of all boundaries is read.
LEMMA ReadAdded ==
  ASSUME NEW cs, NEW rs, NEW current, CallsTyped(cs, rs, current),
         NEW r \in DOMAIN rs, \A i \in DOMAIN cs : cs[i].renderer # r, rs[r].depth = 0,
         NEW call, CallFields \subseteq DOMAIN call, call.renderer = r, call.out = <<<<>>>>,
         call.previous = current,
         cs # <<>> => Shape[call.nested].kid \in Element \cup {None}
  PROVE  CallsTyped(Append(cs, call), rs, rs[r].threadID)
<1>. DEFINE ds == Append(cs, call)
            n  == Len(cs) + 1
<1>1. /\ IsSeq(ds) /\ DOMAIN ds = DOMAIN cs \cup {n} /\ ds[n] = call
      /\ Len(ds) = n /\ \A i \in DOMAIN cs : ds[i] = cs[i]
  BY AppendIsSeq DEF CallsTyped
<1>2. /\ IsSeq(cs) /\ IsSeq(rs) /\ Len(cs) \in Nat /\ DOMAIN cs = 1 .. Len(cs)
      /\ n \in Nat /\ n # 0 /\ n - 1 = Len(cs)
      /\ n > 1 => cs # <<>>
  BY DEF CallsTyped, IsSeq
<1>3. IsSeq(<<<<>>>>) /\ Len(<<<<>>>>) = 1
  <2>1. <<<<>>>> \in Seq({<<>>})
    OBVIOUS
  <2>. QED
    BY <2>1 DEF IsSeq
<1>4. CallTyped(call, rs)
  BY <1>3 DEF CallTyped
<1>5. \A i \in 0 .. Len(cs) : ThreadIDAt(ds, rs, i) = ThreadIDAt(cs, rs, i)
  <2>1. \A i \in 0 .. Len(cs) : i # 0 => i \in DOMAIN cs
    BY <1>2
  <2>. HIDE DEF ds
  <2>. QED
    BY <1>1, <2>1 DEF ThreadIDAt
<1>6. \A i \in DOMAIN cs : i - 1 \in 0 .. Len(cs)
  BY <1>2
<1>7. call.previous = ThreadIDAt(ds, rs, n - 1)
  BY <1>2, <1>5 DEF CallsTyped
<1>8. ThreadIDAt(ds, rs, n) = rs[r].threadID
  BY <1>1, <1>2 DEF ThreadIDAt
<1>. HIDE DEF ds, n
<1>9. \A i \in DOMAIN ds :
        /\ CallTyped(ds[i], rs)
        /\ ds[i].previous = ThreadIDAt(ds, rs, i - 1)
        /\ i > 1 => Shape[ds[i].nested].kid \in Element \cup {None}
  BY <1>1, <1>2, <1>4, <1>5, <1>6, <1>7 DEF CallsTyped
<1>10. CallsTyped(ds, rs, rs[r].threadID)
  BY <1>1, <1>2, <1>8, <1>9 DEF CallsTyped
<1>. QED
  BY <1>10 DEF ds

\* A read is left, by a renderer that has ended or is outside of all boundaries.
LEMMA ReadLeft ==
  ASSUME NEW cs, NEW rs, NEW current, CallsTyped(cs, rs, current), cs # <<>>,
         NEW ts, IsSeq(ts), DOMAIN ts = DOMAIN rs,
         \A r \in DOMAIN rs : /\ ts[r].depth = rs[r].depth /\ ts[r].threadID = rs[r].threadID
                              /\ rs[r].exhausted => ts[r].exhausted,
         LET r == cs[Len(cs)].renderer IN ts[r].exhausted \/ ts[r].depth = 0
  PROVE  CallsTyped(Front(cs), ts, cs[Len(cs)].previous)
<1>. DEFINE ds == Front(cs)
            n  == Len(cs)
<1>1. /\ n \in Nat /\ n >= 1 /\ DOMAIN cs = 1 .. n /\ IsSeq(ds)
      /\ Len(ds) = n - 1 /\ DOMAIN ds = 1 .. n - 1 /\ \A i \in 1 .. n - 1 : ds[i] = cs[i]
  BY FrontIsSeq DEF CallsTyped
<1>. HIDE DEF ds, n
<1>2. DOMAIN ds = DOMAIN cs \ {n} /\ \A i \in DOMAIN ds : ds[i] = cs[i]
  BY <1>1
<1>3. \A i \in DOMAIN ds : CallTyped(ds[i], ts)
  BY <1>2 DEF CallsTyped, CallTyped
<1>4. \A i \in 0 .. n - 1 : ThreadIDAt(ds, ts, i) = ThreadIDAt(cs, rs, i)
  <2>1. \A i \in 0 .. n - 1 : i # 0 => i \in DOMAIN ds
    BY <1>1
  <2>2. \A i \in DOMAIN ds : cs[i].renderer \in DOMAIN rs
    BY <1>2 DEF CallsTyped, CallTyped
  <2>. QED
    BY <1>2, <2>1, <2>2 DEF ThreadIDAt
<1>5. /\ \A i \in DOMAIN ds : i - 1 \in 0 .. n - 1
      /\ n \in DOMAIN cs /\ n - 1 \in 0 .. n - 1
  BY <1>1
<1>6. cs[n].previous = ThreadIDAt(ds, ts, Len(ds))
  BY <1>1, <1>4, <1>5 DEF CallsTyped
<1>7. \A i \in DOMAIN ds : ds[i].previous = ThreadIDAt(ds, ts, i - 1)
  BY <1>2, <1>4, <1>5 DEF CallsTyped
<1>8. \A r \in DOMAIN ts :
        ~ts[r].exhausted /\ (\A i \in DOMAIN ds : ds[i].renderer # r) => ts[r].depth = 0
  <2>. SUFFICES ASSUME NEW r \in DOMAIN ts, ~ts[r].exhausted,
                       \A i \in DOMAIN ds : ds[i].renderer # r
                PROVE  ts[r].depth = 0
    OBVIOUS
  <2>1. CASE r = cs[n].renderer
    BY <2>1 DEF n
  <2>2. CASE r # cs[n].renderer
    <3>1. \A i \in DOMAIN cs : cs[i].renderer # r
      BY <1>2, <2>2
    <3>. QED
      BY <3>1 DEF CallsTyped
  <2>. QED
    BY <2>1, <2>2
<1>9. CallsTyped(ds, ts, cs[n].previous)
  BY <1>1, <1>2, <1>3, <1>6, <1>7, <1>8 DEF CallsTyped
<1>. QED
  BY <1>9 DEF ds, n
-----------------------------------------------------------------------------
RenderersTyped(rs, slots, ids) ==
  \A r \in DOMAIN rs : Shaped(rs[r]) /\ Remembers(rs[r], slots) /\ rs[r].threadID \in ids

Statuses == {"absent", "new", "active", "done", "failed", "destroyed"}

StatusesOK ==
  \A q \in Request : "status" \in DOMAIN requests[q] /\ requests[q].status \in Statuses

TypeInv ==
  /\ ValuesOK(slot) /\ RenderersTyped(renderers, slot, IDs(freeList))
  /\ CallsTyped(calls, renderers, currentThreadID) /\ StatusesOK

\* More slots and more IDs.
LEMMA RenderersTypedMore ==
  ASSUME NEW rs, NEW before, NEW ids, RenderersTyped(rs, before, ids),
         NEW after, ValuesOK(before), ValuesOK(after), Grows(before, after),
         NEW more, ids \subseteq more
  PROVE  RenderersTyped(rs, after, more)
BY RemembersMore DEF RenderersTyped

\* One renderer changes.
LEMMA RendererTyped ==
  ASSUME NEW rs, NEW slots, NEW ids, RenderersTyped(rs, slots, ids), IsSeq(rs),
         NEW n \in DOMAIN rs, NEW x, Shaped(x), Remembers(x, slots), x.threadID \in ids
  PROVE  RenderersTyped([rs EXCEPT ![n] = x], slots, ids)
<1>. DEFINE ts == [rs EXCEPT ![n] = x]
<1>1. DOMAIN ts = DOMAIN rs /\ ts[n] = x /\ \A i \in DOMAIN rs \ {n} : ts[i] = rs[i]
  BY ExceptIsSeq
<1>. HIDE DEF ts
<1>2. RenderersTyped(ts, slots, ids)
  BY <1>1 DEF RenderersTyped
<1>. QED
  BY <1>2 DEF ts

\* A renderer is made.
LEMMA RendererTypedAdded ==
  ASSUME NEW rs, NEW slots, NEW ids, RenderersTyped(rs, slots, ids), IsSeq(rs),
         NEW x, Shaped(x), Remembers(x, slots), x.threadID \in ids
  PROVE  RenderersTyped(Append(rs, x), slots, ids)
<1>. DEFINE ts == Append(rs, x)
<1>1. /\ DOMAIN ts = DOMAIN rs \cup {Len(rs) + 1} /\ ts[Len(rs) + 1] = x
      /\ \A i \in DOMAIN rs : ts[i] = rs[i]
  BY AppendIsSeq
<1>. HIDE DEF ts
<1>2. RenderersTyped(ts, slots, ids)
  BY <1>1 DEF RenderersTyped
<1>. QED
  BY <1>2 DEF ts

\* What a renderer remembers of providers has nothing to do with its frames, ...
LEMMA StackRemembers ==
  ASSUME NEW x, NEW slots, Remembers(x, slots), NEW s
  PROVE  LET y == [x EXCEPT !.stack = s]
         IN  Remembers(y, slots) /\ y.threadID = x.threadID
BY DEF Remembers, Fields

\* ... nor with its end.
LEMMA EndRemembers ==
  ASSUME NEW x, NEW slots, Remembers(x, slots), Shaped(x)
  PROVE  LET y == [x EXCEPT !.exhausted = TRUE]
         IN  /\ Remembers(y, slots) /\ y.threadID = x.threadID
             /\ Shaped(y) /\ y.depth = x.depth /\ y.exhausted
<1>. DEFINE y == [x EXCEPT !.exhausted = TRUE]
<1>1. Remembers(y, slots) /\ y.threadID = x.threadID /\ y.exhausted
  BY DEF Remembers, Fields
<1>2. {"stack", "depth"} \subseteq DOMAIN y /\ y.stack = x.stack /\ y.depth = x.depth
  BY DEF Shaped
<1>. HIDE DEF y
<1>3. Shaped(y)
  BY <1>2, ShapedByFrames
<1>. QED
  BY <1>1, <1>2, <1>3 DEF y

\* out[depth] += markup, where `out' has one buffer for each boundary outside of
\* this one.
LEMMA WrittenOut ==
  ASSUME NEW c, CallFields \subseteq DOMAIN c, IsSeq(c.out), NEW depth \in Nat,
         Len(c.out) \in {depth, depth + 1}, NEW markup
  PROVE  LET d == Written(c, depth, markup)
         IN  /\ GoesOn(c, d) /\ IsSeq(d.out) /\ Len(d.out) = depth + 1
             /\ depth > 0 => d.out[1] = c.out[1]
<1>. DEFINE out == IF Len(c.out) <= depth THEN Append(c.out, <<>>) ELSE c.out
            new == out[depth + 1] \o markup
            o   == [out EXCEPT ![Len(out)] = new]
            d   == [c EXCEPT !.out = o]
<1>1. IsSeq(out) /\ Len(out) = depth + 1 /\ (depth > 0 => out[1] = c.out[1])
  <2>1. CASE Len(c.out) = depth
    <3>1. out = Append(c.out, <<>>)
      BY <2>1
    <3>2. /\ IsSeq(Append(c.out, <<>>)) /\ Len(Append(c.out, <<>>)) = depth + 1
          /\ \A i \in DOMAIN c.out : Append(c.out, <<>>)[i] = c.out[i]
      BY <2>1, AppendIsSeq
    <3>3. depth > 0 => 1 \in DOMAIN c.out
      BY <2>1 DEF IsSeq
    <3>. QED
      BY <3>1, <3>2, <3>3
  <2>2. CASE Len(c.out) = depth + 1
    BY <2>2
  <2>. QED
    BY <2>1, <2>2
<1>. HIDE DEF out
<1>. HIDE DEF new
<1>2. IsSeq(out) /\ out # <<>>
  BY <1>1
<1>3. /\ IsSeq(o) /\ Len(o) = Len(out)
      /\ \A i \in DOMAIN out \ {Len(out)} : o[i] = out[i]
  BY <1>2, LastSet
<1>4. depth > 0 => 1 \in DOMAIN out \ {Len(out)}
  BY <1>1 DEF IsSeq
<1>. HIDE DEF o
<1>5. GoesOn(c, d) /\ d.out = o
  BY DEF GoesOn, CallFields
<1>6. o = [out EXCEPT ![depth + 1] = new]
  BY <1>1 DEF o
<1>7. Written(c, depth, markup) = d
  BY <1>6 DEF Written, new, out
<1>. HIDE DEF d
<1>. QED
  BY <1>1, <1>3, <1>4, <1>5, <1>7
-----------------------------------------------------------------------------
\* What the steps of the loop start from.
LEMMA LoopFacts ==
  ASSUME SyncInv, TypeInv, InLoop
  PROVE  /\ calls # <<>> /\ Len(calls) \in DOMAIN calls /\ Call = calls[Len(calls)]
         /\ Call.renderer \in DOMAIN renderers /\ Me = renderers[Call.renderer]
         /\ StackOK(Me) /\ Shaped(Me) /\ Remembers(Me, slot) /\ Me.threadID \in IDs(freeList)
         /\ CallFields \subseteq DOMAIN Call /\ IsSeq(Call.out)
         /\ Len(Call.out) = Me.depth + 1 /\ Me.depth \in Nat
         /\ ~(Call.bounded /\ Len(Call.out[1]) >= Chunk)
         /\ currentThreadID = Me.threadID /\ currentThreadID \in Nat
<1>1. calls # <<>> /\ ~Me.exhausted /\ ~(Call.bounded /\ Len(Call.out[1]) >= Chunk)
  BY DEF InLoop, Full
<1>2. /\ Len(calls) \in DOMAIN calls /\ Call = calls[Len(calls)]
      /\ Call.renderer \in DOMAIN renderers /\ Me = renderers[Call.renderer]
  BY <1>1, CallIsCall DEF SyncInv, IsCall
<1>3. StackOK(Me)
  BY <1>1, MeOK
<1>4. Shaped(Me) /\ Remembers(Me, slot) /\ Me.threadID \in IDs(freeList)
  BY <1>2 DEF TypeInv, RenderersTyped
<1>5. CallTyped(Call, renderers)
  BY <1>2 DEF TypeInv, CallsTyped
<1>6. Me.depth \in Nat
  BY <1>4, BoundariesFinite DEF Shaped
<1>7. currentThreadID = Me.threadID
  <2>1. IsSeq(calls) /\ currentThreadID = ThreadIDAt(calls, renderers, Len(calls))
    BY DEF TypeInv, CallsTyped
  <2>2. Len(calls) >= 1 /\ Len(calls) \in Nat
    BY <1>1, <2>1, FrontIsSeq
  <2>. QED
    BY <1>2, <2>1, <2>2 DEF ThreadIDAt
<1>. QED
  BY <1>1, <1>2, <1>3, <1>4, <1>5, <1>6, <1>7 DEF CallTyped, SyncInv, IDsInv

OutOK(call, x) ==
  /\ IsSeq(call.out) /\ Len(call.out) = x.depth + 1
  /\ call.bounded /\ Len(call.out[1]) >= Chunk => x.depth = 0

\* A step of the loop.
LEMMA LoopTyped ==
  ASSUME SyncInv, TypeInv, InLoop, NEW y, NEW call, Become(y, call),
         GoesOn(Call, call), OutOK(call, y), Shaped(y), Remembers(y, slot'),
         y.threadID = Me.threadID, ValuesOK(slot'), Grows(slot, slot'),
         IDs(freeList) \subseteq IDs(freeList'), UNCHANGED <<currentThreadID, requests>>
  PROVE  TypeInv'
<1>. DEFINE after == slot'
            ids   == IDs(freeList')
<1>1. /\ calls # <<>> /\ Call = calls[Len(calls)] /\ Call.renderer \in DOMAIN renderers
      /\ Me = renderers[Call.renderer] /\ call.renderer = Call.renderer
      /\ Me.threadID \in IDs(freeList)
  BY LoopFacts DEF GoesOn
<1>2. /\ renderers' = [renderers EXCEPT ![Call.renderer] = y]
      /\ calls' = [calls EXCEPT ![Len(calls)] = call]
  BY DEF Become
<1>3. ValuesOK(slot) /\ RenderersTyped(renderers, slot, IDs(freeList)) /\ IsSeq(renderers)
      /\ CallsTyped(calls, renderers, currentThreadID) /\ StatusesOK
  BY DEF TypeInv, CallsTyped
<1>4. RenderersTyped([renderers EXCEPT ![Call.renderer] = y], after, ids)
  <2>1. /\ Remembers(y, after) /\ ValuesOK(after) /\ Grows(slot, after)
        /\ IDs(freeList) \subseteq ids
    OBVIOUS
  <2>. HIDE DEF after, ids
  <2>2. RenderersTyped(renderers, after, ids) /\ y.threadID \in ids
    BY <1>1, <1>3, <2>1, RenderersTypedMore
  <2>. QED
    BY <1>1, <1>3, <2>1, <2>2, RendererTyped
<1>5. CallsTyped([calls EXCEPT ![Len(calls)] = call],
                 [renderers EXCEPT ![call.renderer] = y], currentThreadID)
  BY <1>1, <1>3, CallGoesOn DEF OutOK
<1>6. StatusesOK'
  BY <1>3 DEF StatusesOK
<1>. QED
  BY <1>1, <1>2, <1>4, <1>5, <1>6 DEF TypeInv

\* The same without new slots or IDs.
LEMMA PlainLoopTyped ==
  ASSUME SyncInv, TypeInv, InLoop, NEW y, NEW call, Become(y, call),
         GoesOn(Call, call), OutOK(call, y), Shaped(y), Remembers(y, slot),
         y.threadID = Me.threadID, UNCHANGED <<freeList, slot, currentThreadID, requests>>
  PROVE  TypeInv'
<1>1. ValuesOK(slot)
  BY DEF TypeInv
<1>2. Grows(slot, slot)
  BY <1>1 DEF Grows, ValuesOK
<1>. QED
  BY <1>1, <1>2, LoopTyped

\* Taking the next child.
LEMMA NextShaped ==
  ASSUME SyncInv, TypeInv, AtChild
  PROVE  /\ Shaped(Next1) /\ Remembers(Next1, slot) /\ Next1.threadID = Me.threadID
         /\ Next1.depth = Me.depth /\ Child \in Element /\ InLoop
         /\ Me.stack # <<>> /\ Next1.stack # <<>>
<1>1. InLoop /\ Me.stack # <<>> /\ Top.rest # <<>>
  BY DEF AtChild
<1>2. Shaped(Me) /\ Remembers(Me, slot)
  BY <1>1, LoopFacts
<1>3. Len(Me.stack) \in DOMAIN Me.stack /\ Top = Me.stack[Len(Me.stack)]
  BY <1>1, <1>2, FrontIsSeq DEF Shaped, Top
<1>4. Top.rest \in Seq(Element)
  BY <1>2, <1>3 DEF Shaped, IsFrame
<1>5. Child \in Element /\ Tail(Top.rest) \in Seq(Element)
  BY <1>1, <1>4 DEF Child
<1>. DEFINE f == [Me.stack[Len(Me.stack)] EXCEPT !.rest = Tail(Top.rest)]
            s == [Me.stack EXCEPT ![Len(Me.stack)] = f]
<1>6. Next1 = [Me EXCEPT !.stack = s]
  BY <1>3 DEF Next1
<1>7. Shaped([Me EXCEPT !.stack = s]) /\ [Me EXCEPT !.stack = s].depth = Me.depth
  BY <1>2, <1>5, RestShaped
<1>8. Next1.stack # <<>>
  <2>1. IsSeq(Me.stack)
    BY <1>2 DEF Shaped
  <2>. HIDE DEF f
  <2>2. IsSeq(s) /\ Len(s) = Len(Me.stack)
    BY <1>3, <2>1, ExceptIsSeq
  <2>3. Len(Me.stack) >= 1
    BY <1>1, <2>1, FrontIsSeq
  <2>. HIDE DEF s
  <2>4. Next1.stack = s
    BY <1>2, <1>6 DEF Shaped
  <2>. QED
    BY <2>2, <2>3, <2>4
<1>. HIDE DEF s
<1>9. Remembers(Next1, slot) /\ Next1.threadID = Me.threadID
  BY <1>2, <1>6, StackRemembers
<1>. QED
  BY <1>1, <1>5, <1>6, <1>7, <1>8, <1>9
-----------------------------------------------------------------------------
\* What is rendered is an element of the tree.
LEMMA TargetIsElement ==
  ASSUME SyncInv, TypeInv, NEW kinds, AtElement(kinds)
  PROVE  AtChild /\ Target.of \in Element /\ Kind(Target.of) \in kinds
<1>1. AtChild /\ Resolved(Child).is = "element" /\ Target = Resolved(Child)
      /\ Kind(Target.of) \in kinds
  BY DEF AtElement, Target
<1>. QED
  BY <1>1, NextShaped, ResolvedIsElement

\* A child is rendered: its markup goes to the buffer of the boundary it is in.
LEMMA EmitTyped ==
  ASSUME SyncInv, TypeInv, AtChild, NEW result, Emit(result), OneFrame(Next1, result.renderer),
         Remembers(result.renderer, slot'), result.renderer.threadID = Me.threadID,
         ValuesOK(slot'), Grows(slot, slot'), UNCHANGED <<freeList, currentThreadID, requests>>
  PROVE  TypeInv'
<1>. DEFINE y == result.renderer
            d == Written(Call, y.depth, result.markup)
<1>1. InLoop /\ Next1.depth = Me.depth /\ Shaped(y)
  BY NextShaped DEF OneFrame
<1>2. /\ CallFields \subseteq DOMAIN Call /\ IsSeq(Call.out)
      /\ Len(Call.out) = Me.depth + 1 /\ Me.depth \in Nat
      /\ ~(Call.bounded /\ Len(Call.out[1]) >= Chunk)
  BY <1>1, LoopFacts
<1>3. y.depth \in {Me.depth, Me.depth + 1}
  BY <1>1 DEF OneFrame
<1>4. y.depth \in Nat /\ Len(Call.out) \in {y.depth, y.depth + 1}
  BY <1>2, <1>3
<1>5. /\ GoesOn(Call, d) /\ IsSeq(d.out) /\ Len(d.out) = y.depth + 1
      /\ y.depth > 0 => d.out[1] = Call.out[1]
  <2>. HIDE DEF y
  <2>. QED
    BY <1>2, <1>4, WrittenOut
<1>6. Become(y, d)
  BY DEF Emit
<1>. HIDE DEF d, y
<1>7. OutOK(d, y)
  BY <1>2, <1>4, <1>5 DEF OutOK, GoesOn
<1>8. /\ Remembers(y, slot') /\ y.threadID = Me.threadID
      /\ IDs(freeList) \subseteq IDs(freeList')
  BY DEF y
<1>. QED
  BY <1>1, <1>5, <1>6, <1>7, <1>8, LoopTyped

\* The same when no context is concerned.
LEMMA PlainEmitTyped ==
  ASSUME SyncInv, TypeInv, AtChild, NEW result, Emit(result), OneFrame(Next1, result.renderer),
         \E y, markup : result = Result(y, markup) /\ SameProviders(Next1, y),
         UNCHANGED <<freeList, slot, currentThreadID, requests>>
  PROVE  TypeInv'
<1>1. PICK y, markup : result = Result(y, markup) /\ SameProviders(Next1, y)
  OBVIOUS
<1>2. result.renderer = y
  BY <1>1 DEF Result
<1>3. Remembers(y, slot) /\ y.threadID = Me.threadID
  BY <1>1, NextShaped, RemembersSame
<1>4. ValuesOK(slot) /\ Grows(slot, slot)
  BY DEF TypeInv, ValuesOK, Grows
<1>. QED
  BY <1>2, <1>3, <1>4, EmitTyped

\* A context is read.
LEMMA ConsumerTyped ==
  ASSUME SyncInv, TypeInv, RenderConsumer
  PROVE  TypeInv'
<1>. DEFINE e  == Target.of
            c  == Shape[e].context
            id == IF Kind(e) = "consumer" THEN Me.threadID ELSE currentThreadID
            result == ContextRendered(Next1, e, id)
<1>1. /\ AtElement({"consumer", "reader"}) /\ Emit(result)
      /\ slot' = [slot EXCEPT ![c] = Bounded(c, id)]
      /\ UNCHANGED <<freeList, currentThreadID, requests>>
  BY DEF RenderConsumer
<1>2. AtChild /\ e \in Element /\ Kind(e) \in {"consumer", "reader"}
  BY <1>1, TargetIsElement
<1>3. c \in Context
  BY <1>2, MarkupAssumption
<1>4. id \in Nat
  BY <1>2, NextShaped, LoopFacts DEF Remembers
<1>5. ValuesOK(slot) /\ slot[c] \in Seq(Element)
  BY <1>3 DEF TypeInv, ValuesOK
<1>. HIDE DEF id
<1>6. /\ Bounded(c, id) \in Seq(Element) /\ Len(Bounded(c, id)) >= Len(slot[c])
      /\ ValueOf(c, id) \in Element
  BY <1>3, <1>4, <1>5, BoundedValues
<1>7. ValuesOK(slot') /\ Grows(slot, slot')
  <2>. DEFINE after == slot'
              b == Bounded(c, id)
  <2>1. after = [slot EXCEPT ![c] = b]
    BY <1>1
  <2>2. b \in Seq(Element) /\ Len(b) >= Len(slot[c]) /\ c \in Context /\ ValuesOK(slot)
    BY <1>3, <1>5, <1>6
  <2>. HIDE DEF after, b, c
  <2>3. ValuesOK(after) /\ Grows(slot, after)
    BY <2>1, <2>2, ValuesSet
  <2>. QED
    BY <2>3 DEF after
<1>8. /\ Shaped(Next1) /\ StackOK(Next1) /\ Remembers(Next1, slot)
      /\ Next1.threadID = Me.threadID
  BY <1>2, NextShaped, AtChildOK
<1>9. OneFrame(Next1, result.renderer)
  BY <1>6, <1>8, ContextShaped
<1>10. Remembers(result.renderer, slot') /\ result.renderer.threadID = Me.threadID
  <2>1. PICK y, markup : result = Result(y, markup) /\ SameProviders(Next1, y)
    BY <1>8, ContextSame
  <2>2. result.renderer = y
    BY <2>1 DEF Result
  <2>3. Remembers(y, slot) /\ y.threadID = Me.threadID
    BY <1>8, <2>1, RemembersSame
  <2>. QED
    BY <1>5, <1>7, <2>2, <2>3, RemembersMore
<1>. HIDE DEF result
<1>. QED
  BY <1>1, <1>2, <1>7, <1>9, <1>10, EmitTyped

\* A provider is entered.
LEMMA ProviderTyped ==
  ASSUME SyncInv, TypeInv, RenderProvider
  PROVE  TypeInv'
<1>. DEFINE e == Target.of
            c == Shape[e].context
            v == Shape[e].value
            f == Frame("provider", Shape[e].kids, <<>>)
            y == ProviderPushed(PushFrame(Next1, f), c)
            result == ProviderRendered(Next1, e)
            after == SlotProvided(Next1, c, v)
<1>1. /\ AtElement({"provider"}) /\ Emit(result)
      /\ slot' = SlotProvided(Me, c, v)
      /\ UNCHANGED <<freeList, currentThreadID, requests>>
  BY DEF RenderProvider
<1>2. AtChild /\ e \in Element /\ Kind(e) = "provider"
  BY <1>1, TargetIsElement
<1>3. c \in Context /\ v \in Element /\ Shape[e].kids \in Seq(Element)
  BY <1>2, MarkupAssumption
<1>4. /\ Shaped(Next1) /\ Remembers(Next1, slot) /\ Next1.threadID = Me.threadID
      /\ ValuesOK(slot)
  BY <1>2, NextShaped DEF TypeInv
<1>5. slot' = after
  BY <1>1, <1>4 DEF SlotProvided
<1>6. /\ ValuesOK(after) /\ Grows(slot, after) /\ Remembers(y, after)
      /\ y.threadID = Next1.threadID /\ DOMAIN y = DOMAIN Next1 /\ y.depth = Next1.depth
      /\ y.stack = Append(Next1.stack, f)
  <2>. HIDE DEF c, v
  <2>. QED
    BY <1>3, <1>4, ProviderRemembers
<1>7. IsFrame(f) /\ f.kind = "provider"
  BY <1>3, FrameIsFrame
<1>8. result.renderer = y
  BY DEF ProviderRendered, Result
<1>. HIDE DEF y, after, f, result, c, v
<1>9. OneFrame(Next1, y)
  BY <1>4, <1>6, <1>7, PlainFrame DEF Shaped
<1>. QED
  BY <1>1, <1>2, <1>4, <1>5, <1>6, <1>8, <1>9, EmitTyped

\* Each way to render a child.
LEMMA RenderTyped ==
  ASSUME SyncInv, TypeInv,
         RenderText \/ RenderNothing \/ RenderHost \/ RenderFragment \/ RenderConsumer
         \/ RenderProvider \/ RenderSuspense
  PROVE  TypeInv'
<1>1. AtChild
  BY DEF RenderText, RenderNothing, RenderHost, RenderFragment, RenderConsumer,
         RenderProvider, RenderSuspense, AtElement
<1>2. StackOK(Next1) /\ SameProviders(Next1, Next1) /\ Shaped(Next1)
  BY <1>1, AtChildOK, NextShaped DEF SameProviders, StackOK
<1>3. CASE RenderText
  <2>. DEFINE result == TextRendered(Next1, Child)
  <2>1. Emit(result) /\ UNCHANGED <<freeList, slot, currentThreadID, requests>>
    BY <1>3 DEF RenderText
  <2>2. /\ OneFrame(Next1, result.renderer)
        /\ \E y, markup : result = Result(y, markup) /\ SameProviders(Next1, y)
    BY <1>2, TextShaped, TextSame
  <2>. HIDE DEF result
  <2>. QED
    BY <1>1, <2>1, <2>2, PlainEmitTyped
<1>4. CASE RenderNothing
  <2>. DEFINE result == Result(Next1, <<>>)
  <2>1. Emit(result) /\ UNCHANGED <<freeList, slot, currentThreadID, requests>>
    BY <1>4 DEF RenderNothing
  <2>2. result.renderer = Next1
    BY DEF Result
  <2>3. OneFrame(Next1, result.renderer)
    BY <1>2, <2>2, BoundariesFinite DEF OneFrame, Shaped
  <2>4. \E y, markup : result = Result(y, markup) /\ SameProviders(Next1, y)
    BY <1>2
  <2>. HIDE DEF result
  <2>. QED
    BY <1>1, <2>1, <2>3, <2>4, PlainEmitTyped
<1>5. CASE RenderHost
  <2>. DEFINE result == HostRendered(Next1, Target.of, Len(Me.stack) = 1 /\ ~Me.static)
  <2>1. /\ Emit(result) /\ UNCHANGED <<freeList, slot, currentThreadID, requests>>
        /\ AtElement({"host", "select", "option"})
    BY <1>5 DEF RenderHost
  <2>2. Target.of \in Element /\ Kind(Target.of) \in {"host", "select", "option"}
    BY <2>1, TargetIsElement
  <2>3. /\ OneFrame(Next1, result.renderer)
        /\ \E y, markup : result = Result(y, markup) /\ SameProviders(Next1, y)
    BY <1>2, <2>2, HostShaped, HostSame
  <2>. HIDE DEF result
  <2>. QED
    BY <1>1, <2>1, <2>3, PlainEmitTyped
<1>6. CASE RenderFragment
  <2>. DEFINE result == FragmentRendered(Next1, Target.of)
  <2>1. /\ Emit(result) /\ UNCHANGED <<freeList, slot, currentThreadID, requests>>
        /\ AtElement({"fragment", "text"})
    BY <1>6 DEF RenderFragment
  <2>2. Target.of \in Element /\ Kind(Target.of) \in {"fragment", "text"}
    BY <2>1, TargetIsElement
  <2>3. /\ OneFrame(Next1, result.renderer)
        /\ \E y, markup : result = Result(y, markup) /\ SameProviders(Next1, y)
    BY <1>2, <2>2, FragmentShaped, FragmentSame
  <2>. HIDE DEF result
  <2>. QED
    BY <1>1, <2>1, <2>3, PlainEmitTyped
<1>7. CASE RenderConsumer
  BY <1>7, ConsumerTyped
<1>8. CASE RenderProvider
  BY <1>8, ProviderTyped
<1>9. CASE RenderSuspense
  <2>. DEFINE result == SuspenseRendered(Next1, Target.of)
  <2>1. /\ Emit(result) /\ UNCHANGED <<freeList, slot, currentThreadID, requests>>
        /\ AtElement({"suspense"})
    BY <1>9 DEF RenderSuspense
  <2>2. Target.of \in Element /\ Kind(Target.of) = "suspense"
    BY <2>1, TargetIsElement
  <2>3. /\ OneFrame(Next1, result.renderer)
        /\ \E y, markup : result = Result(y, markup) /\ SameProviders(Next1, y)
    BY <1>2, <2>2, SuspenseShaped, SuspenseSame
  <2>. HIDE DEF result
  <2>. QED
    BY <1>1, <2>1, <2>3, PlainEmitTyped
<1>. QED
  BY <1>3, <1>4, <1>5, <1>6, <1>7, <1>8, <1>9
-----------------------------------------------------------------------------
\* Writing into the buffer of the boundary a renderer is in, with one buffer for each
\* boundary around it.
LEMMA WrittenTyped ==
  ASSUME NEW c, CallFields \subseteq DOMAIN c, IsSeq(c.out), NEW x, x.depth \in Nat,
         Len(c.out) \in {x.depth, x.depth + 1}, NEW markup,
         x.depth > 0 => ~(c.bounded /\ Len(c.out[1]) >= Chunk)
  PROVE  LET d == Written(c, x.depth, markup) IN GoesOn(c, d) /\ OutOK(d, x)
<1>. DEFINE d == Written(c, x.depth, markup)
<1>1. /\ GoesOn(c, d) /\ IsSeq(d.out) /\ Len(d.out) = x.depth + 1
      /\ x.depth > 0 => d.out[1] = c.out[1]
  BY WrittenOut
<1>. HIDE DEF d
<1>2. OutOK(d, x)
  BY <1>1 DEF OutOK, GoesOn
<1>. QED
  BY <1>1, <1>2 DEF d

\* Whether the read has suspended or failed does not concern its buffers.
LEMMA FlagsTyped ==
  ASSUME NEW c, NEW d, GoesOn(c, d), NEW x, OutOK(d, x), NEW b
  PROVE  /\ GoesOn(c, [d EXCEPT !.suspended = b]) /\ OutOK([d EXCEPT !.suspended = b], x)
         /\ GoesOn(c, [d EXCEPT !.failed = b]) /\ OutOK([d EXCEPT !.failed = b], x)
BY DEF GoesOn, OutOK, CallFields

\* What a component that called renderToString returns are elements.
LEMMA ReturnedTyped ==
  ASSUME NEW x, Shaped(x), NEW slots, Remembers(x, slots),
         NEW e, Shape[e].kid \in Element \cup {None}
  PROVE  LET y == Returned(x, e)
         IN  /\ Shaped(y) /\ Remembers(y, slots)
             /\ y.depth = x.depth /\ y.threadID = x.threadID /\ y.exhausted = x.exhausted
<1>. DEFINE first == IF Shape[e].kid = None THEN <<>> ELSE <<Shape[e].kid>>
            n     == Len(x.stack)
            rest  == first \o x.stack[n].rest
            f     == [x.stack[n] EXCEPT !.rest = rest]
            s     == [x.stack EXCEPT ![n] = f]
            y     == [x EXCEPT !.stack = s]
<1>1. Returned(x, e) = y
  BY DEF Returned
<1>2. x.stack # <<>> => rest \in Seq(Element)
  <2>1. x.stack # <<>> => x.stack[n].rest \in Seq(Element)
    BY FrontIsSeq DEF Shaped, IsFrame
  <2>2. first \in Seq(Element)
    OBVIOUS
  <2>. HIDE DEF first
  <2>. QED
    BY <2>1, <2>2
<1>. HIDE DEF rest
<1>3. Shaped(y) /\ y.depth = x.depth
  BY <1>2, RestShaped
<1>. HIDE DEF s
<1>4. Remembers(y, slots) /\ y.threadID = x.threadID
  BY StackRemembers
<1>5. y.exhausted = x.exhausted
  BY DEF Remembers, Fields
<1>. QED
  BY <1>1, <1>3, <1>4, <1>5

\* A component suspends, throws, or is refused a nested renderer.
LEMMA InterruptTyped ==
  ASSUME SyncInv, TypeInv, Suspend \/ Throw \/ NestedRefused
  PROVE  TypeInv'
<1>1. AtChild /\ UNCHANGED <<freeList, slot, currentThreadID, requests>>
  BY DEF Suspend, Throw, NestedRefused, AtElement
<1>2. /\ Shaped(Next1) /\ Remembers(Next1, slot) /\ Next1.threadID = Me.threadID
      /\ Next1.depth = Me.depth /\ InLoop
  BY <1>1, NextShaped
<1>3. /\ CallFields \subseteq DOMAIN Call /\ IsSeq(Call.out)
      /\ Len(Call.out) = Me.depth + 1 /\ Me.depth \in Nat
      /\ ~(Call.bounded /\ Len(Call.out[1]) >= Chunk)
  BY <1>2, LoopFacts
<1>4. GoesOn(Call, Call) /\ OutOK(Call, Next1)
  BY <1>2, <1>3 DEF GoesOn, OutOK
<1>5. CASE Suspend
  <2>. DEFINE d == Written(Call, Next1.depth, <<>>)
              t == [d EXCEPT !.suspended = TRUE]
  <2>1. Become(Next1, t)
    BY <1>2, <1>5 DEF Suspend
  <2>. HIDE DEF d
  <2>2. GoesOn(Call, d) /\ OutOK(d, Next1)
    BY <1>2, <1>3, WrittenTyped DEF d
  <2>3. GoesOn(Call, t) /\ OutOK(t, Next1)
    BY <2>2, FlagsTyped
  <2>. HIDE DEF t
  <2>. QED
    BY <1>1, <1>2, <2>1, <2>3, PlainLoopTyped
<1>6. ASSUME Become(Next1, [Call EXCEPT !.failed = TRUE])
      PROVE  TypeInv'
  <2>. DEFINE t == [Call EXCEPT !.failed = TRUE]
  <2>1. GoesOn(Call, t) /\ OutOK(t, Next1) /\ Become(Next1, t)
    BY <1>4, <1>6, FlagsTyped
  <2>. HIDE DEF t
  <2>. QED
    BY <1>1, <1>2, <2>1, PlainLoopTyped
<1>7. CASE Throw
  BY <1>6, <1>7 DEF Throw
<1>8. CASE NestedRefused
  <2>. DEFINE y == Returned(Next1, Target.of)
  <2>1. AtElement({"nested"}) /\ (Become(y, Call) \/ Become(Next1, [Call EXCEPT !.failed = TRUE]))
    BY <1>8 DEF NestedRefused
  <2>2. CASE Become(y, Call)
    <3>1. Shape[Target.of].kid \in Element \cup {None}
      BY <2>1, TargetIsElement, MarkupAssumption
    <3>2. /\ Shaped(y) /\ Remembers(y, slot)
          /\ y.depth = Next1.depth /\ y.threadID = Next1.threadID
      BY <1>2, <3>1, ReturnedTyped
    <3>. HIDE DEF y
    <3>3. OutOK(Call, y)
      BY <1>4, <3>2 DEF OutOK
    <3>. QED
      BY <1>1, <1>2, <1>4, <2>2, <3>2, <3>3, PlainLoopTyped
  <2>. QED
    BY <1>6, <2>1, <2>2
<1>. QED
  BY <1>5, <1>7, <1>8
-----------------------------------------------------------------------------
\* A frame is left: what the renderer remembers of providers is the same.
LEMMA FrameLeftRemembers ==
  ASSUME NEW x, Shaped(x), NEW slots, Remembers(x, slots)
  PROVE  LET y == FrameLeft(x)
         IN  /\ Remembers(y, slots) /\ y.threadID = x.threadID
             /\ {"stack", "depth"} \subseteq DOMAIN y
             /\ y.stack = Front(x.stack) /\ y.depth = x.depth
BY DEF FrameLeft, Remembers, Fields, Shaped

\* What the steps that leave a frame start from.
LEMMA FrameEndFacts ==
  ASSUME SyncInv, TypeInv, NEW kinds, AtFrameEnd(kinds)
  PROVE  InLoop /\ Me.stack # <<>> /\ Top = Last(Me.stack) /\ Top.kind \in kinds /\ IsFrame(Top)
<1>1. InLoop /\ Me.stack # <<>> /\ Top = Last(Me.stack) /\ Top.kind \in kinds
  BY DEF AtFrameEnd, Top
<1>2. Shaped(Me)
  BY <1>1, LoopFacts
<1>3. Len(Me.stack) \in DOMAIN Me.stack /\ Last(Me.stack) = Me.stack[Len(Me.stack)]
  BY <1>1, <1>2, FrontIsSeq DEF Shaped
<1>. QED
  BY <1>1, <1>2, <1>3 DEF Shaped

\* A frame that is no boundary's is left.
LEMMA FinishFrameTyped ==
  ASSUME SyncInv, TypeInv, FinishFrame \/ FinishProvider
  PROVE  TypeInv'
<1>. DEFINE d == Written(Call, Me.depth, Top.footer)
<1>1. /\ InLoop /\ Me.stack # <<>> /\ Top = Last(Me.stack) /\ Top.kind # "suspense"
      /\ UNCHANGED <<freeList, currentThreadID, requests>>
  BY FrameEndFacts DEF FinishFrame, FinishProvider
<1>2. /\ StackOK(Me) /\ Shaped(Me) /\ Remembers(Me, slot)
      /\ CallFields \subseteq DOMAIN Call /\ IsSeq(Call.out)
      /\ Len(Call.out) = Me.depth + 1 /\ Me.depth \in Nat
      /\ ~(Call.bounded /\ Len(Call.out[1]) >= Chunk)
  BY <1>1, LoopFacts
<1>3. GoesOn(Call, d) /\ OutOK(d, Me)
  BY <1>2, WrittenTyped
<1>. HIDE DEF d
<1>4. CASE FinishFrame
  <2>. DEFINE y == FrameLeft(Me)
  <2>1. Become(y, d) /\ UNCHANGED slot
    BY <1>4 DEF FinishFrame, d
  <2>2. /\ Remembers(y, slot) /\ y.threadID = Me.threadID
        /\ {"stack", "depth"} \subseteq DOMAIN y
        /\ y.stack = Front(Me.stack) /\ y.depth = Me.depth
    BY <1>2, FrameLeftRemembers
  <2>. HIDE DEF y
  <2>3. Shaped(y) /\ OutOK(d, y)
    BY <1>1, <1>2, <1>3, <2>2, FrameLeftShaped DEF OutOK
  <2>. QED
    BY <1>1, <1>3, <2>1, <2>2, <2>3, PlainLoopTyped
<1>5. CASE FinishProvider
  <2>. DEFINE y == ProviderPopped(FrameLeft(Me))
              after == SlotRestored(Me)
  <2>1. Become(y, d) /\ slot' = after /\ Top.kind = "provider"
    BY <1>5 DEF FinishProvider, AtFrameEnd, d
  <2>2. ValuesOK(slot)
    BY DEF TypeInv
  <2>3. /\ ValuesOK(after) /\ Grows(slot, after) /\ Remembers(y, after)
        /\ y.threadID = Me.threadID /\ {"stack", "depth"} \subseteq DOMAIN y
        /\ y.depth = Me.depth /\ y.stack = Front(Me.stack)
    BY <1>1, <1>2, <2>1, <2>2, ProviderForgotten
  <2>. HIDE DEF y, after
  <2>4. Shaped(y) /\ OutOK(d, y)
    BY <1>1, <1>2, <1>3, <2>3, FrameLeftShaped DEF OutOK
  <2>5. IDs(freeList) \subseteq IDs(freeList')
    BY <1>1
  <2>. QED
    BY <1>1, <1>3, <2>1, <2>3, <2>4, <2>5, LoopTyped
<1>. QED
  BY <1>4, <1>5

\* A boundary is left: its buffer is gone.
LEMMA FinishBoundaryTyped ==
  ASSUME SyncInv, TypeInv, FinishBoundary \/ ShowFallback
  PROVE  TypeInv'
<1>. DEFINE x == FrameLeft(Me)
            y == [x EXCEPT !.depth = @ - 1]
            c == [Call EXCEPT !.out = Front(@)]
<1>1. /\ InLoop /\ Me.stack # <<>> /\ Top = Last(Me.stack) /\ Top.kind = "suspense"
      /\ IsFrame(Top) /\ UNCHANGED <<freeList, slot, currentThreadID, requests>>
  BY FrameEndFacts DEF FinishBoundary, ShowFallback
<1>2. /\ Shaped(Me) /\ Remembers(Me, slot)
      /\ CallFields \subseteq DOMAIN Call /\ IsSeq(Call.out)
      /\ Len(Call.out) = Me.depth + 1 /\ Me.depth \in Nat
      /\ ~(Call.bounded /\ Len(Call.out[1]) >= Chunk)
  BY <1>1, LoopFacts
<1>3. BoundaryLeft = y
  BY DEF BoundaryLeft
<1>4. /\ Remembers(x, slot) /\ x.threadID = Me.threadID
      /\ {"stack", "depth"} \subseteq DOMAIN x
      /\ x.stack = Front(Me.stack) /\ x.depth = Me.depth
  BY <1>2, FrameLeftRemembers
<1>. HIDE DEF x
<1>5. /\ Remembers(y, slot) /\ y.threadID = Me.threadID
      /\ {"stack", "depth"} \subseteq DOMAIN y
      /\ y.stack = Front(Me.stack) /\ y.depth = Me.depth - 1
  BY <1>4 DEF Remembers, Fields
<1>. HIDE DEF y
<1>6. Shaped(y) /\ y.depth \in Nat
  BY <1>1, <1>2, <1>5, FrameLeftShaped
<1>7. CallFields \subseteq DOMAIN c /\ c.out = Front(Call.out) /\ GoesOn(Call, c)
  BY <1>2 DEF CallFields, GoesOn
<1>. HIDE DEF c
<1>8. /\ IsSeq(c.out) /\ Len(c.out) \in {y.depth, y.depth + 1}
      /\ y.depth > 0 => ~(c.bounded /\ Len(c.out[1]) >= Chunk)
  <2>1. Call.out # <<>>
    BY <1>2
  <2>2. /\ IsSeq(c.out) /\ Len(c.out) = Len(Call.out) - 1
        /\ \A i \in 1 .. Len(Call.out) - 1 : c.out[i] = Call.out[i]
    BY <1>2, <1>7, <2>1, FrontIsSeq
  <2>3. y.depth > 0 => c.out[1] = Call.out[1]
    BY <1>2, <1>5, <1>6, <2>2
  <2>4. Len(c.out) = y.depth + 1
    BY <1>2, <1>5, <2>2
  <2>5. y.depth > 0 => ~(c.bounded /\ Len(c.out[1]) >= Chunk)
    <3>1. c.bounded = Call.bounded
      BY <1>7 DEF GoesOn
    <3>. QED
      BY <1>2, <2>3, <3>1, Zenon
  <2>. QED
    BY <2>2, <2>4, <2>5
<1>9. \A markup : LET d == Written(c, y.depth, markup) IN GoesOn(Call, d) /\ OutOK(d, y)
  <2>. SUFFICES ASSUME NEW markup
                PROVE  LET d == Written(c, y.depth, markup) IN GoesOn(Call, d) /\ OutOK(d, y)
    OBVIOUS
  <2>. DEFINE d == Written(c, y.depth, markup)
  <2>1. GoesOn(c, d) /\ OutOK(d, y)
    BY <1>6, <1>7, <1>8, WrittenTyped
  <2>. HIDE DEF d
  <2>2. GoesOn(Call, d)
    BY <1>7, <2>1 DEF GoesOn
  <2>. QED
    BY <2>1, <2>2 DEF d
<1>10. CASE FinishBoundary
  <2>. DEFINE markup == Last(Call.out) \o Top.footer
              d == Written(c, y.depth, markup)
  <2>1. Become(y, d)
    BY <1>3, <1>5, <1>10 DEF FinishBoundary, c
  <2>2. GoesOn(Call, d) /\ OutOK(d, y)
    BY <1>9
  <2>. HIDE DEF d
  <2>. QED
    BY <1>1, <1>5, <1>6, <2>1, <2>2, PlainLoopTyped
<1>11. CASE ShowFallback
  <2>. DEFINE f == FallbackFrame
              z == PushFrame(y, f)
              d == Written(c, y.depth, <<OpenFallback>>)
              t == [d EXCEPT !.suspended = FALSE]
  <2>1. Become(z, t)
    BY <1>3, <1>5, <1>11 DEF ShowFallback, c
  <2>2. GoesOn(Call, d) /\ OutOK(d, y)
    BY <1>9
  <2>. HIDE DEF d
  <2>3. GoesOn(Call, t) /\ OutOK(t, y)
    BY <2>2, FlagsTyped
  <2>4. IsFrame(f) /\ f.kind # "suspense"
    <3>1. Top.fallback \in Seq(Element) /\ f = Frame("fallback", Top.fallback, <<CloseBoundary>>)
      BY <1>1 DEF IsFrame, FallbackFrame
    <3>. HIDE DEF f
    <3>. QED
      BY <3>1, FrameIsFrame
  <2>. HIDE DEF f, t
  <2>5. Shaped(z)
    BY <1>6, <2>4, PushFrameShaped DEF OneFrame
  <2>6. z.depth = y.depth
    BY <1>5 DEF PushFrame
  <2>7. Remembers(z, slot) /\ z.threadID = Me.threadID
    BY <1>5, StackRemembers DEF PushFrame
  <2>. HIDE DEF z
  <2>8. OutOK(t, z)
    BY <2>3, <2>6 DEF OutOK
  <2>. QED
    BY <1>1, <2>1, <2>3, <2>5, <2>7, <2>8, PlainLoopTyped
<1>. QED
  BY <1>10, <1>11

\* A tree is rendered to its end: the renderer frees its ID.
LEMMA ExhaustTyped ==
  ASSUME SyncInv, TypeInv, Exhaust
  PROVE  TypeInv'
<1>. DEFINE y == [Me EXCEPT !.exhausted = TRUE]
<1>1. /\ InLoop /\ Become(y, Call) /\ UNCHANGED <<slot, currentThreadID, requests>>
      /\ freeList' = AfterFree(freeList, Me.threadID)
  BY DEF Exhaust
<1>2. /\ Shaped(Me) /\ Remembers(Me, slot)
      /\ CallFields \subseteq DOMAIN Call /\ IsSeq(Call.out)
      /\ Len(Call.out) = Me.depth + 1 /\ Me.depth \in Nat
      /\ ~(Call.bounded /\ Len(Call.out[1]) >= Chunk)
  BY <1>1, LoopFacts
<1>3. Remembers(y, slot) /\ y.threadID = Me.threadID /\ Shaped(y) /\ y.depth = Me.depth
  BY <1>2, EndRemembers
<1>. HIDE DEF y
<1>4. GoesOn(Call, Call) /\ OutOK(Call, y)
  BY <1>2, <1>3 DEF GoesOn, OutOK
<1>5. IDs(freeList) \subseteq IDs(freeList')
  BY <1>1 DEF AfterFree, IDs
<1>6. ValuesOK(slot) /\ Grows(slot, slot)
  BY DEF TypeInv, ValuesOK, Grows
<1>. QED
  BY <1>1, <1>3, <1>4, <1>5, <1>6, LoopTyped
-----------------------------------------------------------------------------
\* A new renderer is in one frame, and in no boundary or provider.
LEMMA NewRendererTyped ==
  ASSUME SyncInv, NEW e \in Element, NEW isStatic, NEW slots
  PROVE  LET x == NewRenderer(e, isStatic)
         IN  Shaped(x) /\ Remembers(x, slots) /\ x.depth = 0 /\ x.threadID = AllocatedID(freeList)
<1>. DEFINE x == NewRenderer(e, isStatic)
            f == Frame("root", TopLevel(e), <<>>)
<1>1. /\ Fields \cup {"stack", "depth"} \subseteq DOMAIN x /\ x.stack = <<f>> /\ x.depth = 0
      /\ x.providers = 0 /\ x.contextStack = <<>> /\ x.contextValueStack = <<>>
      /\ x.threadID = AllocatedID(freeList)
  BY DEF NewRenderer, Fields
<1>2. TopLevel(e) \in Seq(Element)
  BY MarkupAssumption DEF TopLevel
<1>3. IsFrame(f) /\ f.kind # "suspense"
  BY <1>2, FrameIsFrame
<1>4. AllocatedID(freeList) \in Nat
  BY AllocatedIsNat, SlotsFacts
<1>. HIDE DEF x, f
<1>5. <<f>> \in Seq({f}) /\ DOMAIN <<f>> = {1} /\ <<f>>[1] = f
  OBVIOUS
<1>6. IsSeq(<<f>>) /\ Boundaries(<<f>>) = {}
  BY <1>3, <1>5 DEF IsSeq, Boundaries
<1>7. Shaped(x)
  BY <1>1, <1>3, <1>5, <1>6, FS_EmptySet DEF Shaped
<1>8. IsSeq(<<>>) /\ Len(<<>>) = 0
  BY DEF IsSeq
<1>9. Remembers(x, slots)
  BY <1>1, <1>4, <1>8 DEF Remembers
<1>. QED
  BY <1>1, <1>7, <1>9 DEF x

\* Renderers that are as deep in boundaries and have the same IDs.
SameReads(rs, ts) ==
  /\ IsSeq(ts) /\ DOMAIN ts = DOMAIN rs
  /\ \A r \in DOMAIN rs : /\ ts[r].depth = rs[r].depth /\ ts[r].threadID = rs[r].threadID
                          /\ rs[r].exhausted => ts[r].exhausted

\* The reads on the stack do not depend on anything else.
LEMMA CallsTypedSame ==
  ASSUME NEW cs, NEW rs, NEW current, CallsTyped(cs, rs, current), NEW ts, SameReads(rs, ts)
  PROVE  CallsTyped(cs, ts, current)
<1>1. IsSeq(cs) /\ Len(cs) \in Nat /\ DOMAIN cs = 1 .. Len(cs)
  BY DEF CallsTyped, IsSeq
<1>2. \A i \in DOMAIN cs : CallTyped(cs[i], ts) /\ cs[i].renderer \in DOMAIN rs
  BY DEF CallsTyped, CallTyped, SameReads
<1>3. \A i \in 0 .. Len(cs) : ThreadIDAt(cs, ts, i) = ThreadIDAt(cs, rs, i)
  <2>1. \A i \in 0 .. Len(cs) : i # 0 => i \in DOMAIN cs
    BY <1>1
  <2>. QED
    BY <1>2, <2>1 DEF ThreadIDAt, SameReads
<1>4. (\A i \in DOMAIN cs : i - 1 \in 0 .. Len(cs)) /\ Len(cs) \in 0 .. Len(cs)
  BY <1>1
<1>. QED
  BY <1>2, <1>3, <1>4 DEF CallsTyped, SameReads

\* One renderer changes, and stays as deep.
LEMMA OneSameReads ==
  ASSUME NEW rs, IsSeq(rs), NEW n \in DOMAIN rs, NEW x,
         x.depth = rs[n].depth, x.threadID = rs[n].threadID, rs[n].exhausted => x.exhausted
  PROVE  LET ts == [rs EXCEPT ![n] = x]
         IN  SameReads(rs, ts) /\ ts[n] = x /\ \A r \in DOMAIN rs \ {n} : ts[r] = rs[r]
<1>. DEFINE ts == [rs EXCEPT ![n] = x]
<1>1. /\ IsSeq(ts) /\ DOMAIN ts = DOMAIN rs /\ ts[n] = x
      /\ \A r \in DOMAIN rs \ {n} : ts[r] = rs[r]
  BY ExceptIsSeq
<1>. HIDE DEF ts
<1>2. SameReads(rs, ts)
  BY <1>1 DEF SameReads
<1>. QED
  BY <1>1, <1>2 DEF ts

\* destroy(): slots and IDs stay, and the renderer is as deep as it was.
LEMMA DestroyTyped ==
  ASSUME SyncInv, TypeInv, NEW r \in DOMAIN renderers, Destroy(r)
  PROVE  /\ ValuesOK(slot') /\ RenderersTyped(Destroyed(r), slot', IDs(freeList'))
         /\ SameReads(renderers, Destroyed(r)) /\ Destroyed(r)[r].exhausted
<1>. DEFINE me    == renderers[r]
            x     == [me EXCEPT !.exhausted = TRUE]
            after == slot'
            ids   == IDs(freeList')
<1>1. /\ ValuesOK(slot) /\ RenderersTyped(renderers, slot, IDs(freeList)) /\ IsSeq(renderers)
      /\ Shaped(me) /\ Remembers(me, slot) /\ me.threadID \in IDs(freeList)
  BY DEF TypeInv, CallsTyped, RenderersTyped
<1>2. /\ Remembers(x, slot) /\ x.threadID = me.threadID
      /\ Shaped(x) /\ x.depth = me.depth /\ x.exhausted
  BY <1>1, EndRemembers
<1>3. Destroyed(r) = [renderers EXCEPT ![r] = x]
  BY DEF Destroyed
<1>4. ValuesOK(after) /\ Grows(slot, after) /\ IDs(freeList) \subseteq ids
  <2>1. CASE me.exhausted
    <3>1. after = slot /\ ids = IDs(freeList)
      BY <2>1 DEF Destroy
    <3>2. Grows(slot, slot)
      BY <1>1 DEF ValuesOK, Grows
    <3>. QED
      BY <1>1, <3>1, <3>2
  <2>2. CASE ~me.exhausted
    <3>1. after = Cleared(me) /\ freeList' = AfterFree(freeList, me.threadID)
      BY <2>2 DEF Destroy
    <3>2. IDs(freeList) \subseteq ids
      BY <3>1 DEF AfterFree, IDs
    <3>. HIDE DEF after, me
    <3>3. ValuesOK(after) /\ Grows(slot, after)
      BY <1>1, <3>1, ClearedValues
    <3>. QED
      BY <3>2, <3>3
  <2>. QED
    BY <2>1, <2>2
<1>. HIDE DEF x, after, ids
<1>5. LET ts == [renderers EXCEPT ![r] = x]
      IN  SameReads(renderers, ts) /\ ts[r] = x
  BY <1>1, <1>2, OneSameReads
<1>6. RenderersTyped(renderers, after, ids) /\ Remembers(x, after) /\ x.threadID \in ids
  BY <1>1, <1>2, <1>4, RenderersTypedMore, RemembersMore
<1>7. RenderersTyped([renderers EXCEPT ![r] = x], after, ids)
  BY <1>1, <1>2, <1>6, RendererTyped
<1>. QED
  BY <1>2, <1>3, <1>4, <1>5, <1>7 DEF after, ids

\* What the caller gets.
LEMMA OutcomeTyped ==
  ASSUME RequestsOK, StatusesOK, NEW q \in Request, NEW status \in Statuses, NEW markup,
         Outcome(q, status, markup)
  PROVE  StatusesOK'
<1>1. DOMAIN requests = Request /\ {"status", "renderer"} \subseteq DOMAIN requests[q]
  BY DEF RequestsOK
<1>2. /\ \A p \in Request \ {q} : requests'[p] = requests[p]
      /\ {"status", "renderer"} \subseteq DOMAIN requests'[q] /\ requests'[q].status = status
  BY <1>1 DEF Outcome
<1>. QED
  BY <1>2 DEF StatusesOK

\* What the steps that leave a read start from.
LEMMA ReadFacts ==
  ASSUME SyncInv, TypeInv, calls # <<>>
  PROVE  /\ Len(calls) \in DOMAIN calls /\ Call = calls[Len(calls)] /\ IsSeq(renderers)
         /\ Call.renderer \in DOMAIN renderers /\ Me = renderers[Call.renderer]
         /\ CallTyped(Call, renderers)
<1>1. /\ Len(calls) \in DOMAIN calls /\ Call = calls[Len(calls)]
      /\ Call.renderer \in DOMAIN renderers /\ Me = renderers[Call.renderer]
  BY CallIsCall DEF SyncInv, IsCall
<1>. QED
  BY <1>1 DEF TypeInv, CallsTyped

\* A read is left.
LEMMA LeaveTyped ==
  ASSUME SyncInv, TypeInv, calls # <<>>, NEW ts, SameReads(renderers, ts),
         ts[Call.renderer].exhausted \/ ts[Call.renderer].depth = 0
  PROVE  CallsTyped(Front(calls), ts, ThreadIDRestored)
<1>1. CallsTyped(calls, renderers, currentThreadID) /\ Call = calls[Len(calls)]
  BY ReadFacts DEF TypeInv
<1>2. CallsTyped(Front(calls), ts, calls[Len(calls)].previous)
  BY <1>1, ReadLeft DEF SameReads
<1>. QED
  BY <1>1, <1>2 DEF ThreadIDRestored

\* A request's read ends.
LEMMA ReadEndsTyped ==
  ASSUME SyncInv, TypeInv, NEW q \in Request, ReadReturns(q) \/ ReadFails(q)
  PROVE  TypeInv'
<1>1. /\ calls # <<>> /\ calls' = Front(calls) /\ currentThreadID' = ThreadIDRestored
      /\ RequestsOK /\ StatusesOK
  BY DEF ReadReturns, ReadFails, Returns, Fails, Leave, SyncInv, IDsInv, TypeInv
<1>2. Call.renderer \in DOMAIN renderers /\ CallTyped(Call, renderers) /\ IsSeq(renderers)
      /\ Me = renderers[Call.renderer]
  BY <1>1, ReadFacts
<1>3. CASE /\ UNCHANGED <<freeList, slot, renderers>> /\ Returns
           /\ \E m : Outcome(q, "active", m)
  <2>1. Me.exhausted \/ Me.depth = 0
    BY <1>2, <1>3 DEF Returns, Full, CallTyped
  <2>2. SameReads(renderers, renderers)
    BY <1>2 DEF SameReads
  <2>3. CallsTyped(Front(calls), renderers, ThreadIDRestored)
    BY <1>1, <1>2, <2>1, <2>2, LeaveTyped
  <2>4. StatusesOK'
    BY <1>1, <1>3, OutcomeTyped DEF Statuses
  <2>. QED
    BY <1>1, <1>3, <2>3, <2>4 DEF TypeInv
<1>4. CASE /\ Destroy(Call.renderer) /\ renderers' = Destroyed(Call.renderer)
           /\ \E status \in {"done", "failed"} : \E m : Outcome(q, status, m)
  <2>. DEFINE ts == Destroyed(Call.renderer)
  <2>1. /\ ValuesOK(slot') /\ RenderersTyped(ts, slot', IDs(freeList'))
        /\ SameReads(renderers, ts) /\ ts[Call.renderer].exhausted
    BY <1>2, <1>4, DestroyTyped
  <2>. HIDE DEF ts
  <2>2. CallsTyped(Front(calls), ts, ThreadIDRestored)
    BY <1>1, <2>1, LeaveTyped
  <2>3. StatusesOK'
    BY <1>1, <1>4, OutcomeTyped DEF Statuses
  <2>. QED
    BY <1>1, <1>4, <2>1, <2>2, <2>3 DEF TypeInv, ts
<1>. QED
  BY <1>3, <1>4 DEF ReadReturns, ReadFails

\* A nested read ends: the component around it goes on, or fails.
LEMMA NestedEndsTyped ==
  ASSUME SyncInv, TypeInv, NestedReturns \/ NestedCaught \/ NestedFails
  PROVE  TypeInv'
<1>. DEFINE ts == Destroyed(Call.renderer)
            cs == Front(calls)
            n  == Len(calls) - 1
<1>1. /\ calls # <<>> /\ Len(calls) > 1 /\ Destroy(Call.renderer) /\ UNCHANGED requests
      /\ currentThreadID' = ThreadIDRestored
      /\ \/ /\ calls' = cs
            /\ renderers' = [ts EXCEPT ![Outer] = Returned(@, Call.nested)]
         \/ calls' = [cs EXCEPT ![n].failed = TRUE] /\ renderers' = ts
  BY DEF NestedReturns, NestedCaught, NestedFails, Returns, Fails, Leave
<1>2. /\ IsSeq(calls) /\ CallsTyped(calls, renderers, currentThreadID) /\ StatusesOK
  BY DEF TypeInv, CallsTyped
<1>3. /\ Len(calls) \in Nat /\ Len(calls) \in DOMAIN calls /\ Call = calls[Len(calls)]
      /\ n \in DOMAIN calls /\ n \in 1 .. n
      /\ IsSeq(cs) /\ Len(cs) = n /\ DOMAIN cs = 1 .. n
      /\ \A i \in 1 .. n : cs[i] = calls[i]
  BY <1>1, <1>2, FrontIsSeq, ReadFacts
<1>4. /\ Call.renderer \in DOMAIN renderers
      /\ Outer \in DOMAIN renderers /\ Outer = cs[n].renderer
      /\ Shape[Call.nested].kid \in Element \cup {None}
  BY <1>1, <1>2, <1>3 DEF CallsTyped, CallTyped, Outer
<1>5. /\ ValuesOK(slot') /\ RenderersTyped(ts, slot', IDs(freeList'))
      /\ SameReads(renderers, ts) /\ ts[Call.renderer].exhausted
  BY <1>1, <1>4, DestroyTyped
<1>6. StatusesOK'
  BY <1>1, <1>2 DEF StatusesOK
<1>. HIDE DEF ts
<1>7. CallsTyped(cs, ts, ThreadIDRestored)
  BY <1>1, <1>5, LeaveTyped
<1>8. CASE /\ calls' = cs
           /\ renderers' = [ts EXCEPT ![Outer] = Returned(@, Call.nested)]
  <2>. DEFINE x == Returned(ts[Outer], Call.nested)
              us == [ts EXCEPT ![Outer] = x]
              after == slot'
              ids == IDs(freeList')
  <2>1. Outer \in DOMAIN ts /\ IsSeq(ts) /\ RenderersTyped(ts, after, ids)
    BY <1>4, <1>5 DEF SameReads
  <2>2. /\ Shaped(ts[Outer]) /\ Remembers(ts[Outer], after) /\ ts[Outer].threadID \in ids
    BY <2>1 DEF RenderersTyped
  <2>. HIDE DEF after, ids
  <2>3. /\ Shaped(x) /\ Remembers(x, after) /\ x.depth = ts[Outer].depth
        /\ x.threadID = ts[Outer].threadID /\ x.exhausted = ts[Outer].exhausted
    BY <1>4, <2>2, ReturnedTyped
  <2>. HIDE DEF x
  <2>4. SameReads(ts, us)
    BY <2>1, <2>3, OneSameReads
  <2>5. RenderersTyped(us, after, ids)
    BY <2>1, <2>2, <2>3, RendererTyped
  <2>6. renderers' = us
    BY <1>8 DEF x
  <2>. HIDE DEF us
  <2>7. CallsTyped(cs, us, ThreadIDRestored)
    BY <1>7, <2>4, CallsTypedSame
  <2>. QED
    BY <1>1, <1>5, <1>6, <1>8, <2>5, <2>6, <2>7 DEF TypeInv, after, ids
<1>9. CASE calls' = [cs EXCEPT ![n].failed = TRUE] /\ renderers' = ts
  <2>. DEFINE c == cs[n]
              d == [c EXCEPT !.failed = TRUE]
  <2>1. n \in DOMAIN cs /\ cs # <<>> /\ IsSeq(ts)
    BY <1>3, <1>5 DEF SameReads
  <2>2. CallTyped(c, ts)
    BY <1>7, <2>1 DEF CallsTyped
  <2>3. GoesOn(c, c) /\ OutOK(c, ts[c.renderer])
    BY <2>2 DEF CallTyped, GoesOn, OutOK
  <2>. HIDE DEF c
  <2>4. GoesOn(c, d) /\ OutOK(d, ts[c.renderer])
    BY <2>3, FlagsTyped
  <2>5. d.renderer = c.renderer
    BY <2>4 DEF GoesOn
  <2>. HIDE DEF d
  <2>6. GoesOn(cs[Len(cs)], d)
    BY <1>3, <2>4 DEF c
  <2>. DEFINE x == ts[d.renderer]
  <2>7. OutOK(d, x) /\ x.threadID = ts[d.renderer].threadID
    BY <2>4, <2>5
  <2>8. [ts EXCEPT ![d.renderer] = x] = ts
    BY <2>1 DEF IsSeq
  <2>. HIDE DEF x, cs
  <2>9. CallsTyped([cs EXCEPT ![Len(cs)] = d], [ts EXCEPT ![d.renderer] = x], ThreadIDRestored)
    BY <1>7, <2>1, <2>6, <2>7, CallGoesOn DEF OutOK
  <2>10. calls' = [cs EXCEPT ![Len(cs)] = d]
    BY <1>3, <1>9 DEF c, d
  <2>. QED
    BY <1>1, <1>5, <1>6, <1>9, <2>8, <2>9, <2>10 DEF TypeInv
<1>. QED
  BY <1>1, <1>8, <1>9

\* The ID of a new renderer is an ID.
LEMMA AllocTyped ==
  ASSUME SyncInv, CanAlloc(freeList)
  PROVE  /\ AllocatedID(freeList) \in IDs(AfterAlloc(freeList))
         /\ IDs(freeList) \subseteq IDs(AfterAlloc(freeList))
<1>1. /\ IsFreeList(freeList) /\ Intact(freeList, HeldBy(renderers))
      /\ HeldBy(renderers) \subseteq IDs(freeList)
  BY SlotsFacts DEF IDsHeld, HeldBy
<1>. QED
  BY <1>1, AllocTakesFree

\* A component calls renderToString.
LEMMA CallNestedTyped ==
  ASSUME SyncInv, TypeInv, CallNested
  PROVE  TypeInv'
<1>. DEFINE e    == Target.of
            rs   == [renderers EXCEPT ![Call.renderer] = Next1]
            new  == NewRenderer(Shape[e].inner, FALSE)
            ts   == Append(rs, new)
            r    == Len(ts)
            call == ReadCall(r, FALSE, e)
            ids  == IDs(AfterAlloc(freeList))
<1>1. /\ AtElement({"nested"}) /\ CanAlloc(freeList) /\ UNCHANGED <<slot, requests>>
      /\ renderers' = ts /\ calls' = Append(calls, call)
      /\ currentThreadID' = AllocatedID(freeList) /\ freeList' = AfterAlloc(freeList)
  BY DEF CallNested
<1>2. AtChild /\ e \in Element /\ Kind(e) = "nested"
  BY <1>1, TargetIsElement
<1>3. Shape[e].inner \in Element /\ Shape[e].kid \in Element \cup {None}
  BY <1>2, MarkupAssumption
<1>4. /\ Shaped(Next1) /\ Remembers(Next1, slot) /\ Next1.threadID = Me.threadID
      /\ Next1.depth = Me.depth /\ InLoop
  BY <1>2, NextShaped
<1>5. /\ Call.renderer \in DOMAIN renderers /\ Me = renderers[Call.renderer]
      /\ Me.threadID \in IDs(freeList) /\ ~Me.exhausted
  BY <1>4, LoopFacts DEF InLoop
<1>6. /\ ValuesOK(slot) /\ RenderersTyped(renderers, slot, IDs(freeList)) /\ IsSeq(renderers)
      /\ CallsTyped(calls, renderers, currentThreadID) /\ StatusesOK /\ Grows(slot, slot)
  BY DEF TypeInv, CallsTyped, ValuesOK, Grows
<1>7. AllocatedID(freeList) \in ids /\ IDs(freeList) \subseteq ids
  BY <1>1, AllocTyped
<1>8. Shaped(new) /\ Remembers(new, slot) /\ new.depth = 0 /\ new.threadID = AllocatedID(freeList)
  BY <1>3, NewRendererTyped
<1>. HIDE DEF new, ids
<1>9. SameReads(renderers, rs)
  BY <1>4, <1>5, <1>6, OneSameReads
<1>10. RenderersTyped(rs, slot, IDs(freeList))
  BY <1>4, <1>5, <1>6, RendererTyped
<1>. HIDE DEF rs
<1>11. RenderersTyped(ts, slot, ids)
  <2>1. RenderersTyped(rs, slot, ids) /\ IsSeq(rs)
    BY <1>6, <1>7, <1>9, <1>10, RenderersTypedMore DEF SameReads
  <2>. QED
    BY <1>7, <1>8, <2>1, RendererTypedAdded
<1>12. CallsTyped(calls, rs, currentThreadID)
  BY <1>6, <1>9, CallsTypedSame
<1>13. CallsTyped(calls, ts, currentThreadID)
  BY <1>8, <1>12, RendererAdded
<1>14. /\ r \in DOMAIN ts /\ ts[r] = new /\ \A i \in DOMAIN calls : calls[i].renderer # r
  <2>1. IsSeq(rs) /\ \A i \in DOMAIN calls : calls[i].renderer \in DOMAIN rs
    BY <1>9, <1>12 DEF SameReads, CallsTyped, CallTyped
  <2>2. /\ r = Len(rs) + 1 /\ r \in DOMAIN ts /\ ts[r] = new
        /\ Len(rs) \in Nat /\ \A i \in DOMAIN rs : i \in 1 .. Len(rs)
    BY <2>1, AppendIsSeq
  <2>. HIDE DEF ts, r
  <2>3. r \notin DOMAIN rs
    BY <2>2
  <2>. QED
    BY <2>1, <2>2, <2>3
<1>. HIDE DEF ts, r
<1>15. /\ CallFields \subseteq DOMAIN call /\ call.renderer = r /\ call.out = <<<<>>>>
       /\ call.previous = currentThreadID /\ call.nested = e
  BY DEF ReadCall, CallFields
<1>. HIDE DEF call, e
<1>16. CallsTyped(Append(calls, call), ts, ts[r].threadID)
  BY <1>3, <1>8, <1>13, <1>14, <1>15, ReadAdded
<1>17. StatusesOK'
  BY <1>1, <1>6 DEF StatusesOK
<1>. QED
  BY <1>1, <1>6, <1>8, <1>11, <1>14, <1>16, <1>17 DEF TypeInv, ids

\* A read that is not inside of another one.
LEMMA FirstRead ==
  ASSUME NEW rs, NEW current, CallsTyped(<<>>, rs, current), NEW r \in DOMAIN rs,
         rs[r].depth = 0,
         NEW call, CallFields \subseteq DOMAIN call, call.renderer = r, call.out = <<<<>>>>,
         call.previous = current
  PROVE  CallsTyped(<<call>>, rs, rs[r].threadID)
<1>1. DOMAIN <<>> = {} /\ Append(<<>>, call) = <<call>>
  OBVIOUS
<1>. DEFINE cs == <<>>
<1>2. /\ CallsTyped(cs, rs, current) /\ \A i \in DOMAIN cs : cs[i].renderer # r
      /\ cs # <<>> => Shape[call.nested].kid \in Element \cup {None}
  BY <1>1
<1>3. Append(cs, call) = <<call>>
  BY <1>1
<1>. HIDE DEF cs
<1>4. CallsTyped(Append(cs, call), rs, rs[r].threadID)
  BY <1>2, ReadAdded
<1>. QED
  BY <1>3, <1>4

\* A request starts.
LEMMA StartTyped ==
  ASSUME SyncInv, TypeInv, NEW q \in Request, Start(q)
  PROVE  TypeInv'
<1>. DEFINE new  == NewRenderer(Root[q], q \in Static)
            ts   == Append(renderers, new)
            r    == Len(ts)
            call == ReadCall(r, FALSE, None)
            ids  == IDs(AfterAlloc(freeList))
<1>1. /\ calls = <<>> /\ CanAlloc(freeList) /\ UNCHANGED slot
      /\ renderers' = ts /\ freeList' = AfterAlloc(freeList)
      /\ requests' = [requests EXCEPT ![q].status = "active", ![q].renderer = Len(renderers')]
      /\ \/ UNCHANGED <<calls, currentThreadID>>
         \/ calls' = <<call>> /\ currentThreadID' = AllocatedID(freeList)
  BY DEF Start
<1>2. /\ ValuesOK(slot) /\ RenderersTyped(renderers, slot, IDs(freeList)) /\ IsSeq(renderers)
      /\ CallsTyped(calls, renderers, currentThreadID) /\ StatusesOK /\ Grows(slot, slot)
  BY DEF TypeInv, CallsTyped, ValuesOK, Grows
<1>3. AllocatedID(freeList) \in ids /\ IDs(freeList) \subseteq ids
  BY <1>1, AllocTyped
<1>4. Shaped(new) /\ Remembers(new, slot) /\ new.depth = 0 /\ new.threadID = AllocatedID(freeList)
  BY SyncAssumption, NewRendererTyped
<1>. HIDE DEF new, ids
<1>5. RenderersTyped(ts, slot, ids)
  <2>1. RenderersTyped(renderers, slot, ids)
    BY <1>2, <1>3, RenderersTypedMore
  <2>. QED
    BY <1>2, <1>3, <1>4, <2>1, RendererTypedAdded
<1>6. CallsTyped(<<>>, ts, currentThreadID)
  BY <1>1, <1>2, <1>4, RendererAdded
<1>7. r \in DOMAIN ts /\ ts[r] = new
  BY <1>2, AppendIsSeq
<1>8. StatusesOK'
  <2>1. DOMAIN requests = Request
    BY DEF SyncInv, IDsInv, RequestsOK
  <2>2. /\ \A p \in Request \ {q} : requests'[p] = requests[p]
        /\ "status" \in DOMAIN requests'[q] /\ requests'[q].status = "active"
    BY <1>1, <1>2, <2>1 DEF StatusesOK
  <2>. QED
    BY <1>2, <2>2 DEF StatusesOK, Statuses
<1>. HIDE DEF ts, r
<1>9. /\ CallFields \subseteq DOMAIN call /\ call.renderer = r /\ call.out = <<<<>>>>
      /\ call.previous = currentThreadID
  BY DEF ReadCall, CallFields
<1>. HIDE DEF call
<1>10. CallsTyped(<<call>>, ts, ts[r].threadID)
  BY <1>4, <1>6, <1>7, <1>9, FirstRead
<1>. QED
  BY <1>1, <1>2, <1>4, <1>5, <1>6, <1>7, <1>8, <1>10 DEF TypeInv, ids

\* The clients' other steps.
LEMMA ClientTyped ==
  ASSUME SyncInv, TypeInv, NEW q \in Request,
         StartRefused(q) \/ StreamReads(q) \/ StreamDestroyed(q)
  PROVE  TypeInv'
<1>1. /\ ValuesOK(slot) /\ RenderersTyped(renderers, slot, IDs(freeList)) /\ IsSeq(renderers)
      /\ CallsTyped(calls, renderers, currentThreadID) /\ StatusesOK /\ RequestsOK
  BY DEF TypeInv, CallsTyped, SyncInv, IDsInv
<1>2. CASE StartRefused(q)
  <2>1. /\ Outcome(q, "failed", <<>>)
        /\ UNCHANGED <<freeList, slot, renderers, calls, currentThreadID>>
    BY <1>2 DEF StartRefused
  <2>2. StatusesOK'
    BY <1>1, <2>1, OutcomeTyped DEF Statuses
  <2>. QED
    BY <1>1, <2>1, <2>2 DEF TypeInv
<1>3. CASE StreamReads(q)
  <2>. DEFINE r == requests[q].renderer
              call == ReadCall(r, TRUE, None)
  <2>1. /\ calls = <<>> /\ requests[q].status = "active"
        /\ UNCHANGED <<freeList, slot, renderers>>
        /\ \/ Outcome(q, "done", <<>>) /\ UNCHANGED <<calls, currentThreadID>>
           \/ /\ ~renderers[r].exhausted /\ calls' = <<call>> /\ UNCHANGED requests
              /\ currentThreadID' = renderers[r].threadID
    BY <1>3 DEF StreamReads
  <2>2. r \in DOMAIN renderers
    BY <1>1, <2>1 DEF RequestsOK
  <2>3. CASE Outcome(q, "done", <<>>) /\ UNCHANGED <<calls, currentThreadID>>
    <3>1. StatusesOK'
      BY <1>1, <2>3, OutcomeTyped DEF Statuses
    <3>. QED
      BY <1>1, <2>1, <2>3, <3>1 DEF TypeInv
  <2>4. CASE /\ ~renderers[r].exhausted /\ calls' = <<call>> /\ UNCHANGED requests
             /\ currentThreadID' = renderers[r].threadID
    <3>1. DOMAIN calls = {}
      BY <2>1
    <3>2. renderers[r].depth = 0
      BY <1>1, <2>2, <2>4, <3>1 DEF CallsTyped
    <3>3. /\ CallFields \subseteq DOMAIN call /\ call.renderer = r /\ call.out = <<<<>>>>
          /\ call.previous = currentThreadID
      BY DEF ReadCall, CallFields
    <3>. HIDE DEF call, r
    <3>4. CallsTyped(<<call>>, renderers, renderers[r].threadID)
      BY <1>1, <2>1, <2>2, <3>2, <3>3, FirstRead
    <3>5. StatusesOK'
      BY <1>1, <2>4 DEF StatusesOK
    <3>. QED
      BY <1>1, <2>1, <2>4, <3>4, <3>5 DEF TypeInv
  <2>. QED
    BY <2>1, <2>3, <2>4
<1>4. CASE StreamDestroyed(q)
  <2>. DEFINE r == requests[q].renderer
              ts == Destroyed(r)
  <2>1. /\ requests[q].status = "active" /\ Destroy(r) /\ renderers' = ts
        /\ Outcome(q, "destroyed", <<>>) /\ UNCHANGED <<calls, currentThreadID>>
    BY <1>4 DEF StreamDestroyed
  <2>2. r \in DOMAIN renderers
    BY <1>1, <2>1 DEF RequestsOK
  <2>3. /\ ValuesOK(slot') /\ RenderersTyped(ts, slot', IDs(freeList'))
        /\ SameReads(renderers, ts)
    BY <2>1, <2>2, DestroyTyped
  <2>. HIDE DEF ts
  <2>4. CallsTyped(calls, ts, currentThreadID)
    BY <1>1, <2>3, CallsTypedSame
  <2>5. StatusesOK'
    BY <1>1, <2>1, OutcomeTyped DEF Statuses
  <2>. QED
    BY <2>1, <2>3, <2>4, <2>5 DEF TypeInv, ts
<1>. QED
  BY <1>2, <1>3, <1>4
-----------------------------------------------------------------------------
\* Nothing has been read, and there are no slots.
LEMMA InitTyped ==
  ASSUME Init
  PROVE  TypeInv
<1>1. /\ slot = [c \in Context |-> <<>>] /\ renderers = <<>> /\ calls = <<>>
      /\ currentThreadID = 0
  BY DEF Init
<1>2. ValuesOK(slot)
  BY <1>1 DEF ValuesOK
<1>3. IsSeq(<<>>) /\ DOMAIN <<>> = {} /\ Len(<<>>) = 0
  BY DEF IsSeq
<1>4. CallsTyped(<<>>, <<>>, 0)
  BY <1>3 DEF CallsTyped, ThreadIDAt
<1>5. StatusesOK
  BY DEF Init, StatusesOK, Statuses
<1>. QED
  BY <1>1, <1>2, <1>3, <1>4, <1>5 DEF TypeInv, RenderersTyped

\* Each step keeps the types.
LEMMA NextTyped ==
  ASSUME SyncInv, TypeInv, [Next]_vars
  PROVE  TypeInv'
<1>1. CASE RunStep
  BY <1>1, RenderTyped, InterruptTyped, CallNestedTyped, FinishFrameTyped, FinishBoundaryTyped,
     ExhaustTyped, NestedEndsTyped DEF RunStep
<1>2. CASE ClientStep
  BY <1>2, StartTyped, ClientTyped, ReadEndsTyped DEF ClientStep
<1>3. CASE \E q \in Request : StreamDestroyed(q)
  BY <1>3, ClientTyped
<1>4. CASE UNCHANGED vars
  BY <1>4 DEF vars, TypeInv, StatusesOK
<1>. QED
  BY <1>1, <1>2, <1>3, <1>4 DEF Next

\* However deep reads are nested and wherever they suspend, fail or stop for the next
\* chunk, there is one buffer for each boundary of the renderer, each provider that is
\* still to be left has a slot to restore, and each read leaves the thread ID of the
\* one around it as current.
THEOREM SyncTypesHold == Spec => []TypeOK
<1>1. Init => SyncInv /\ TypeInv
  BY InitEstablishes, InitSlots, InitTyped DEF SyncInv
<1>2. SyncInv /\ TypeInv /\ [Next]_vars => (SyncInv /\ TypeInv)'
  BY NextKeeps, NextKeepsSlots, NextTyped DEF SyncInv
<1>3. SyncInv /\ TypeInv => TypeOK
  <2>. SUFFICES ASSUME SyncInv, TypeInv
                PROVE  TypeOK
    OBVIOUS
  <2>1. IsFreeList(freeList)
    BY SlotsFacts DEF IDsHeld
  <2>2. \A c \in Context : Range(slot[c]) \subseteq Element
    BY DEF TypeInv, ValuesOK, Range
  <2>3. ASSUME NEW r \in DOMAIN renderers PROVE ShapeOK(renderers[r])
    <3>1. /\ Shaped(renderers[r]) /\ Remembers(renderers[r], slot)
          /\ renderers[r].threadID \in IDs(freeList)
      BY DEF TypeInv, RenderersTyped
    <3>2. Len(renderers[r].contextStack) \in Nat
      BY <3>1 DEF Remembers, IsSeq
    <3>. QED
      BY <3>1, <3>2 DEF ShapeOK, Shaped, Remembers, Boundaries
  <2>4. \A i \in DOMAIN calls : Len(calls[i].out) = renderers[calls[i].renderer].depth + 1
    BY DEF TypeInv, CallsTyped, CallTyped
  <2>5. currentThreadID = IF calls = <<>> THEN 0 ELSE Me.threadID
    <3>1. currentThreadID = ThreadIDAt(calls, renderers, Len(calls)) /\ IsSeq(calls)
      BY DEF TypeInv, CallsTyped
    <3>2. CASE calls = <<>>
      BY <3>1, <3>2 DEF ThreadIDAt
    <3>3. CASE calls # <<>>
      BY <3>1, <3>3, ReadFacts, FrontIsSeq DEF ThreadIDAt
    <3>. QED
      BY <3>2, <3>3
  <2>6. \A q \in Request :
          requests[q].status \in {"absent", "new", "active", "done", "failed", "destroyed"}
    BY DEF TypeInv, StatusesOK, Statuses
  <2>. QED
    BY <2>1, <2>2, <2>3, <2>4, <2>5, <2>6 DEF TypeOK
<1>. QED
  BY <1>1, <1>2, <1>3, PTL DEF Spec
=============================================================================
