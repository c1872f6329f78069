--------------------------- MODULE AsyncRequests ---------------------------
(***************************************************************************)
(* What happens around a ReactDOMServerRendererAsync: the data that its    *)
(* components fetch, the promises that bring suspended subtrees and whole  *)
(* boundaries back to it, and the two kinds of clients that make one,      *)
(* renderToStringAsync and renderToNodeStreamAsync.  All of it is          *)
(* callbacks, so nothing here happens while a renderer is running.         *)
(***************************************************************************)
EXTENDS AsyncRenderer

\* A fetch that a component has started comes back.
DataArrives(d) ==
  /\ running = 0 /\ data[d] = "pending"
  /\ data' = [data EXCEPT ![d] = "ready"]
  /\ UNCHANGED <<freeList, slot, promises, renderers, running, stage, requests>>

DataFails(d) ==
  /\ running = 0 /\ data[d] = "pending" /\ d \in FailingData
  /\ data' = [data EXCEPT ![d] = "failed"]
  /\ UNCHANGED <<freeList, slot, promises, renderers, running, stage, requests>>

IsPending(p, kind) == promises[p].kind = kind /\ promises[p].state = "pending"

Settle(p, state, markup) ==
  promises' = [promises EXCEPT ![p].state = state, ![p].markup = markup]

\* The data is there, and an ID for the child renderer's constructor to take.
CanResume(p) == data[promises[p].data] = "ready" /\ CanAlloc(freeList)

\* err.then(...): a child renderer is made and reads the whole subtree.
Resume(p) ==
  /\ running = 0 /\ IsPending(p, "suspension")
  /\ promises[p].renderer = 0 /\ CanResume(p)
  /\ LET clone == promises[p].clone
     IN  /\ renderers' = Append(renderers,
              [ChildRenderer(promises[p].child, promises[p].static, clone)
                 EXCEPT !.read = "reading"])
         /\ slot' = Reinstated(clone)
  /\ freeList' = AfterAlloc(freeList)
  /\ promises' = [promises EXCEPT ![p].renderer = Len(renderers')]
  /\ running' = Len(renderers') /\ stage' = "loop"
  /\ UNCHANGED <<data, requests>>

\* The data failed, or there is no ID left for the child renderer.
CannotResume(p) ==
  /\ running = 0 /\ IsPending(p, "suspension") /\ promises[p].renderer = 0
  /\ \/ data[promises[p].data] = "failed"
     \/ data[promises[p].data] = "ready" /\ ~CanAlloc(freeList)
  /\ Settle(p, "rejected", <<>>)
  /\ UNCHANGED <<freeList, slot, data, renderers, running, stage, requests>>

\* Mutant: an error in the child's subtree is taken for no markup.
ChildResultSwallowed(r) == "fulfilled"

ChildResult(r) == IF renderers[r].read = "resolved" THEN "fulfilled" ELSE "rejected"

\* The child's read is over: it is destroyed and its markup or error passed on.
ChildSettles(p) ==
  /\ running = 0 /\ IsPending(p, "suspension") /\ promises[p].renderer # 0
  /\ LET r == promises[p].renderer
     IN  /\ renderers[r].read \in {"resolved", "rejected"}
         /\ Destroy(r)
         /\ Settle(p, ChildResult(r), renderers[r].result)
  /\ UNCHANGED <<data, running, stage, requests>>

\* Mutant: parts that were rejected are left out.
PartStateIfPending(part) ==
  IF part.promise # 0 /\ promises[part.promise].state = "pending"
    THEN "pending" ELSE "fulfilled"

PartState(part)  == IF part.promise = 0 THEN "fulfilled" ELSE promises[part.promise].state
PartMarkup(part) == IF part.promise = 0 THEN part.markup ELSE promises[part.promise].markup

\* resolvePromisesWithFooter, then join: all parts, or the first rejection.
BoundarySettles(p) ==
  /\ running = 0 /\ IsPending(p, "boundary")
  /\ LET parts == promises[p].parts
     IN  \/ /\ \A i \in DOMAIN parts : PartState(parts[i]) = "fulfilled"
            /\ Settle(p, "fulfilled",
                 FlattenSeq([i \in DOMAIN parts |-> PartMarkup(parts[i])])
                   \o promises[p].footer)
         \/ /\ \E i \in DOMAIN parts : PartState(parts[i]) = "rejected"
            /\ Settle(p, "rejected", <<>>)
  /\ UNCHANGED <<freeList, slot, data, renderers, running, stage, requests>>
-----------------------------------------------------------------------------
RendererOf(q) == renderers[requests[q].renderer]

Outcome(q, status, markup) ==
  requests' = [requests EXCEPT ![q].status = status, ![q].delivered = @ \o markup]

\* A request makes its renderer.  A string is read at once.
Start(q) ==
  /\ running = 0 /\ requests[q].status = "new"
  /\ CanAlloc(freeList)
  /\ LET fresh == NewAsyncRenderer(Root[q], q \in Static, q \in Streams)
     IN  renderers' = Append(renderers,
           IF q \in Streams THEN fresh ELSE [fresh EXCEPT !.read = "reading"])
  /\ freeList' = AfterAlloc(freeList)
  /\ requests' = [requests EXCEPT ![q].status = "active", ![q].renderer = Len(renderers')]
  /\ running' = IF q \in Streams THEN 0 ELSE Len(renderers')
  /\ stage' = "loop"
  /\ UNCHANGED <<slot, data, promises>>

StartRefused(q) ==
  /\ running = 0 /\ requests[q].status = "new"
  /\ ~CanAlloc(freeList)
  /\ Outcome(q, "failed", <<>>)
  /\ UNCHANGED <<freeList, slot, data, promises, renderers, running, stage>>

\* renderToStringAsync's then and catch.
StringSettles(q) ==
  /\ running = 0 /\ requests[q].status = "active" /\ q \notin Streams
  /\ RendererOf(q).read \in {"resolved", "rejected"}
  /\ Destroy(requests[q].renderer)
  /\ IF RendererOf(q).read = "resolved"
       THEN Outcome(q, "done", RendererOf(q).result)
       ELSE Outcome(q, "failed", <<>>)
  /\ UNCHANGED <<data, promises, running, stage>>

\* _read: readAsync ends the stream when its renderer has nothing left.
StreamReads(q) ==
  /\ running = 0 /\ requests[q].status = "active" /\ q \in Streams
  /\ RendererOf(q).read = "none"
  /\ LET nothingLeft == RendererOf(q).exhausted
                        /\ RendererOf(q).queue[1] = <<String(<<>>)>>
     IN  renderers' = [renderers EXCEPT ![requests[q].renderer].read =
                         IF nothingLeft THEN "ended" ELSE "reading"]
  /\ running' = requests[q].renderer /\ stage' = "loop"
  /\ UNCHANGED <<freeList, slot, data, promises, requests>>

\* push(markup), and push(null) at the end.
StreamPushes(q) ==
  /\ running = 0 /\ requests[q].status = "active" /\ q \in Streams
  /\ RendererOf(q).read \in {"resolved", "ended"}
  /\ renderers' = [renderers EXCEPT ![requests[q].renderer].read = "none"]
  /\ IF RendererOf(q).read = "ended"
       THEN Outcome(q, "done", <<>>)
       ELSE Outcome(q, "active", RendererOf(q).result)
  /\ UNCHANGED <<freeList, slot, data, promises, running, stage>>

StreamFails(q) ==
  /\ running = 0 /\ requests[q].status = "active" /\ q \in Streams
  /\ RendererOf(q).read = "rejected"
  /\ Destroy(requests[q].renderer)
  /\ Outcome(q, "failed", <<>>)
  /\ UNCHANGED <<data, promises, running, stage>>

\* The consumer stops reading before the end.
StreamDestroyed(q) ==
  /\ running = 0 /\ requests[q].status = "active" /\ q \in Streams
  /\ Destroy(requests[q].renderer)
  /\ Outcome(q, "destroyed", <<>>)
  /\ UNCHANGED <<data, promises, running, stage>>
-----------------------------------------------------------------------------
Init ==
  /\ freeList = InitialList
  /\ slot = [c \in Context |-> <<>>]
  /\ data = [d \in Data |-> "idle"]
  /\ promises = <<>> /\ renderers = <<>>
  /\ running = 0 /\ stage = "loop"
  /\ \E G \in Groups :
       requests = [q \in Request |-> [status |-> IF q \in G THEN "new" ELSE "absent",
                                      renderer |-> 0, delivered |-> <<>>]]

RunStep ==
  \/ RenderText \/ RenderNothing \/ RenderHost \/ RenderFragment \/ RenderConsumer
  \/ RenderProvider \/ RenderSuspense \/ Suspend \/ Throw
  \/ FinishFrame \/ FinishProvider \/ FinishBoundary \/ Exhaust \/ LeaveLoop
  \/ FlattenString \/ FlattenPromise \/ FlattenEnds

CallbackStep ==
  \/ \E r \in DOMAIN renderers : FlattenResumes(r)
  \/ \E p \in DOMAIN promises :
       Resume(p) \/ CannotResume(p) \/ ChildSettles(p) \/ BoundarySettles(p)

ClientStep ==
  \E q \in Request : Start(q) \/ StartRefused(q) \/ StringSettles(q)
                     \/ StreamReads(q) \/ StreamPushes(q) \/ StreamFails(q)

\* What JavaScript, its promises and an eager consumer will do sooner or later.
Progress == RunStep \/ CallbackStep \/ ClientStep \/ \E d \in Data : DataArrives(d)

Next == \/ Progress
        \/ \E d \in Data : DataFails(d)
        \/ \E q \in Request : StreamDestroyed(q)

Spec     == Init /\ [][Next]_vars
FairSpec == Spec /\ WF_vars(Progress)
-----------------------------------------------------------------------------
Tokens == { <<"text", e>> : e \in Element } \cup { Separator, OpenBoundary, CloseBoundary }
          \cup { CloseTag(e) : e \in Element }
          \cup { OpenTag(e, r, s) : e \in Element, r \in BOOLEAN, s \in BOOLEAN }

IsEntry(entry) ==
  /\ entry.promise \in 0 .. Len(promises)
  /\ Range(entry.markup) \subseteq Tokens

\* One list of entries for each boundary that the renderer is in.
RendererOK(renderer) ==
  /\ ShapeOK(renderer)
  /\ Len(renderer.queue) = renderer.depth + 1
  /\ \A d \in DOMAIN renderer.queue : \A i \in DOMAIN renderer.queue[d] :
       IsEntry(renderer.queue[d][i])
  /\ renderer.read \in {"none", "reading", "awaiting", "resolved", "rejected", "ended"}

\* Every variable has its type, and every renderer's stacks agree with its
\* frames, its boundaries and its providers.
TypeOK ==
  /\ IsFreeList(freeList)
  /\ \A c \in Context : Range(slot[c]) \subseteq Element
  /\ data \in [Data -> {"idle", "pending", "ready", "failed"}]
  /\ \A p \in DOMAIN promises : promises[p].state \in {"pending", "fulfilled", "rejected"}
  /\ \A r \in DOMAIN renderers : RendererOK(renderers[r])
  /\ running \in 0 .. Len(renderers) /\ stage \in {"loop", "flatten"}
  /\ \A q \in Request :
       requests[q].status \in {"absent", "new", "active", "done", "failed", "destroyed"}

\* The markup of each request, as the synchronous renderer would produce it.
Expected == [q \in Request |->
               IF q \in Static THEN StaticMarkupOf(Root[q], {}) ELSE MarkupOf(Root[q], {})]

\* What a request has been given is a beginning of its markup, all of it at the
\* end: suspended parts are put where they belong and rendered with the context,
\* select value and neighbouring text they would have had.
MarkupInOrder ==
  \A q \in Request :
    /\ IsPrefix(requests[q].delivered, Expected[q])
    /\ requests[q].status = "done" => requests[q].delivered = Expected[q]

\* While a stream waits, it has delivered everything before the boundary that it
\* waits for (CHANGELOG 0.2.4).
WaitsAtBoundary ==
  \A q \in Streams :
    requests[q].status = "active" /\ RendererOf(q).read = "awaiting" =>
      LET n == Len(requests[q].delivered)
      IN  n < Len(Expected[q]) /\ Expected[q][n + 1] = OpenBoundary

Live == { r \in DOMAIN renderers : ~renderers[r].exhausted }

\* Between two turns of JavaScript, a context holds its default under every ID
\* that no unfinished renderer holds: no request leaves a value behind.
NothingLeftBehind ==
  running = 0 =>
    \A c \in Context : \A id \in 1 .. Len(slot[c]) - 1 :
      (\A r \in Live : renderers[r].threadID # id) => slot[c][id + 1] = Default[c]

\* The data a tree needs next: all that no other missing data hides.
Frontier[e \in Element] ==
  LET Among(kids) == UNION { Frontier[kids[i]] : i \in DOMAIN kids }
  IN  CASE Kind(e) = "component" ->
             IF Shape[e].data # None /\ data[Shape[e].data] # "ready"
               THEN {Shape[e].data}
             ELSE IF Shape[e].kid = None THEN {} ELSE Frontier[Shape[e].kid]
        [] Kind(e) \in {"text", "consumer", "reader", "thrower"} -> {}
        [] OTHER -> Among(Shape[e].kids)

\* A suspended component does not hold up the rest: once a string request waits
\* and no component can be resumed, every fetch that could be under way is.
FetchesInParallel ==
  \A q \in Request \ Streams :
    ( /\ requests[q].status = "active" /\ running = 0
      /\ \A p \in DOMAIN promises :
           promises[p].kind = "suspension" /\ promises[p].renderer = 0
             => data[promises[p].data] # "ready" ) =>
      \A d \in Frontier[Root[q]] : data[d] # "idle"

Settled(q) == requests[q].status \in {"absent", "done", "failed", "destroyed"}

\* Every request comes to an end: its promise resolves or rejects, its stream
\* ends, fails or is destroyed.
EveryRequestSettles == <>(\A q \in Request : Settled(q))

\* Can rendering this element run into an error?
Faulty[e \in Element, inBoundary \in BOOLEAN] ==
  CASE Kind(e) = "thrower" -> TRUE
    [] Kind(e) = "component" ->
         \/ Shape[e].data # None /\ (Shape[e].data \in FailingData \/ ~inBoundary)
         \/ Shape[e].kid # None /\ Faulty[Shape[e].kid, inBoundary]
    [] Kind(e) \in {"text", "consumer", "reader"} -> FALSE
    [] OTHER -> \E i \in DOMAIN Shape[e].kids :
                  Faulty[Shape[e].kids[i], inBoundary \/ Kind(e) = "suspense"]

Healthy == { q \in Request : ~Faulty[Root[q], FALSE] }

\* Whatever goes wrong in another request, one whose own components and data are
\* in order comes to an end.
HealthyRequestsSettle == <>(\A q \in Healthy : Settled(q))

Stream == INSTANCE MarkupStream
            WITH promised <- [q \in Request |->
                                [markup |-> Expected[q],
                                 ends |-> {"done"} \cup (IF q \in Healthy THEN {} ELSE {"failed"})]],
                 status <- [q \in Request |-> requests[q].status],
                 delivered <- [q \in Request |-> requests[q].delivered]

\* The renderer keeps the promise of the API: each request is given the markup
\* that the synchronous renderer would produce, a stream in whole outermost
\* boundaries, and one that cannot fail comes to its end.
ImplementsMarkupStream == Stream!FairSpec
=============================================================================
