-------------------------- MODULE PartialRenderer --------------------------
(***************************************************************************)
(* ReactDOMServerRenderer as far as both server renderers share it: the    *)
(* state of a renderer, what render() makes of one child, how a finished   *)
(* frame is left, and how providers are pushed, popped and cleared.  The   *)
(* loops around it are in SyncRenderer (read) and AsyncRenderer            *)
(* (readAsync).                                                            *)
(*                                                                         *)
(* An operator that stands for a method of the class takes the renderer    *)
(* and returns the renderer after it, with the markup where there is some. *)
(***************************************************************************)
EXTENDS Markup, ThreadIDFreeList

VARIABLES
  freeList,    \* nextAvailableThreadIDs
  slot,        \* [Context -> Seq(Element)]: context[0], context[1], ...
  data         \* [Data -> "idle", "pending", "ready" or "failed"]

Frame(kind, kids, footer) ==
  [kind |-> kind, rest |-> kids, footer |-> footer, fallback |-> <<>>]

PushFrame(renderer, frame) == [renderer EXCEPT !.stack = Append(@, frame)]

\* The constructor; allocThreadID is AfterAlloc(freeList) in the action.
NewRenderer(e, isStatic) ==
  [ threadID |-> AllocatedID(freeList), stack |-> <<Frame("root", TopLevel(e), <<>>)>>,
    exhausted |-> FALSE, select |-> None, afterText |-> FALSE, static |-> isStatic,
    depth |-> 0, providers |-> 0, contextStack |-> <<>>, contextValueStack |-> <<>> ]
-----------------------------------------------------------------------------
\* validateContextBounds: slots up to `id' exist and start as the default.
Bounded(c, id) ==
  [i \in 1 .. (IF Len(slot[c]) > id THEN Len(slot[c]) ELSE id + 1) |->
     IF i <= Len(slot[c]) THEN slot[c][i] ELSE Default[c]]

\* context[id], once it is known to be there.
ValueOf(c, id) == Bounded(c, id)[id + 1]

\* pushProvider: what the slot holds is remembered before it is overwritten.
ProviderPushed(renderer, c) ==
  LET n == renderer.providers + 1
      Store(stack, x) == IF n > Len(stack) THEN Append(stack, x) ELSE [stack EXCEPT ![n] = x]
  IN  [renderer EXCEPT !.providers = n, !.contextStack = Store(@, c),
                       !.contextValueStack = Store(@, ValueOf(c, renderer.threadID))]

SlotProvided(renderer, c, value) ==
  [slot EXCEPT ![c] = [Bounded(c, renderer.threadID) EXCEPT ![renderer.threadID + 1] = value]]

\* popProvider
ProviderPopped(renderer) ==
  LET n == renderer.providers
  IN  [renderer EXCEPT !.providers = n - 1, !.contextStack[n] = None,
                       !.contextValueStack[n] = None]

SlotRestored(renderer) ==
  LET n == renderer.providers
  IN  [slot EXCEPT ![renderer.contextStack[n]][renderer.threadID + 1] =
                     renderer.contextValueStack[n]]

\* Mutants: destroy() leaves the providers as they are; the innermost provider
\* decides what is restored.
ClearedNothing(renderer) == slot
ClearedInnermost(renderer) ==
  [c \in Context |->
     LET mine == { i \in 1 .. renderer.providers : renderer.contextStack[i] = c }
     IN  IF mine = {} THEN slot[c]
         ELSE [slot[c] EXCEPT ![renderer.threadID + 1] =
                 renderer.contextValueStack[CHOOSE i \in mine : \A j \in mine : i >= j]]]

\* clearProviders: from the innermost provider out, so the outermost one of a
\* context decides what is restored.
Cleared(renderer) ==
  [c \in Context |->
     LET mine == { i \in 1 .. renderer.providers : renderer.contextStack[i] = c }
     IN  IF mine = {} THEN slot[c]
         ELSE [slot[c] EXCEPT ![renderer.threadID + 1] =
                 renderer.contextValueStack[CHOOSE i \in mine : \A j \in mine : i <= j]]]
-----------------------------------------------------------------------------
\* resolve(): components are called until an element is left that is none.  A
\* component whose data is missing throws a promise.
Resolved(e) ==
  LET Awaits(x, statuses) == Shape[x].data # None /\ data[Shape[x].data] \in statuses
      Throws(x)   == Kind(x) = "thrower" \/ (Kind(x) = "component" /\ Awaits(x, {"failed"}))
      Suspends(x) == Kind(x) = "component" /\ Awaits(x, {"idle", "pending"})
      Returns(x)  == Kind(x) = "component" /\ ~Awaits(x, {"idle", "pending", "failed"})
      Over(x) ==
        CASE Throws(x)   -> [is |-> "error", of |-> None]
          [] Suspends(x) -> [is |-> "promise", of |-> Shape[x].data]
          [] Returns(x)  -> [is |-> "null", of |-> None]
          [] OTHER       -> [is |-> "element", of |-> x]
      call[x \in Element] ==
        IF Returns(x) /\ Shape[x].kid # None THEN call[Shape[x].kid] ELSE Over(x)
  IN  call[e]

\* render() of one child: the renderer after it, and the markup it returns.
Result(renderer, markup) == [renderer |-> renderer, markup |-> markup]

TextRendered(renderer, e) ==
  Result([renderer EXCEPT !.afterText = IF renderer.static THEN @ ELSE TRUE],
         TextMarkup(e, renderer.afterText /\ ~renderer.static))

\* renderDOM
HostRendered(renderer, e, isRoot) ==
  Result([PushFrame(renderer, Frame(Kind(e), Shape[e].kids, <<CloseTag(e)>>))
            EXCEPT !.afterText = FALSE, !.select = SelectIn(e, @)],
         <<OpenTag(e, isRoot, IsSelected(e, renderer.select))>>)

\* A fragment, or a component that returned a text.
FragmentRendered(renderer, e) ==
  Result(PushFrame(renderer,
           Frame("fragment", IF Kind(e) = "text" THEN <<e>> ELSE Shape[e].kids, <<>>)), <<>>)

\* The value a context has under thread ID `id'.
ContextRendered(renderer, e, id) ==
  Result(PushFrame(renderer, Frame("consumer", <<ValueOf(Shape[e].context, id)>>, <<>>)), <<>>)

ProviderRendered(renderer, e) ==
  Result(ProviderPushed(PushFrame(renderer, Frame("provider", Shape[e].kids, <<>>)),
                        Shape[e].context), <<>>)

SuspenseFrame(e) ==
  [Frame("suspense", Shape[e].kids, <<CloseBoundary>>) EXCEPT !.fallback = Shape[e].fallback]

SuspenseRendered(renderer, e) ==
  Result([PushFrame(renderer, SuspenseFrame(e)) EXCEPT !.depth = @ + 1], <<OpenBoundary>>)

\* The innermost frame has no more children: what both loops do about it.
FrameLeft(renderer) ==
  LET frame == Last(renderer.stack)
  IN  [renderer EXCEPT !.stack = Front(@),
                       !.afterText = @ /\ frame.footer = <<>>,
                       !.select = IF frame.kind = "select" THEN None ELSE @]
-----------------------------------------------------------------------------
\* A renderer agrees with the frames, boundaries and providers it is in.
ShapeOK(renderer) ==
  /\ renderer.threadID \in IDs(freeList)
  /\ renderer.depth = Cardinality({ i \in DOMAIN renderer.stack :
                                      renderer.stack[i].kind = "suspense" })
  /\ renderer.providers \in 0 .. Len(renderer.contextStack)
  /\ Len(renderer.contextStack) = Len(renderer.contextValueStack)
  /\ \A i \in 1 .. Len(renderer.contextStack) :
       IF i <= renderer.providers
         THEN Len(slot[renderer.contextStack[i]]) > renderer.threadID
         ELSE renderer.contextStack[i] = None
=============================================================================
