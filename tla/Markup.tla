------------------------------- MODULE Markup -------------------------------
(***************************************************************************)
(* Elements and the markup they render to.  A tree is data: Shape gives    *)
(* each element its kind and what that kind needs.  Markup is a sequence   *)
(* of tokens (a tag, a text, a comment), so a "byte" is a token.           *)
(*                                                                         *)
(* MarkupOf is the reference: the markup that a tree stands for, given the *)
(* data that is missing.  The synchronous renderer is compared with it when *)
(* it reads in chunks, unwinds to fallbacks and calls itself, the           *)
(* asynchronous one when it assembles the markup piece by piece and out of *)
(* order, with nothing missing in the end.                                  *)
(***************************************************************************)
EXTENDS Integers, SequencesExt

CONSTANTS
  Element,   \* the elements of all trees; the values of contexts are texts
  Shape,     \* [Element -> one of the shapes below]
  Context,   \* the contexts made by createContext
  Default,   \* [Context -> Element]: their default values
  Data,      \* what components may wait for
  None       \* null: no element, no context, no select value

Text               == [kind |-> "text"]
Host(kids)         == [kind |-> "host", kids |-> kids]
Select(v, kids)    == [kind |-> "select", value |-> v, kids |-> kids]
Option(v)          == [kind |-> "option", value |-> v, kids |-> <<>>]
Fragment(kids)     == [kind |-> "fragment", kids |-> kids]
Boundary(fallback, kids) ==
  [kind |-> "suspense", fallback |-> fallback, kids |-> kids]
Provider(c, v, kids) ==
  [kind |-> "provider", context |-> c, value |-> v, kids |-> kids]
Consumer(c)        == [kind |-> "consumer", context |-> c]
\* A component that returns `kid' (None for null) once its data, if any, is there.
Component(d, kid)  == [kind |-> "component", data |-> d, kid |-> kid]
Thrower            == [kind |-> "thrower"]
\* A component that reads a context itself and returns the value.
Reader(c)          == [kind |-> "reader", context |-> c]
\* A component that calls renderToString for `inner', and catches its errors or
\* not, before it returns `kid'.
Nested(inner, catches, kid) ==
  [kind |-> "nested", inner |-> inner, catches |-> catches, kid |-> kid]

Kind(e) == Shape[e].kind
IsHost(e) == Kind(e) \in {"host", "select", "option"}

ContextValues == [Context -> Element]

Components == { e \in Element : Kind(e) = "component" }

\* Trees are made of elements, and components that return components come to an end.
ASSUME MarkupAssumption ==
  /\ Default \in ContextValues
  /\ \A e \in Element :
       /\ Kind(e) \in {"host", "select", "option", "fragment", "suspense", "provider"}
            => Shape[e].kids \in Seq(Element)
       /\ Kind(e) = "suspense" => Shape[e].fallback \in Seq(Element)
       /\ Kind(e) = "provider" => Shape[e].value \in Element
       /\ Kind(e) \in {"provider", "consumer", "reader"} => Shape[e].context \in Context
       /\ Kind(e) \in {"component", "nested"} => Shape[e].kid \in Element \cup {None}
       /\ Kind(e) = "nested" => Shape[e].inner \in Element
  /\ \E rank \in [Components -> 0 .. Cardinality(Components)] :
       \A e \in Components :
         Shape[e].kid \in Components => rank[Shape[e].kid] < rank[e]

OpenTag(e, isRoot, selected) == <<"open", e, isRoot, selected>>
CloseTag(e)   == <<"close", e>>
TextToken(e)  == <<"text", e>>
Separator     == <<"<!-- -->">>
OpenBoundary  == <<"<!--$-->">>
OpenFallback  == <<"<!--$!-->">>
CloseBoundary == <<"<!--/$-->">>

\* flattenTopLevelChildren
TopLevel(e) == IF Kind(e) = "fragment" THEN Shape[e].kids ELSE <<e>>

\* An option is selected when it has the value of the select around it.
IsSelected(e, select) == Kind(e) = "option" /\ select # None /\ Shape[e].value = select

\* The select value that the children of host element `e' see.
SelectIn(e, select) == IF Kind(e) = "select" THEN Shape[e].value ELSE select

TextMarkup(e, afterText) ==
  IF afterText THEN <<Separator, TextToken(e)>> ELSE <<TextToken(e)>>
-----------------------------------------------------------------------------
\* The markup of element e, whether it leaves a text behind that a text after it
\* must be separated from, and whether rendering it ends well, in a suspended
\* component that no boundary inside of e takes care of, or in an error.
Rendered[ e \in Element, afterText \in BOOLEAN, select \in Element \cup {None},
          ctx \in ContextValues, isRoot \in BOOLEAN, missing \in SUBSET Data ] ==
  LET shape == Shape[e]
      Done(markup, after) == [markup |-> markup, afterText |-> after, ends |-> "ok"]
      Ends(how) == [markup |-> <<>>, afterText |-> FALSE, ends |-> how]
      One(kid, after) == Rendered[kid, after, select, ctx, isRoot, missing]
      All(kids, after, sel, values, root) ==
        FoldLeft(LAMBDA acc, kid :
                   IF acc.ends # "ok" THEN acc
                   ELSE LET r == Rendered[kid, acc.afterText, sel, values, root, missing]
                        IN  [r EXCEPT !.markup = acc.markup \o @],
                 Done(<<>>, after), kids)
      Wrapped(open, inner, close) ==
        [ markup |-> <<open>> \o inner.markup
                     \o IF inner.ends = "ok" THEN <<close>> ELSE <<>>,
          afterText |-> FALSE, ends |-> inner.ends ]
  IN  CASE Kind(e) = "text" -> Done(TextMarkup(e, afterText), TRUE)
        [] IsHost(e) ->
             Wrapped(OpenTag(e, isRoot, IsSelected(e, select)),
                     All(shape.kids, FALSE, SelectIn(e, select), ctx, FALSE), CloseTag(e))
        [] Kind(e) = "fragment" -> All(shape.kids, afterText, select, ctx, FALSE)
        [] Kind(e) = "provider" ->
             All(shape.kids, afterText, select,
                 [ctx EXCEPT ![shape.context] = shape.value], FALSE)
        [] Kind(e) \in {"consumer", "reader"} -> One(ctx[shape.context], afterText)
        [] Kind(e) = "component" ->
             IF shape.data \in missing THEN Ends("suspended")
             ELSE IF shape.kid = None THEN Done(<<>>, afterText)
             ELSE One(shape.kid, afterText)
        [] Kind(e) = "nested" ->
             IF ~shape.catches
                /\ All(TopLevel(shape.inner), FALSE, None, Default, TRUE).ends # "ok"
               THEN Ends("error")
             ELSE IF shape.kid = None THEN Done(<<>>, afterText)
             ELSE One(shape.kid, afterText)
        [] Kind(e) = "suspense" ->
             LET inner == All(shape.kids, afterText, select, ctx, FALSE)
             IN  IF inner.ends = "suspended"
                   THEN Wrapped(OpenFallback,
                                All(shape.fallback, FALSE, select, ctx, FALSE), CloseBoundary)
                   ELSE Wrapped(OpenBoundary, inner, CloseBoundary)
        [] OTHER -> Ends("error")

\* What a whole tree renders to.
Rendering(e, missing) ==
  FoldLeft(LAMBDA acc, kid :
             IF acc.ends # "ok" THEN acc
             ELSE LET r == Rendered[kid, acc.afterText, None, Default, TRUE, missing]
                  IN  [r EXCEPT !.markup = acc.markup \o @],
           [markup |-> <<>>, afterText |-> FALSE, ends |-> "ok"], TopLevel(e))

MarkupOf(e, missing) == Rendering(e, missing).markup

\* The same with renderToStaticMarkup: no separators, no root attribute.
StaticMarkupOf(e, missing) ==
  LET Plain(t) == IF t[1] = "open" THEN OpenTag(t[2], FALSE, t[4]) ELSE t
      kept     == SelectSeq(MarkupOf(e, missing), LAMBDA t : t # Separator)
  IN  [i \in DOMAIN kept |-> Plain(kept[i])]
=============================================================================
