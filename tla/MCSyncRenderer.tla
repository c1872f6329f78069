--------------------------- MODULE MCSyncRenderer ---------------------------
(* Trees for the synchronous renderer: fallbacks in fallbacks, around and in *)
(* providers and selects, and components that call renderToString.           *)
EXTENDS SyncRenderer

CONSTANTS
  q1, q2, q3, q4, q5, c1, d1, d2, default, one, two,
  page, user, outer, nested, other, async1, async2, who, footer,
  form, choice, options, menu, option, asyncOption, none, lonely,
  site, widget, panel, plugin, broken, brokenInner, thrower, reader, host,
  strict, feed, helper, crash, asyncRoot

MCElement ==
  { default, one, two, page, user, outer, nested, other, async1, async2, who, footer,
    form, choice, options, menu, option, asyncOption, none, lonely,
    site, widget, panel, plugin, broken, brokenInner, thrower, reader, host,
    strict, feed, helper, crash, asyncRoot }

MCShape == [ e \in MCElement |->
  CASE e \in {default, one, two} -> Text
    \* <page><user 1><Suspense fallback={<><who/>1</>}>1
    \*   <Suspense fallback={<Async2/>}><other 2><who/><Async1/></other></Suspense>
    \*   <Async1/></Suspense>2<who/></user></page>
    [] e = page     -> Host(<<user>>)
    [] e = user     -> Provider(c1, one, <<outer, two, who>>)
    [] e = outer    -> Boundary(<<who, footer>>, <<one, nested, async1>>)
    [] e = nested    -> Boundary(<<async2>>, <<other>>)
    [] e = other    -> Provider(c1, two, <<who, async1>>)
    [] e = async1   -> Component(d1, two)
    [] e = async2   -> Component(d2, host)
    [] e = who      -> Consumer(c1)
    [] e = host     -> Host(<<>>)
    [] e = footer   -> Boundary(<<>>, <<one>>)
    \* A select around a boundary, and a boundary around a select: the option
    \* of the fallback is selected in the first only.
    [] e = form     -> Fragment(<<choice, menu, none, two, two>>)
    [] e = choice   -> Select(one, <<options>>)
    [] e = options  -> Boundary(<<option>>, <<asyncOption, option>>)
    [] e = menu     -> Boundary(<<option>>, <<lonely>>)
    [] e = lonely   -> Select(one, <<option, asyncOption>>)
    [] e = option   -> Option(one)
    [] e = asyncOption -> Component(d1, option)
    [] e = none     -> Component(None, None)
    \* <site 1><Panel/><Reader/></site>, where Panel and Plugin render trees of
    \* their own with renderToString
    [] e = site     -> Provider(c1, one, <<panel, reader>>)
    [] e = panel    -> Nested(widget, TRUE, reader)
    [] e = widget   -> Provider(c1, two, <<plugin, who, reader>>)
    [] e = plugin   -> Nested(broken, TRUE, None)
    [] e = broken   -> Provider(c1, one, <<who, brokenInner>>)
    [] e = brokenInner -> Provider(c1, two, <<who, thrower>>)
    [] e = thrower  -> Thrower
    [] e = strict   -> Provider(c1, two, <<host, reader, helper, who, crash>>)
    [] e = feed     -> Provider(c1, two, <<host, who, reader, host>>)
    [] e = helper   -> Nested(asyncRoot, TRUE, host)
    [] e = crash    -> Nested(broken, FALSE, None)
    [] e = asyncRoot -> Provider(c1, one, <<reader, async1>>)
    [] e = reader   -> Reader(c1) ]

MCContext == {c1}
MCDefault == [c \in MCContext |-> default]

\* Fallbacks in the first group, nested calls in the second; either is refused a
\* thread ID at times.
MCRequest == {q1, q2, q3, q4, q5}
MCGroups  == {{q1, q2, q3}, {q3, q4, q5}}
MCRoot    == (q1 :> page) @@ (q2 :> form) @@ (q3 :> feed) @@ (q4 :> site) @@ (q5 :> strict)
=============================================================================
