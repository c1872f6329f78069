---------------------------- MODULE MCAsyncOrder ----------------------------
(* Two renderToString requests whose trees suspend inside providers, inside *)
(* nested boundaries, inside a select and inside a suspended component; or  *)
(* a stream with two outermost boundaries, the first of which suspends in a *)
(* boundary inside it, next to a static string that never suspends.  The    *)
(* consumer may destroy the stream at any time.                             *)
EXTENDS AsyncRequests

CONSTANTS
  q1, q2, q3, q4, c1, d1, d2, default, one, two,
  page, user, boundary, async1, who1, nested, async2, who2, end,
  form, choice, options, async3, option, none,
  article, title, first, async4, within, para, gap, second, author, async5, whom, foot,
  card

MCElement == { default, one, two, page, user, boundary, async1, who1, nested,
               async2, who2, end, form, choice, options, async3, option, none,
               article, title, first, async4, within, para, gap, second, author,
               async5, whom, foot, card }

\* <page><user 1><Suspense><Async1><Consumer/></Async1>
\*   <Suspense><user 2><Async2/></user></Suspense></Suspense><Consumer/></user></page>
MCShape == [ e \in MCElement |->
  CASE e \in {default, one, two, title, foot} -> Text
    [] e = page     -> Host(<<user>>)
    [] e = user     -> Provider(c1, one, <<boundary, end>>)
    [] e = boundary -> Boundary(<<end>>, <<async1, nested>>)
    [] e = async1   -> Component(d1, who1)
    [] e = who1     -> Provider(c1, two, <<async2, end>>)
    [] e = nested    -> Boundary(<<>>, <<async2>>)
    [] e = async2   -> Component(d2, who2)
    [] e = who2     -> Host(<<end>>)
    [] e = end      -> Consumer(c1)
    [] e = form     -> Fragment(<<choice, none>>)
    [] e = choice   -> Select(one, <<options>>)
    [] e = options  -> Boundary(<<>>, <<async3, option>>)
    [] e = async3   -> Component(d1, option)
    [] e = option   -> Option(one)
    [] e = none     -> Component(None, None)
    \* <article>title<Suspense><Async4><Suspense><p/></Suspense></Async4></Suspense><><p/></>
    \*   <Suspense><author 1><Async5><Reader/></Async5></author></Suspense>foot</article>
    [] e = article   -> Host(<<title, first, gap, second, foot>>)
    [] e = first  -> Boundary(<<foot>>, <<async4>>)
    [] e = async4 -> Component(d1, within)
    [] e = within -> Boundary(<<>>, <<para>>)
    [] e = para   -> Host(<<>>)
    [] e = gap    -> Fragment(<<para>>)
    [] e = second -> Boundary(<<>>, <<author>>)
    [] e = author   -> Provider(c1, one, <<async5>>)
    [] e = async5 -> Component(d2, whom)
    [] e = whom    -> Reader(c1)
    [] e = card   -> Provider(c1, two, <<para, title, whom>>) ]

MCContext == {c1}
MCDefault == [c \in MCContext |-> default]
MCRequest == {q1, q2, q3, q4}
MCGroups  == {{q1, q2}, {q3, q4}}
MCRoot    == (q1 :> page) @@ (q2 :> form) @@ (q3 :> article) @@ (q4 :> card)
=============================================================================
