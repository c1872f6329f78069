--------------------------- MODULE MCAsyncFaults ---------------------------
(* Small trees in which something goes wrong, and the healthy requests next *)
(* to them; the configurations choose who renders what.                     *)
EXTENDS AsyncRequests

CONSTANTS
  q1, q2, q3, q4, q5, q6, q7, q8, q9, c1, c2, d1, d2, d3, default, one, two,
  page, user, inside, host, who, thrower, early, lonely, async2,
  aside, bad, boundary, suspender, card, textual, feed, asyncWho, data1, board,
  shared, quiet

MCElement == { default, one, two, page, user, inside, host, who, thrower, early,
               lonely, async2, aside, bad, boundary, suspender, card, textual,
               feed, asyncWho, data1, board, shared, quiet }

MCShape == [ e \in MCElement |->
  CASE e \in {default, one, two} -> Text
    \* <user 1><host/><user 2><Consumer/>{child}</user></user>
    [] e = page      -> Provider(c1, one, <<host, user, host>>)
    [] e = user      -> Provider(c1, two, <<who, thrower>>)
    [] e = thrower   -> Thrower
    [] e = host      -> Host(<<>>)
    [] e = who       -> Consumer(c1)
    \* an error inside a boundary, and a component that suspends outside of one
    [] e = early     -> Provider(c1, one, <<inside, lonely>>)
    [] e = inside    -> Boundary(<<>>, <<who>>)
    [] e = lonely    -> Component(d1, host)
    [] e = card      -> Provider(c2, two, <<host, data1>>)
    [] e = data1     -> Provider(c1, two, <<who, host>>)
    \* suspended components whose data, or whose subtree, fails
    [] e = boundary  -> Host(<<suspender>>)
    [] e = suspender -> Boundary(<<>>, <<textual, aside>>)
    [] e = aside     -> Boundary(<<>>, <<async2>>)
    [] e = async2    -> Component(d2, data1)
    [] e = feed      -> Fragment(<<host, aside>>)
    [] e = bad       -> Boundary(<<>>, <<textual>>)
    [] e = textual   -> Component(d3, user)
    \* a suspended component inside of a provider, and a provider of the same
    \* context that is rendered in more than one turn
    [] e = shared    -> Provider(c1, one, <<quiet>>)
    [] e = quiet     -> Boundary(<<>>, <<asyncWho>>)
    [] e = asyncWho  -> Component(d1, host)
    [] e = board     -> Provider(c1, two, <<host, who>>) ]

MCContext == {c1, c2}
MCDefault == [c \in MCContext |-> default]

\* Errors and refusals where nobody suspends, and failing data next to a healthy
\* stream; then the requests of the runs that end in a counterexample.
MCRequest == {q1, q2, q3, q4, q5, q6, q7, q8, q9}
MCRoot    == (q1 :> page) @@ (q2 :> early) @@ (q3 :> card) @@ (q4 :> suspender)
             @@ (q5 :> feed) @@ (q6 :> boundary) @@ (q7 :> bad) @@ (q8 :> shared)
             @@ (q9 :> board)
=============================================================================
