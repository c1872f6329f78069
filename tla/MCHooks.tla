------------------------------ MODULE MCHooks ------------------------------
(* Components that set state while they are rendered, fail, suspend or call *)
(* renderToString, in any order.                                            *)
EXTENDS Hooks, TLC

CONSTANTS
  counter,     \* two updates of one state in the first call, one in the second
  pair,        \* two states, a memo and a ref; updates of both, interleaved
  failing,     \* throws with a hook in use
  suspending,  \* sets state and throws, but not when it is called again
  stubborn,    \* sets state and throws each time it is called
  endless,     \* sets state each time
  forwarded,   \* a forwardRef component that sets state
  broken,      \* a forwardRef component that throws
  page,        \* calls renderToString for pair, and for failing
  widget       \* has a state, calls renderToString, sets the state and reads another

MCComponent == { counter, pair, failing, suspending, stubborn, endless, forwarded,
                 broken, page, widget }

MCBody == [ c \in MCComponent |->
  CASE c = counter ->
         << UseState(0), Dispatch(1, 0, 1), Dispatch(1, 0, 2), Dispatch(1, 4, 3) >>
    [] c = pair ->
         << UseState(1), UseRef(7), UseState(2), UseMemo(1), Dispatch(1, 1, 1),
            Dispatch(3, 2, 3), Dispatch(1, 1, 2), Dispatch(3, 7, 1) >>
    [] c = failing    -> << UseState(3), ThrowIf(1, Null) >>
    [] c = suspending -> << UseState(0), Dispatch(1, 0, 1), ThrowIf(1, 0) >>
    [] c = stubborn   -> << UseState(5), UseRef(6), Dispatch(1, Null, 0), ThrowIf(1, Null) >>
    [] c = endless    -> << UseState(0), Dispatch(1, Null, 1) >>
    [] c = forwarded  -> << UseState(2), Dispatch(1, 2, 2), UseMemo(1) >>
    [] c = broken     -> << UseState(4), ThrowIf(1, Null) >>
    [] c = page       -> << Render(pair, FALSE), Render(failing, TRUE), Render(failing, FALSE) >>
    [] c = widget     -> << UseState(6), Render(counter, TRUE), Dispatch(1, 6, 1), UseState(0) >> ]

MCForwardRefs == {forwarded, broken}

\* A component that fails in its second call, and one that does not.
Escaping == {stubborn, counter}
=============================================================================
