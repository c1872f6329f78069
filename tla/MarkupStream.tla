---------------------------- MODULE MarkupStream ----------------------------
(***************************************************************************)
(* What a caller of the server renderers is promised: the whole markup of  *)
(* its tree, in order and, if it reads a stream, in whole outermost        *)
(* boundaries, then the end; or an error, or silence after the caller has  *)
(* destroyed the stream.  A string arrives in one piece.                   *)
(***************************************************************************)
EXTENDS Integers, FiniteSets, SequencesExt

CONSTANTS
  Request,
  Streams       \* the requests that deliver piece by piece

VARIABLES
  promised,     \* of each request: its markup, and how it may end: "done", "failed"
  status,       \* "absent" if it is never made, "new", "active", "done", "failed" or "destroyed"
  delivered     \* the markup delivered so far

vars == <<promised, status, delivered>>

Init ==
  /\ status \in [Request -> {"absent", "new"}]
  /\ delivered = [q \in Request |-> <<>>]

Begin(q) ==
  /\ status[q] = "new"
  /\ status' = [status EXCEPT ![q] = "active"]
  /\ UNCHANGED <<promised, delivered>>

Opens  == {"<!--$-->", "<!--$!-->"}
Closes == {"<!--/$-->"}
Among(markup, i, n, comments) == Cardinality({ j \in i .. n : markup[j][1] \in comments })

\* The place after n tokens is not inside of a boundary's content: none that was
\* opened before is still open.  A fallback, once it is being rendered, may
\* arrive in pieces.
Outside(markup, n) ==
  \A i \in 1 .. n : markup[i][1] = "<!--$-->" =>
    \E j \in i .. n : Among(markup, i, j, Opens) = Among(markup, i, j, Closes)

Deliver(q) ==
  /\ status[q] = "active" /\ q \in Streams
  /\ \E n \in Len(delivered[q]) + 1 .. Len(promised[q].markup) :
       /\ Outside(promised[q].markup, n)
       /\ delivered' = [delivered EXCEPT ![q] = SubSeq(promised[q].markup, 1, n)]
  /\ UNCHANGED <<promised, status>>

End(q) ==
  /\ status[q] = "active" /\ "done" \in promised[q].ends
  /\ q \in Streams => delivered[q] = promised[q].markup
  /\ delivered' = [delivered EXCEPT ![q] = promised[q].markup]
  /\ status' = [status EXCEPT ![q] = "done"]
  /\ UNCHANGED promised

\* There may be no room for another request; one that has begun fails only if
\* its tree may.
Fail(q) ==
  /\ status[q] = "new" \/ (status[q] = "active" /\ "failed" \in promised[q].ends)
  /\ status' = [status EXCEPT ![q] = "failed"]
  /\ UNCHANGED <<promised, delivered>>

Destroyed(q) ==
  /\ status[q] = "active" /\ q \in Streams
  /\ status' = [status EXCEPT ![q] = "destroyed"]
  /\ UNCHANGED <<promised, delivered>>

Next == \E q \in Request :
          Begin(q) \/ Deliver(q) \/ End(q) \/ Fail(q) \/ Destroyed(q)

Spec == Init /\ [][Next]_vars

\* A request that can end in one way only does so, unless it is refused or destroyed.
Progress(q) ==
  promised[q].ends \in {{"done"}, {"failed"}} /\ (Begin(q) \/ Deliver(q) \/ End(q) \/ Fail(q))

FairSpec == Spec /\ \A q \in Request : WF_vars(Progress(q))
=============================================================================
