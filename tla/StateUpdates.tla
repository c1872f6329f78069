---------------------------- MODULE StateUpdates ----------------------------
(***************************************************************************)
(* What the update queues and the work loop are for: the state that a      *)
(* component shows is what some of its updates make of the initial one, in *)
(* the order in which they were made.  Which of them depends on priorities *)
(* and on the host; in the end it is all of them.                          *)
(***************************************************************************)
EXTENDS SequencesExt

CONSTANTS Update, Node, Target, Noops, Replacing

VARIABLES
  made,     \* [Node -> Seq(Update)], in the order in which they were made
  shown     \* [Node -> state], that of the tree on the screen

Applied(state, u) ==
  CASE u \in Noops     -> state
    [] u \in Replacing -> <<u>>
    [] OTHER           -> Append(state, u)

\* What some updates make of the initial state.
Result(updates, some) ==
  LET after[i \in 0 .. Len(updates)] ==
        IF i = 0 THEN <<>>
        ELSE IF updates[i] \in some THEN Applied(after[i - 1], updates[i]) ELSE after[i - 1]
  IN  after[Len(updates)]

Init ==
  /\ made  = [n \in Node |-> <<>>]
  /\ shown = [n \in Node |-> <<>>]

Make(u) ==
  /\ u \notin Range(made[Target[u]])
  /\ made' = [made EXCEPT ![Target[u]] = Append(@, u)]
  /\ UNCHANGED shown

Commit ==
  /\ UNCHANGED made
  /\ shown' = [n \in Node |-> shown'[n]]
  /\ \A n \in Node : \E some \in SUBSET Range(made[n]) : shown'[n] = Result(made[n], some)

Next == Commit \/ \E u \in Update : Make(u)

AllShown == \A n \in Node : shown[n] = Result(made[n], Range(made[n]))

Spec == Init /\ [][Next]_<<made, shown>> /\ <>[]AllShown
=============================================================================
