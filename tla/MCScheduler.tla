----------------------------- MODULE MCScheduler -----------------------------
(* Three tasks: the first is delayed by one tick and expires late, the second *)
(* by two ticks and expires at its start, and the third starts expired and    *)
(* returns a continuation once.                                               *)
EXTENDS Scheduler

MCTimeout       == <<2, 0, -1>>
MCDelay         == <<1, 2, 0>>
MCContinuations == <<0, 0, 1>>

\* The heap alone, on all sequences of five keys: a first task that is popped then
\* leaves a node with two children.
HeapSorts == tasks = <<>> => SortsAll([1 .. 5 -> 1 .. 3])
=============================================================================
