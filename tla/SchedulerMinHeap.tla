-------------------------- MODULE SchedulerMinHeap --------------------------
(***************************************************************************)
(* SchedulerMinHeap.js: a binary heap in an array.  Nodes are task IDs,    *)
(* ordered by their sort index and then by the ID itself.  The array of    *)
(* the source starts at 0 and a sequence at 1, so the parent of i is       *)
(* i \div 2 and its children are 2i and 2i + 1.                            *)
(*                                                                         *)
(* A sift is a loop over [heap, at], where `at' is the index that the sifted*)
(* node has reached.                                                       *)
(***************************************************************************)
EXTENDS Integers, SequencesExt

\* compare(a, b) < 0
Less(sortIndex, a, b) ==
  \/ sortIndex[a] < sortIndex[b]
  \/ sortIndex[a] = sortIndex[b] /\ a < b

Peek(heap) == IF heap = <<>> THEN 0 ELSE heap[1]

\* The nodes at i and j change places, and the sifted one is at j now.
SwappedWith(sift, j) ==
  [ heap |-> [sift.heap EXCEPT ![sift.at] = sift.heap[j], ![j] = sift.heap[sift.at]],
    at   |-> j ]

Sift == { sift \in [heap : Seq(Nat), at : Nat] : sift.at \in DOMAIN sift.heap }

SiftUp(sortIndex, heap) ==
  LET up[sift \in Sift] ==
        LET parent == sift.at \div 2
        IN  IF parent # 0 /\ Less(sortIndex, sift.heap[sift.at], sift.heap[parent])
              THEN up[SwappedWith(sift, parent)] ELSE sift.heap
  IN  up[[heap |-> heap, at |-> Len(heap)]]

\* Mutant: the child to swap with is the left one whenever it is smaller.
SmallerChildLeft(sortIndex, sift) ==
  LET left  == 2 * sift.at
      right == left + 1
      Smaller(i) == i <= Len(sift.heap) /\ Less(sortIndex, sift.heap[i], sift.heap[sift.at])
  IN  IF Smaller(left) THEN left ELSE IF Smaller(right) THEN right ELSE 0

\* The child that is smaller than the sifted node, and than its sibling; 0 if none.
SmallerChild(sortIndex, sift) ==
  LET left  == 2 * sift.at
      right == left + 1
      Smaller(i, j) == i <= Len(sift.heap) /\ Less(sortIndex, sift.heap[i], sift.heap[j])
  IN  CASE Smaller(left, sift.at)  -> IF Smaller(right, left) THEN right ELSE left
        [] ~Smaller(left, sift.at) -> IF Smaller(right, sift.at) THEN right ELSE 0

SiftDown(sortIndex, heap) ==
  LET down[sift \in Sift] ==
        LET child == SmallerChild(sortIndex, sift)
        IN  IF child = 0 THEN sift.heap ELSE down[SwappedWith(sift, child)]
  IN  down[[heap |-> heap, at |-> 1]]

Push(sortIndex, heap, node) == SiftUp(sortIndex, Append(heap, node))

\* The last node takes the first one's place.
Pop(sortIndex, heap) ==
  IF Len(heap) <= 1 THEN <<>>
  ELSE SiftDown(sortIndex, [Front(heap) EXCEPT ![1] = Last(heap)])
-----------------------------------------------------------------------------
\* No node is less than its parent.
Ordered(sortIndex, heap) ==
  \A i \in DOMAIN heap : i > 1 => ~Less(sortIndex, heap[i], heap[i \div 2])

Filled(sortIndex) ==
  FoldLeft(LAMBDA heap, node : Push(sortIndex, heap, node), <<>>,
           [node \in DOMAIN sortIndex |-> node])

\* The nodes in the order in which the heap gives them up.
Drained(sortIndex) ==
  LET drain[heap \in Seq(Nat)] ==
        IF heap = <<>> THEN <<>> ELSE <<Peek(heap)>> \o drain[Pop(sortIndex, heap)]
  IN  drain[Filled(sortIndex)]

\* Pushed in any order and popped, nodes come out by sort index and, among equals,
\* in the order of their IDs, each of them once.
SortsAll(sortIndexes) ==
  \A sortIndex \in sortIndexes :
    LET nodes == Drained(sortIndex)
    IN  /\ Len(nodes) = Len(sortIndex)
        /\ \A i, j \in DOMAIN nodes : i < j => Less(sortIndex, nodes[i], nodes[j])
=============================================================================
