-------------------------- MODULE SchedulerProofs --------------------------
(***************************************************************************)
(* Theorems about the scheduler, for any tasks, delays, timeouts,          *)
(* continuations, limits of the clock and lengths of a frame, in a browser *)
(* and without a DOM:                                                      *)
(*                                                                         *)
(* - its queues are heaps of the right tasks at all times (TypesHold);     *)
(* - it and its host agree on whether the host will call, so that no task  *)
(*   is forgotten (FlagIsServed, WakeupsAreNotLost);                       *)
(* - it calls the most urgent task that has started and does not give the  *)
(*   thread back while an expired one waits (SchedulerImplementsTaskPool,  *)
(*   ExpiredTasksAreCalled).                                               *)
(*                                                                         *)
(* Section 1 is about the heap as an array, 2 about the host, 3 about the  *)
(* queues as data, 4 and 5 about the steps of the scheduler, 6 and 7 have  *)
(* the theorems that rest on all of them.                                  *)
(***************************************************************************)
EXTENDS Scheduler, DataLemmas

-----------------------------------------------------------------------------
(***************************************************************************)
(* 1. The heap: what push, pop and peek make of an array of nodes that is  *)
(* a heap, and what the loops of siftUp and siftDown keep.                 *)
(***************************************************************************)
\* The nodes of a heap have keys, and none of them is in it twice.
Keyed(sortIndex, heap) == \A a \in Range(heap) : sortIndex[a] \in Int
IsHeap(heap) == heap \in Seq(Nat) /\ IsInjective(heap)

LEMMA HalfProperties ==
  \A i \in Nat : i > 1 => i \div 2 \in 1 .. i - 1 /\ (2 * (i \div 2) = i \/ 2 * (i \div 2) + 1 = i)
OBVIOUS

LEMMA HalfOfOne == 1 \div 2 = 0
OBVIOUS

\* Which nodes are each other's parent and children.
LEMMA Children ==
  ASSUME NEW i \in Nat, i > 1, NEW k \in Nat
  PROVE  i \div 2 = k <=> i = 2 * k \/ i = 2 * k + 1
OBVIOUS

\* Keys and IDs order nodes that are not the same.
LEMMA LessIsOrder ==
  ASSUME NEW keys, NEW a \in Nat, NEW b \in Nat, NEW c \in Nat,
         keys[a] \in Int, keys[b] \in Int, keys[c] \in Int
  PROVE  /\ ~Less(keys, a, a)
         /\ Less(keys, a, b) => ~Less(keys, b, a)
         /\ ~Less(keys, a, b) /\ ~Less(keys, b, c) => ~Less(keys, a, c)
BY DEF Less

LEMMA SwapKeeps ==
  ASSUME NEW sift \in Sift, NEW j \in DOMAIN sift.heap
  PROVE  LET other == SwappedWith(sift, j)
             h == sift.heap  g == other.heap
         IN  /\ other \in Sift /\ other.at = j /\ Len(g) = Len(h) /\ DOMAIN g = DOMAIN h
             /\ \A i \in DOMAIN h : g[i] = IF i = j THEN h[sift.at]
                                           ELSE IF i = sift.at THEN h[j] ELSE h[i]
             /\ Range(g) = Range(h)
             /\ IsInjective(h) => IsInjective(g)
<1> DEFINE h == sift.heap
           k == sift.at
           g == [h EXCEPT ![k] = h[j], ![j] = h[k]]
<1>1. /\ h \in Seq(Nat) /\ k \in Nat /\ k \in DOMAIN h /\ j \in DOMAIN h
      /\ DOMAIN h = 1 .. Len(h) /\ Len(h) \in Nat
  BY DEF Sift
<1>2. h[k] \in Nat /\ h[j] \in Nat /\ j \in Nat
  BY <1>1, SMTT(60)
<1>3. SwappedWith(sift, j) = [heap |-> g, at |-> j]
  BY DEF SwappedWith
<1> HIDE DEF h, k
<1>4. /\ g \in Seq(Nat) /\ Len(g) = Len(h) /\ DOMAIN g = DOMAIN h
      /\ \A i \in DOMAIN h : g[i] = IF i = j THEN h[k] ELSE IF i = k THEN h[j] ELSE h[i]
  BY <1>1, <1>2
<1> HIDE DEF g
<1>5. Range(g) = Range(h)
  <2>1. ASSUME NEW x \in Range(g) PROVE x \in Range(h)
    <3>1. PICK i \in DOMAIN h : x = g[i]
      BY <1>4, <2>1 DEF Range
    <3>2. x = h[i] \/ x = h[k] \/ x = h[j]
      BY <1>4, <3>1
    <3> QED BY <1>1, <3>2, <3>1 DEF Range
  <2>2. ASSUME NEW x \in Range(h) PROVE x \in Range(g)
    <3>1. PICK i \in DOMAIN h : x = h[i]
      BY <2>2 DEF Range
    <3>2. x = g[i] \/ x = g[k] \/ x = g[j]
      BY <1>1, <1>4, <3>1
    <3> QED BY <1>1, <1>4, <3>2, <3>1 DEF Range
  <2> QED BY <2>1, <2>2
<1>6. IsInjective(h) => IsInjective(g)
  BY <1>1, <1>4 DEF IsInjective
<1>7. [heap |-> g, at |-> j] \in Sift
  BY <1>1, <1>2, <1>4 DEF Sift
<1> QED BY <1>3, <1>4, <1>5, <1>6, <1>7 DEF h, k
-----------------------------------------------------------------------------
\* The nodes are in order but for the one that moves up ...
OrderedAbove(keys, h, k) ==
  /\ \A i \in DOMAIN h : i > 1 /\ i # k => ~Less(keys, h[i], h[i \div 2])
  /\ \A i \in DOMAIN h : i > 1 /\ i \div 2 = k /\ k > 1 => ~Less(keys, h[i], h[k \div 2])

\* ... or down.
OrderedBelow(keys, h, k) ==
  /\ \A i \in DOMAIN h : i > 1 /\ i \div 2 # k => ~Less(keys, h[i], h[i \div 2])
  /\ \A i \in DOMAIN h : i > 1 /\ i \div 2 = k /\ k > 1 => ~Less(keys, h[i], h[k \div 2])

LEMMA StepUp ==
  ASSUME NEW keys, NEW sift \in Sift, sift.at > 1, Keyed(keys, sift.heap),
         Less(keys, sift.heap[sift.at], sift.heap[sift.at \div 2]),
         OrderedAbove(keys, sift.heap, sift.at)
  PROVE  LET other == SwappedWith(sift, sift.at \div 2)
         IN  OrderedAbove(keys, other.heap, other.at)
<1> DEFINE h == sift.heap
           k == sift.at
           p == k \div 2
           g == SwappedWith(sift, p).heap
<1>1. /\ h \in Seq(Nat) /\ DOMAIN h = 1 .. Len(h) /\ Len(h) \in Nat /\ k \in DOMAIN h /\ k \in Nat
  BY DEF Sift
<1>2. p \in DOMAIN h /\ p < k /\ p \in Nat /\ p = k \div 2 /\ k > 1
  BY <1>1, HalfProperties
<1>3. /\ SwappedWith(sift, p).at = p /\ DOMAIN g = DOMAIN h
      /\ \A i \in DOMAIN h : g[i] = IF i = p THEN h[k] ELSE IF i = k THEN h[p] ELSE h[i]
  BY <1>2, SwapKeeps
<1>4. \A i \in DOMAIN h : h[i] \in Nat /\ keys[h[i]] \in Int
  BY <1>1, SMTT(60) DEF Keyed, Range
<1>5. Less(keys, h[k], h[p]) /\ OrderedAbove(keys, h, k)
  OBVIOUS
<1> HIDE DEF g
<1>6. \A i \in DOMAIN h : i > 1 => i \div 2 \in DOMAIN h /\ i \div 2 < i /\ i \in Nat
  BY <1>1, HalfProperties, SMTT(60)
<1> HIDE DEF h, k, p
<1>7. ASSUME NEW i \in DOMAIN h, i > 1, i # p
      PROVE  ~Less(keys, g[i], g[i \div 2])
  <2>1. CASE i = k
    <3>1. g[i] = h[p] /\ i \div 2 = p
      BY <2>1, <1>2, <1>3, <1>7
    <3>2. g[p] = h[k]
      BY <1>2, <1>3
    <3> QED BY <3>1, <3>2, <1>4, <1>5, LessIsOrder, <1>1, <1>2
  <2>2. CASE i # k /\ i \div 2 = k
    <3>1. g[i] = h[i] /\ g[i \div 2] = h[p] /\ k > 1
      BY <2>2, <1>2, <1>3, <1>6, <1>7
    <3>2. ~Less(keys, h[i], h[k \div 2])
      BY <1>5, <1>7, <2>2, <3>1 DEF OrderedAbove
    <3> QED BY <3>1, <3>2, <1>2, <2>2
  <2>3. CASE i # k /\ i \div 2 = p
    <3>1. g[i] = h[i] /\ g[i \div 2] = h[k]
      BY <2>3, <1>2, <1>3, <1>6, <1>7
    <3>2. ~Less(keys, h[i], h[p])
      BY <1>2, <1>5, <1>7, <2>3 DEF OrderedAbove
    <3>3. ~Less(keys, h[p], h[k])
      BY <1>5, <1>4, LessIsOrder, <1>1, <1>2
    <3> QED BY <3>1, <3>2, <3>3, <1>4, LessIsOrder, <1>1, <1>2
  <2>4. CASE i # k /\ i \div 2 # k /\ i \div 2 # p
    <3>1. g[i] = h[i] /\ g[i \div 2] = h[i \div 2]
      BY <2>4, <1>3, <1>6, <1>7
    <3> QED BY <3>1, <1>5, <1>7, <2>4 DEF OrderedAbove
  <2> QED BY <2>1, <2>2, <2>3, <2>4
<1>8. ASSUME NEW i \in DOMAIN h, i > 1, i \div 2 = p, p > 1
      PROVE  ~Less(keys, g[i], g[p \div 2])
  <2>1. p \div 2 \in DOMAIN h /\ p \div 2 < p
    BY <1>2, <1>6, <1>8
  <2>2. g[p \div 2] = h[p \div 2] /\ i # p
    BY <2>1, <1>2, <1>3, <1>6, <1>8
  <2>3. ~Less(keys, h[p], h[p \div 2])
    BY <1>2, <1>5, <1>8 DEF OrderedAbove
  <2>4. CASE i = k
    BY <2>2, <2>3, <2>4, <1>3, <1>2
  <2>5. CASE i # k
    <3>1. g[i] = h[i] /\ ~Less(keys, h[i], h[p])
      BY <1>3, <1>5, <1>8, <2>2, <2>5 DEF OrderedAbove
    <3> QED BY <3>1, <2>1, <2>2, <2>3, <1>2, <1>4, LessIsOrder
  <2> QED BY <2>4, <2>5
<1>9. OrderedAbove(keys, g, p)
  BY <1>3, <1>7, <1>8 DEF OrderedAbove
<1> QED BY <1>3, <1>9 DEF g, h, k, p

\* The child that is chosen is less than its parent, and not greater than its sibling.
LEMMA ChildChosen ==
  ASSUME NEW keys, NEW sift, SmallerChild(keys, sift) # 0
  PROVE  LET left == 2 * sift.at
             right == 2 * sift.at + 1
             Smaller(i, j) == i <= Len(sift.heap) /\ Less(keys, sift.heap[i], sift.heap[j])
             child == SmallerChild(keys, sift)
         IN  \/ child = left /\ Smaller(left, sift.at) /\ ~Smaller(right, left)
             \/ child = right /\ Smaller(left, sift.at) /\ Smaller(right, left)
             \/ child = right /\ ~Smaller(left, sift.at) /\ Smaller(right, sift.at)
BY DEF SmallerChild

LEMMA NoChildChosen ==
  ASSUME NEW keys, NEW sift, sift.at \in Nat, sift.at >= 1, SmallerChild(keys, sift) = 0
  PROVE  \A i \in {2 * sift.at, 2 * sift.at + 1} :
           ~(i <= Len(sift.heap) /\ Less(keys, sift.heap[i], sift.heap[sift.at]))
BY DEF SmallerChild

LEMMA StepDown ==
  ASSUME NEW keys, NEW sift \in Sift, Keyed(keys, sift.heap),
         OrderedBelow(keys, sift.heap, sift.at),
         SmallerChild(keys, sift) # 0
  PROVE  LET child == SmallerChild(keys, sift)
             other == SwappedWith(sift, child)
         IN  /\ child \in DOMAIN sift.heap /\ child > sift.at
             /\ OrderedBelow(keys, other.heap, other.at)
<1> DEFINE h == sift.heap
           k == sift.at
           c == SmallerChild(keys, sift)
           g == SwappedWith(sift, c).heap
<1>1. /\ h \in Seq(Nat) /\ DOMAIN h = 1 .. Len(h) /\ Len(h) \in Nat /\ k \in DOMAIN h /\ k \in Nat
      /\ k >= 1
  BY DEF Sift
<1>2. \A i \in DOMAIN h : h[i] \in Nat /\ keys[h[i]] \in Int
  BY <1>1 DEF Keyed, Range
<1>3. /\ c \in {2 * k, 2 * k + 1} /\ c <= Len(h)
      /\ Less(keys, h[c], h[k])
      /\ \A i \in {2 * k, 2 * k + 1} : i <= Len(h) => ~Less(keys, h[i], h[c])
  <2> DEFINE left == 2 * k
             right == 2 * k + 1
  <2> HIDE DEF h, k, c
  <2>1. /\ left \in Nat /\ right \in Nat /\ left >= 1 /\ right >= 1
        /\ right <= Len(h) => left <= Len(h)
        /\ \A i \in {left, right} : i <= Len(h) => i \in DOMAIN h
    BY <1>1
  <2> DEFINE Smaller(i, j) == i <= Len(h) /\ Less(keys, h[i], h[j])
  <2>2. \/ c = left /\ Smaller(left, k) /\ ~Smaller(right, left)
        \/ c = right /\ Smaller(left, k) /\ Smaller(right, left)
        \/ c = right /\ ~Smaller(left, k) /\ Smaller(right, k)
    BY ChildChosen DEF h, k, c, left, right
  <2> HIDE DEF left, right
  <2>3. \A i \in {left, right, k} : i <= Len(h) => h[i] \in Nat /\ keys[h[i]] \in Int
    BY <1>1, <1>2, <2>1
  <2>4. k <= Len(h)
    BY <1>1
  <2>5. c \in {left, right} /\ c <= Len(h)
    BY <2>1, <2>2
  <2>6. Less(keys, h[c], h[k])
    BY <2>2, <2>3, <2>4 DEF Less
  <2>7. right <= Len(h) => ~Less(keys, h[right], h[c])
    BY <2>1, <2>2, <2>3, <2>5 DEF Less
  <2>8. left <= Len(h) => ~Less(keys, h[left], h[c])
    BY <2>1, <2>2, <2>3, <2>4, <2>5 DEF Less
  <2> QED BY <2>5, <2>6, <2>7, <2>8 DEF left, right
<1> HIDE DEF c
<1>4. c \in DOMAIN h /\ c > k /\ c > 1 /\ c \div 2 = k /\ c \in Nat
  <2> HIDE DEF h, k
  <2>1. c \in DOMAIN h /\ c > k /\ c > 1 /\ c \in Nat
    BY <1>1, <1>3
  <2>2. c \div 2 = k <=> c = 2 * k \/ c = 2 * k + 1
    BY <1>1, <2>1, Children
  <2> QED BY <1>3, <2>1, <2>2
<1>5. /\ SwappedWith(sift, c).at = c /\ DOMAIN g = DOMAIN h
      /\ \A i \in DOMAIN h : g[i] = IF i = c THEN h[k] ELSE IF i = k THEN h[c] ELSE h[i]
  BY <1>4, SwapKeeps
<1>6. OrderedBelow(keys, h, k)
  OBVIOUS
<1> HIDE DEF g
<1>7. \A i \in DOMAIN h : i > 1 => i \div 2 \in DOMAIN h /\ i \div 2 < i /\ i \in Nat
  BY <1>1, HalfProperties
<1>8. \A i \in DOMAIN h : i > 1 /\ i \div 2 = k => i \in {2 * k, 2 * k + 1} /\ i <= Len(h)
  <2> HIDE DEF h, k
  <2> SUFFICES ASSUME NEW i \in DOMAIN h, i > 1, i \div 2 = k
               PROVE  i \in {2 * k, 2 * k + 1} /\ i <= Len(h)
    OBVIOUS
  <2>1. i \in Nat /\ i <= Len(h)
    BY <1>1
  <2>2. i \div 2 = k <=> i = 2 * k \/ i = 2 * k + 1
    BY <2>1, <1>1, Children
  <2> QED BY <2>1, <2>2
<1> HIDE DEF h, k
<1>9. ASSUME NEW i \in DOMAIN h, i > 1, i \div 2 # c
      PROVE  ~Less(keys, g[i], g[i \div 2])
  <2>1. CASE i = c
    <3>1. g[i] = h[k] /\ g[k] = h[c] /\ i \div 2 = k
      BY <2>1, <1>1, <1>4, <1>5
    <3> QED BY <3>1, <1>1, <1>2, <1>3, <1>4, LessIsOrder
  <2>2. CASE i # c /\ i \div 2 = k
    <3>1. i # k
      BY <1>7, <1>9, <2>2
    <3>2. g[i] = h[i] /\ g[k] = h[c]
      BY <2>2, <3>1, <1>1, <1>4, <1>5
    <3>3. ~Less(keys, h[i], h[c])
      BY <2>2, <1>3, <1>8, <1>9
    <3> QED BY <3>2, <3>3, <2>2
  <2>3. CASE i = k
    <3>1. i \div 2 # k /\ i \div 2 \in DOMAIN h /\ k > 1 /\ i # c
      BY <2>3, <1>4, <1>7, <1>9
    <3>2. g[i] = h[c] /\ g[i \div 2] = h[i \div 2]
      BY <2>3, <3>1, <1>5, <1>9
    <3>3. ~Less(keys, h[c], h[k \div 2])
      BY <3>1, <1>4, <1>6 DEF OrderedBelow
    <3> QED BY <3>2, <3>3, <2>3
  <2>4. CASE i # c /\ i # k /\ i \div 2 # k
    <3>1. g[i] = h[i] /\ g[i \div 2] = h[i \div 2]
      BY <2>4, <1>5, <1>7, <1>9
    <3> QED BY <3>1, <1>6, <1>9, <2>4 DEF OrderedBelow
  <2> QED BY <2>1, <2>2, <2>3, <2>4
<1>10. ASSUME NEW i \in DOMAIN h, i > 1, i \div 2 = c
       PROVE  ~Less(keys, g[i], g[c \div 2])
  <2>1. i # c /\ i # k /\ i \div 2 # k
    BY <1>4, <1>7, <1>10, <1>1
  <2>2. g[i] = h[i] /\ g[c \div 2] = h[c]
    BY <2>1, <1>1, <1>4, <1>5
  <2>3. ~Less(keys, h[i], h[i \div 2])
    BY <1>6, <1>10, <2>1 DEF OrderedBelow
  <2> QED BY <2>2, <2>3, <1>10
<1>11. OrderedBelow(keys, g, c)
  BY <1>5, <1>9, <1>10 DEF OrderedBelow
<1> QED BY <1>4, <1>5, <1>11 DEF g, h, k, c

-----------------------------------------------------------------------------
\* A heap with the same nodes.
SameNodes(h, g) == /\ h \in Seq(Nat) /\ Len(h) = Len(g) /\ Range(h) = Range(g)
                   /\ IsInjective(g) => IsInjective(h)

\* The loop of siftUp, as a loop.
LEMMA SiftUpEnds ==
  ASSUME NEW keys, NEW heap \in Seq(Nat), heap # <<>>
  PROVE  /\ SameNodes(SiftUp(keys, heap), heap)
         /\ Keyed(keys, heap) /\ OrderedAbove(keys, heap, Len(heap))
              => Ordered(keys, SiftUp(keys, heap))
<1> DEFINE parent(sift) == sift.at \div 2
           goesOn(sift) == parent(sift) # 0 /\ Less(keys, sift.heap[sift.at], sift.heap[parent(sift)])
           up == CHOOSE f : f = [sift \in Sift |-> IF goesOn(sift) THEN f[SwappedWith(sift, parent(sift))]
                                                  ELSE sift.heap]
           again == { sift \in Sift : goesOn(sift) }
           next == [sift \in Sift |-> SwappedWith(sift, parent(sift))]
           out == [sift \in Sift |-> sift.heap]
           size == [sift \in Sift |-> sift.at]
           start == [heap |-> heap, at |-> Len(heap)]
<1>1. SiftUp(keys, heap) = up[start]
  BY DEF SiftUp
<1>2. ASSUME NEW sift \in Sift, goesOn(sift)
      PROVE  /\ sift.at > 1 /\ parent(sift) \in DOMAIN sift.heap /\ parent(sift) < sift.at
  <2>1. /\ sift.heap \in Seq(Nat) /\ sift.at \in Nat /\ sift.at \in 1 .. Len(sift.heap)
        /\ DOMAIN sift.heap = 1 .. Len(sift.heap) /\ Len(sift.heap) \in Nat
    BY DEF Sift
  <2>2. sift.at # 1
    BY <1>2, HalfOfOne
  <2> QED BY <2>1, <2>2, HalfProperties
<1>3. Decreases(Sift, again, next, size)
  <2>1. \A sift \in Sift : sift.at \in Nat
    BY DEF Sift
  <2>2. ASSUME NEW sift \in again PROVE next[sift] \in Sift /\ size[next[sift]] < size[sift]
    BY <1>2, SwapKeeps
  <2> QED BY <2>1, <2>2 DEF Decreases
<1>4. \A f : IsLoop(f, Sift, again, next, out) <=>
             f = [sift \in Sift |-> IF goesOn(sift) THEN f[SwappedWith(sift, parent(sift))] ELSE sift.heap]
  <2> SUFFICES ASSUME NEW f
               PROVE  [x \in Sift |-> IF x \in again THEN f[next[x]] ELSE out[x]]
                        = [sift \in Sift |-> IF goesOn(sift) THEN f[SwappedWith(sift, parent(sift))]
                                            ELSE sift.heap]
    BY DEF IsLoop
  <2> HIDE DEF parent
  <2> QED OBVIOUS
<1>5. IsLoop(up, Sift, again, next, out)
  <2>1. \E f : IsLoop(f, Sift, again, next, out)
    <3> HIDE DEF again, next, out, size
    <3> QED BY <1>3, LoopEnds
  <2> HIDE DEF again, next, out, goesOn
  <2> QED BY <2>1, <1>4
<1>6. start \in Sift
  BY DEF Sift
<1> HIDE DEF up
<1>7. SameNodes(up[start], heap)
  <2> DEFINE good == { sift \in Sift : SameNodes(sift.heap, heap) }
             results == { h \in Seq(Nat) : SameNodes(h, heap) }
  <2>1. \A x \in good : x \in again => next[x] \in good
    BY <1>2, SwapKeeps, ZenonT(60) DEF SameNodes, Sift
  <2>2. \A x \in good : x \notin again => out[x] \in results
    BY DEF SameNodes
  <2>3. start \in good
    BY <1>6 DEF SameNodes
  <2>4. \A x \in good : up[x] \in results
    <3>1. good \subseteq Sift
      OBVIOUS
    <3> HIDE DEF good, results, again, next, out, size
    <3>2. Keeps(good, results, Sift, again, next, out)
      BY <3>1, <2>1, <2>2 DEF Keeps
    <3> QED BY <3>2, <1>3, <1>5, LoopKeeps
  <2> QED BY <2>3, <2>4
<1>8. ASSUME Keyed(keys, heap), OrderedAbove(keys, heap, Len(heap))
      PROVE  Ordered(keys, up[start])
  <2> DEFINE good == { sift \in Sift : /\ Keyed(keys, sift.heap)
                                       /\ OrderedAbove(keys, sift.heap, sift.at) }
             results == { h \in Seq(Nat) : Ordered(keys, h) }
  <2>1. ASSUME NEW x \in good, x \in again PROVE next[x] \in good
    BY <2>1, <1>2, SwapKeeps, StepUp DEF Keyed
  <2>2. ASSUME NEW x \in good, x \notin again PROVE out[x] \in results
    <3>1. x.heap \in Seq(Nat) /\ out[x] = x.heap /\ x.at \in Nat
      BY DEF Sift
    <3>2. \A i \in DOMAIN x.heap : i \in Nat /\ (i > 1 => i \div 2 # 0)
      BY <3>1, HalfProperties
    <3>3. ~goesOn(x) /\ OrderedAbove(keys, x.heap, x.at)
      BY <2>2
    <3>4. Ordered(keys, x.heap)
      BY <3>2, <3>3 DEF Ordered, OrderedAbove
    <3> QED BY <3>1, <3>4
  <2>3. start \in good
    BY <1>6, <1>8
  <2>4. \A x \in good : up[x] \in results
    <3>1. good \subseteq Sift
      OBVIOUS
    <3> HIDE DEF good, results, again, next, out, size
    <3>2. Keeps(good, results, Sift, again, next, out)
      BY <3>1, <2>1, <2>2 DEF Keeps
    <3> QED BY <3>2, <1>3, <1>5, LoopKeeps
  <2> QED BY <2>3, <2>4
<1> QED BY <1>1, <1>7, <1>8

\* The loop of siftDown.
LEMMA SiftDownEnds ==
  ASSUME NEW keys, NEW heap \in Seq(Nat), heap # <<>>
  PROVE  /\ SameNodes(SiftDown(keys, heap), heap)
         /\ Keyed(keys, heap) /\ OrderedBelow(keys, heap, 1)
              => Ordered(keys, SiftDown(keys, heap))
<1> DEFINE child(sift) == SmallerChild(keys, sift)
           goesOn(sift) == child(sift) # 0
           down == CHOOSE f : f = [sift \in Sift |-> IF child(sift) = 0 THEN sift.heap
                                                    ELSE f[SwappedWith(sift, child(sift))]]
           again == { sift \in Sift : child(sift) # 0 }
           next == [sift \in Sift |-> SwappedWith(sift, child(sift))]
           out == [sift \in Sift |-> sift.heap]
           size == [sift \in Sift |-> Len(sift.heap) - sift.at]
           start == [heap |-> heap, at |-> 1]
<1>1. SiftDown(keys, heap) = down[start]
  BY DEF SiftDown
<1>2. ASSUME NEW sift \in Sift, child(sift) # 0
      PROVE  child(sift) \in DOMAIN sift.heap /\ child(sift) > sift.at
  <2> DEFINE c == SmallerChild(keys, sift)
  <2>1. /\ sift.at \in Nat /\ sift.at >= 1 /\ DOMAIN sift.heap = 1 .. Len(sift.heap)
        /\ Len(sift.heap) \in Nat
    BY DEF Sift
  <2>2. c \in {2 * sift.at, 2 * sift.at + 1} /\ c <= Len(sift.heap)
    BY <1>2, ChildChosen
  <2> HIDE DEF c
  <2>3. c \in DOMAIN sift.heap /\ c > sift.at
    BY <2>1, <2>2
  <2> QED BY <2>3 DEF c
<1>3. Decreases(Sift, again, next, size)
  <2>1. ASSUME NEW sift \in Sift PROVE size[sift] \in Nat
    BY DEF Sift
  <2>2. ASSUME NEW sift \in again PROVE next[sift] \in Sift /\ size[next[sift]] < size[sift]
    <3> DEFINE c == SmallerChild(keys, sift)
               other == SwappedWith(sift, c)
    <3>1. c \in DOMAIN sift.heap /\ c > sift.at
      BY <1>2
    <3> HIDE DEF c
    <3>2. other \in Sift /\ other.at = c /\ Len(other.heap) = Len(sift.heap)
      BY <3>1, SwapKeeps
    <3>3. /\ c \in Nat /\ c <= Len(sift.heap) /\ sift.at \in Nat /\ Len(sift.heap) \in Nat
      BY <3>1 DEF Sift
    <3>4. next[sift] = other
      BY DEF c
    <3> HIDE DEF other, next
    <3>5. size[other] = Len(sift.heap) - c /\ size[sift] = Len(sift.heap) - sift.at
      BY <3>2
    <3> QED BY <3>1, <3>2, <3>3, <3>4, <3>5
  <2> QED BY <2>1, <2>2 DEF Decreases
<1>4. \A f : IsLoop(f, Sift, again, next, out) <=>
             f = [sift \in Sift |-> IF child(sift) = 0 THEN sift.heap
                                   ELSE f[SwappedWith(sift, child(sift))]]
  <2> SUFFICES ASSUME NEW f
               PROVE  [x \in Sift |-> IF x \in again THEN f[next[x]] ELSE out[x]]
                        = [sift \in Sift |-> IF child(sift) = 0 THEN sift.heap
                                            ELSE f[SwappedWith(sift, child(sift))]]
    BY DEF IsLoop
  <2> HIDE DEF child
  <2> QED OBVIOUS
<1>5. IsLoop(down, Sift, again, next, out)
  <2>1. \E f : IsLoop(f, Sift, again, next, out)
    <3> HIDE DEF again, next, out, size
    <3> QED BY <1>3, LoopEnds
  <2> HIDE DEF again, next, out, child
  <2> QED BY <2>1, <1>4
<1>6. start \in Sift
  <2>1. 1 \in DOMAIN heap
    OBVIOUS
  <2> QED BY <2>1 DEF Sift
<1> HIDE DEF down
<1> DEFINE kept == Keyed(keys, heap) /\ OrderedBelow(keys, heap, 1)
           good == { sift \in Sift : /\ SameNodes(sift.heap, heap)
                                     /\ kept => OrderedBelow(keys, sift.heap, sift.at) }
           results == { h \in Seq(Nat) : SameNodes(h, heap) /\ (kept => Ordered(keys, h)) }
<1>7. ASSUME NEW x \in good, x \in again PROVE next[x] \in good
  <2>1. kept => Keyed(keys, x.heap)
    BY DEF SameNodes, Keyed
  <2>2. kept => OrderedBelow(keys, next[x].heap, next[x].at)
    BY <1>7, <2>1, StepDown
  <2>3. next[x] \in Sift /\ SameNodes(next[x].heap, heap)
    BY <1>2, <1>7, SwapKeeps DEF SameNodes, Sift
  <2> QED BY <2>2, <2>3
<1>8. ASSUME NEW x \in good, x \notin again PROVE out[x] \in results
  <2>1. x.heap \in Seq(Nat) /\ out[x] = x.heap /\ x.at \in Nat /\ x.at \in DOMAIN x.heap
    BY DEF Sift
  <2>2. \A i \in DOMAIN x.heap : i \in Nat /\ i <= Len(x.heap)
    BY <2>1
  <2>3. SmallerChild(keys, x) = 0 /\ (kept => OrderedBelow(keys, x.heap, x.at))
    BY <1>8
  <2>4. ASSUME NEW i \in DOMAIN x.heap, i > 1, i \div 2 = x.at
        PROVE  ~Less(keys, x.heap[i], x.heap[x.at])
    <3>1. i \in {2 * x.at, 2 * x.at + 1} /\ i <= Len(x.heap)
      <4>1. i \div 2 = x.at <=> i = 2 * x.at \/ i = 2 * x.at + 1
        BY <2>1, <2>2, <2>4, Children
      <4> QED BY <2>2, <2>4, <4>1
    <3>2. ~(2 * x.at <= Len(x.heap) /\ Less(keys, x.heap[2 * x.at], x.heap[x.at]))
      BY <2>1, <2>3, NoChildChosen
    <3>3. ~(2 * x.at + 1 <= Len(x.heap) /\ Less(keys, x.heap[2 * x.at + 1], x.heap[x.at]))
      BY <2>1, <2>3, NoChildChosen
    <3> QED BY <3>1, <3>2, <3>3
  <2>5. kept => Ordered(keys, x.heap)
    BY <2>2, <2>3, <2>4 DEF Ordered, OrderedBelow
  <2>6. SameNodes(x.heap, heap)
    OBVIOUS
  <2> QED BY <2>1, <2>5, <2>6
<1>9. start \in good
  BY <1>6 DEF SameNodes
<1>10. \A x \in good : down[x] \in results
  <2>1. good \subseteq Sift
    OBVIOUS
  <2> HIDE DEF good, results, again, next, out, size
  <2>2. Keeps(good, results, Sift, again, next, out)
    BY <2>1, <1>7, <1>8 DEF Keeps
  <2> QED BY <2>2, <1>3, <1>5, LoopKeeps
<1> QED BY <1>1, <1>9, <1>10
-----------------------------------------------------------------------------
\* push: the new node goes to its place among the others.
Pushed(after, keys, heap, node) ==
  /\ after \in Seq(Nat) /\ Len(after) = Len(heap) + 1
  /\ Range(after) = Range(heap) \cup {node}
  /\ node \notin Range(heap) /\ IsInjective(heap) => IsInjective(after)
  /\ Keyed(keys, heap) /\ keys[node] \in Int /\ Ordered(keys, heap) => Ordered(keys, after)

LEMMA PushProperties ==
  ASSUME NEW keys, NEW heap \in Seq(Nat), NEW node \in Nat
  PROVE  Pushed(Push(keys, heap, node), keys, heap, node)
<1> DEFINE longer == Append(heap, node)
<1>1. /\ longer \in Seq(Nat) /\ Len(longer) = Len(heap) + 1 /\ longer # <<>>
      /\ DOMAIN longer = 1 .. Len(heap) + 1 /\ longer[Len(heap) + 1] = node
      /\ \A i \in 1 .. Len(heap) : longer[i] = heap[i]
      /\ Len(heap) \in Nat /\ DOMAIN heap = 1 .. Len(heap)
  OBVIOUS
<1>2. Push(keys, heap, node) = SiftUp(keys, longer)
  BY DEF Push
<1> HIDE DEF longer
<1>3. Range(longer) = Range(heap) \cup {node}
  <2>1. \A x \in Range(longer) : x \in Range(heap) \cup {node}
    BY <1>1 DEF Range
  <2>2. \A x \in Range(heap) : x \in Range(longer)
    BY <1>1 DEF Range
  <2>3. node \in Range(longer)
    BY <1>1 DEF Range
  <2> QED BY <2>1, <2>2, <2>3
<1>4. node \notin Range(heap) /\ IsInjective(heap) => IsInjective(longer)
  BY <1>1, SMTT(60) DEF Range, IsInjective
<1>5. ASSUME Keyed(keys, heap), keys[node] \in Int, Ordered(keys, heap)
      PROVE  Keyed(keys, longer) /\ OrderedAbove(keys, longer, Len(longer))
  <2>1. Keyed(keys, longer)
    BY <1>3, <1>5 DEF Keyed
  <2>2. ASSUME NEW i \in DOMAIN longer, i > 1, i # Len(longer)
        PROVE  ~Less(keys, longer[i], longer[i \div 2])
    <3>1. i \in DOMAIN heap /\ i \div 2 \in DOMAIN heap
      BY <1>1, <2>2, HalfProperties
    <3>2. ~Less(keys, heap[i], heap[i \div 2])
      BY <1>5, <2>2, <3>1 DEF Ordered
    <3> QED BY <1>1, <3>1, <3>2
  <2>3. \A i \in DOMAIN longer : i > 1 => i \div 2 # Len(longer)
    BY <1>1, HalfProperties
  <2> QED BY <2>1, <2>2, <2>3 DEF OrderedAbove
<1>6. /\ SameNodes(SiftUp(keys, longer), longer)
      /\ Keyed(keys, longer) /\ OrderedAbove(keys, longer, Len(longer))
           => Ordered(keys, SiftUp(keys, longer))
  BY <1>1, SiftUpEnds
<1> QED BY <1>1, <1>2, <1>3, <1>4, <1>5, <1>6 DEF SameNodes, Pushed

LastMovedFirst(heap) == [Front(heap) EXCEPT ![1] = Last(heap)]

LEMMA LastMoves ==
  ASSUME NEW heap \in Seq(Nat), Len(heap) > 1
  PROVE  LET n == Len(heap)
             moved == LastMovedFirst(heap)
         IN  /\ moved \in Seq(Nat) /\ Len(moved) = n - 1 /\ DOMAIN moved = 1 .. n - 1
             /\ \A i \in 1 .. n - 1 : moved[i] = IF i = 1 THEN heap[n] ELSE heap[i]
<1> DEFINE n == Len(heap)
           front == Front(heap)
           last == Last(heap)
<1>1. /\ front \in Seq(Nat) /\ Len(front) = n - 1 /\ n - 1 \in Nat /\ n - 1 >= 1
      /\ \A i \in 1 .. n - 1 : front[i] = heap[i]
  BY DEF Front
<1>2. last = heap[n] /\ last \in Nat
  BY DEF Last
<1>3. LastMovedFirst(heap) = [front EXCEPT ![1] = last]
  BY DEF LastMovedFirst
<1> HIDE DEF n, front, last
<1>4. DOMAIN front = 1 .. n - 1 /\ 1 \in DOMAIN front
  BY <1>1
<1>5. /\ [front EXCEPT ![1] = last] \in Seq(Nat)
      /\ Len([front EXCEPT ![1] = last]) = n - 1
  BY <1>1, <1>2, <1>4
<1> QED BY <1>1, <1>2, <1>3, <1>4, <1>5 DEF n

\* pop of any heap, in order or not.
LEMMA PopShortens ==
  ASSUME NEW keys, NEW heap \in Seq(Nat), heap # <<>>
  PROVE  Pop(keys, heap) \in Seq(Nat) /\ Len(Pop(keys, heap)) = Len(heap) - 1
<1>1. Len(heap) \in Nat /\ Len(heap) >= 1
  OBVIOUS
<1>2. CASE Len(heap) = 1
  <2>1. Pop(keys, heap) = <<>>
    BY <1>2 DEF Pop
  <2>2. <<>> \in Seq(Nat) /\ Len(<<>>) = 0
    OBVIOUS
  <2> QED BY <1>2, <2>1, <2>2
<1>3. CASE Len(heap) > 1
  <2> DEFINE moved == LastMovedFirst(heap)
  <2>1. Pop(keys, heap) = SiftDown(keys, moved)
    BY <1>1, <1>3 DEF Pop, LastMovedFirst
  <2>2. moved \in Seq(Nat) /\ Len(moved) = Len(heap) - 1
    <3> HIDE DEF moved
    <3> QED BY <1>3, LastMoves DEF moved
  <2> HIDE DEF moved
  <2>3. moved # <<>>
    BY <2>2, <1>1, <1>3
  <2>4. SameNodes(SiftDown(keys, moved), moved)
    BY <2>2, <2>3, SiftDownEnds
  <2> QED BY <2>1, <2>2, <2>4 DEF SameNodes
<1>4. Len(heap) = 1 \/ Len(heap) > 1
  <2> DEFINE n == Len(heap)
  <2>1. n \in Nat /\ n >= 1
    BY <1>1
  <2> HIDE DEF n
  <2> SUFFICES n = 1 \/ n > 1
    BY DEF n
  <2> QED BY <2>1
<1> QED BY <1>2, <1>3, <1>4

\* pop: the first node is gone.
LEMMA PopProperties ==
  ASSUME NEW keys, NEW heap, IsHeap(heap), heap # <<>>, Keyed(keys, heap), Ordered(keys, heap)
  PROVE  LET after == Pop(keys, heap)
         IN  /\ IsHeap(after) /\ Len(after) = Len(heap) - 1
             /\ Range(after) = Range(heap) \ {heap[1]}
             /\ Ordered(keys, after)
<1>1. /\ heap \in Seq(Nat) /\ IsInjective(heap) /\ DOMAIN heap = 1 .. Len(heap)
      /\ Len(heap) \in Nat /\ Len(heap) >= 1
  BY DEF IsHeap
<1>2. CASE Len(heap) <= 1
  <2>1. Pop(keys, heap) = <<>> /\ Len(heap) = 1
    BY <1>1, <1>2 DEF Pop
  <2>2. Range(heap) = {heap[1]} /\ Range(<<>>) = {}
    BY <1>1, <2>1 DEF Range
  <2>3. IsHeap(<<>>) /\ Ordered(keys, <<>>)
    BY DEF IsHeap, IsInjective, Ordered
  <2> QED BY <2>1, <2>2, <2>3
<1>3. CASE Len(heap) > 1
  <2> DEFINE n == Len(heap)
             moved == LastMovedFirst(heap)
  <2>1. Pop(keys, heap) = SiftDown(keys, moved)
    BY <1>1, <1>3, SMTT(60) DEF Pop, LastMovedFirst
  <2>4. /\ moved \in Seq(Nat) /\ Len(moved) = n - 1 /\ DOMAIN moved = 1 .. n - 1
        /\ \A i \in 1 .. n - 1 : moved[i] = IF i = 1 THEN heap[n] ELSE heap[i]
    BY <1>1, <1>3, LastMoves
  <2> HIDE DEF moved
  <2>5. Range(moved) = Range(heap) \ {heap[1]}
    <3>1. ASSUME NEW x \in Range(moved) PROVE x \in Range(heap) /\ x # heap[1]
      <4>1. PICK i \in 1 .. n - 1 : x = moved[i]
        BY <2>4, <3>1 DEF Range
      <4>2. PICK j \in 2 .. n : x = heap[j]
        BY <1>1, <1>3, <2>4, <4>1, SMTT(60)
      <4> QED BY <1>1, <4>2 DEF Range, IsInjective
    <3>2. ASSUME NEW x \in Range(heap), x # heap[1] PROVE x \in Range(moved)
      <4>1. PICK j \in 2 .. n : x = heap[j]
        BY <1>1, <3>2 DEF Range
      <4>2. CASE j = n
        <5>1. x = moved[1] /\ 1 \in DOMAIN moved
          BY <4>1, <4>2, <2>4, <1>1, <1>3
        <5> QED BY <5>1 DEF Range
      <4>3. CASE j # n
        <5>1. x = moved[j] /\ j \in DOMAIN moved
          BY <4>1, <4>3, <2>4, <1>1, <1>3
        <5> QED BY <5>1 DEF Range
      <4> QED BY <4>2, <4>3
    <3> QED BY <3>1, <3>2
  <2>6. IsInjective(moved)
    <3> SUFFICES ASSUME NEW i \in 1 .. n - 1, NEW j \in 1 .. n - 1, moved[i] = moved[j]
                 PROVE  i = j
      BY <2>4 DEF IsInjective
    <3> DEFINE from(m) == IF m = 1 THEN n ELSE m
    <3>1. ASSUME NEW k \in 1 .. n - 1
          PROVE  from(k) \in DOMAIN heap /\ moved[k] = heap[from(k)]
      <4>1. DOMAIN heap = 1 .. n /\ n \in Nat /\ k \in 1 .. n /\ n \in 1 .. n
        BY <1>1
      <4>2. moved[k] = IF k = 1 THEN heap[n] ELSE heap[k]
        BY <2>4
      <4> QED BY <4>1, <4>2
    <3>2. from(i) = from(j)
      BY <1>1, <3>1 DEF IsInjective
    <3> QED BY <1>1, <3>2
  <2>7. Keyed(keys, moved)
    BY <2>5 DEF Keyed
  <2>8. OrderedBelow(keys, moved, 1)
    <3> SUFFICES ASSUME NEW i \in DOMAIN moved, i > 1, i \div 2 # 1
                 PROVE  ~Less(keys, moved[i], moved[i \div 2])
      BY DEF OrderedBelow
    <3>1. i \in DOMAIN heap /\ i \div 2 \in 2 .. n - 1 /\ i \in 2 .. n - 1
      BY <1>1, <2>4, HalfProperties, SMTT(60)
    <3>2. ~Less(keys, heap[i], heap[i \div 2])
      BY <3>1 DEF Ordered
    <3> QED BY <2>4, <3>1, <3>2, SMTT(60)
  <2>9. moved # <<>>
    BY <2>4, <1>1, <1>3
  <2>10. SameNodes(SiftDown(keys, moved), moved) /\ Ordered(keys, SiftDown(keys, moved))
    BY <2>4, <2>7, <2>8, <2>9, SiftDownEnds
  <2> QED BY <2>1, <2>4, <2>5, <2>6, <2>10 DEF SameNodes, IsHeap
<1>4. Len(heap) <= 1 \/ Len(heap) > 1
  BY <1>1
<1> QED BY <1>2, <1>3, <1>4

\* No node is less than the first one.
LEMMA PeekIsLeast ==
  ASSUME NEW keys, NEW heap \in Seq(Nat), Keyed(keys, heap), Ordered(keys, heap)
  PROVE  \A a \in Range(heap) : ~Less(keys, a, heap[1])
<1>1. \A i \in DOMAIN heap : i \in Nat /\ i >= 1 /\ heap[i] \in Nat /\ keys[heap[i]] \in Int
  BY DEF Keyed, Range
<1>2. \A i \in DOMAIN heap : 1 \in DOMAIN heap /\ (i > 1 => i \div 2 \in DOMAIN heap /\ i \div 2 < i)
  BY HalfProperties
<1> DEFINE Bad == { i \in DOMAIN heap : Less(keys, heap[i], heap[1]) }
<1>3. Bad = {}
  <2> SUFFICES ASSUME Bad # {} PROVE FALSE
    OBVIOUS
  <2>1. Bad \subseteq Nat
    BY <1>1
  <2>2. PICK i \in Bad : \A j \in Bad : i <= j
    BY <2>1, LeastElement
  <2>3. i \in DOMAIN heap /\ Less(keys, heap[i], heap[1])
    OBVIOUS
  <2>4. i # 1
    BY <2>3, <1>1, LessIsOrder
  <2>5. i > 1 /\ i \div 2 \in DOMAIN heap /\ i \div 2 < i /\ 1 \in DOMAIN heap
    BY <2>3, <2>4, <1>1, <1>2
  <2>6. i \div 2 \notin Bad
    BY <2>2, <2>5, <1>1
  <2>7. ~Less(keys, heap[i \div 2], heap[1]) /\ ~Less(keys, heap[i], heap[i \div 2])
    BY <2>3, <2>5, <2>6 DEF Ordered
  <2>8. ~Less(keys, heap[i], heap[1])
    BY <2>3, <2>5, <2>7, <1>1, LessIsOrder
  <2> QED BY <2>3, <2>8
<1> QED BY <1>3 DEF Range
-----------------------------------------------------------------------------
(***************************************************************************)
(* 2. The contract between Scheduler.js and its host.  The contents of the *)
(* queues do not matter for it.                                            *)
(***************************************************************************)
\* A host has its fields.  Of times no more is needed than that they are there.
HostShape(h) ==
  h \in [ kind : {"dom", "node"}, callback : BOOLEAN, looping : BOOLEAN, frame : BOOLEAN,
          fallback : BOOLEAN, messages : Int, flushes : Nat, retries : Int,
          deadline : {h.deadline}, timeout : {h.timeout}, stale : {h.stale} ]

\* In a browser the loop has always asked for its next frame, and no request is ever
\* put off.  Without a DOM there are no frames and messages.
KindOK(h) ==
  IF h.kind = "dom" THEN (h.looping => h.frame) /\ h.retries = 0
  ELSE h.messages = 0 /\ ~h.fallback /\ ~h.frame

\* Between events the callback will be called.
Serves(h) == h.callback => IF h.kind = "dom" THEN h.frame ELSE h.flushes > 0

HostOK(h) == HostShape(h) /\ KindOK(h)

\* While work is performed, the host has its callback and does not take itself to
\* be asked, and the event will be repeated if the callback throws.
ContractInv ==
  /\ HostOK(host)
  /\ stage = "idle" => Serves(host)
  /\ stage # "idle" =>
       /\ host.callback /\ event \in Events
       /\ IF host.kind = "dom" THEN host.frame ELSE event = "flush"
  /\ isHostCallbackScheduled => stage = "idle" /\ host.callback
-----------------------------------------------------------------------------
\* What the operators of SchedulerHost do to these facts.

LEMMA NewHostServes ==
  ASSUME NEW kind \in {"dom", "node"}
  PROVE  HostOK(NewHost(kind)) /\ Serves(NewHost(kind)) /\ ~NewHost(kind).callback
BY DEF NewHost, HostOK, HostShape, KindOK, Serves

LEMMA RequestServes ==
  ASSUME NEW h, HostOK(h), Serves(h)
  PROVE  LET g == HostCallbackRequested(h)
         IN  HostOK(g) /\ Serves(g) /\ g.callback
<1>1. CASE h.kind = "dom"
  <2>1. HostCallbackRequested(h) = DOMRequested(h)
    BY <1>1 DEF HostCallbackRequested
  <2>2. CASE h.looping
    <3> DEFINE g == [h EXCEPT !.callback = TRUE]
    <3>1. DOMRequested(h) = g
      BY <2>2 DEF DOMRequested
    <3>2. /\ HostShape(g) /\ g.kind = h.kind /\ g.frame = h.frame /\ g.looping = h.looping /\ g.callback
          /\ g.retries = h.retries
      BY DEF HostOK, HostShape
    <3> QED BY <1>1, <2>1, <2>2, <3>1, <3>2 DEF HostOK, KindOK, Serves
  <2>3. CASE ~h.looping
    <3> DEFINE g == [h EXCEPT !.callback = TRUE, !.looping = TRUE, !.frame = TRUE]
    <3>1. DOMRequested(h) = g
      BY <2>3 DEF DOMRequested
    <3>2. HostShape(g) /\ g.kind = h.kind /\ g.frame /\ g.callback /\ g.retries = h.retries
      BY DEF HostOK, HostShape
    <3> QED BY <1>1, <2>1, <3>1, <3>2 DEF HostOK, KindOK, Serves
  <2> QED BY <2>2, <2>3 DEF HostOK, HostShape
<1>2. CASE h.kind = "node"
  <2>1. HostCallbackRequested(h) = NodeRequested(h)
    BY <1>2 DEF HostCallbackRequested
  <2>2. CASE h.callback
    <3> DEFINE g == [h EXCEPT !.retries = @ + 1]
    <3>1. NodeRequested(h) = g
      BY <2>2 DEF NodeRequested
    <3>2. /\ HostShape(g) /\ g.kind = h.kind /\ g.callback = h.callback /\ g.flushes = h.flushes
          /\ g.messages = h.messages /\ g.fallback = h.fallback /\ g.frame = h.frame
      BY DEF HostOK, HostShape
    <3> QED BY <1>2, <2>1, <2>2, <3>1, <3>2 DEF HostOK, KindOK, Serves
  <2>3. CASE ~h.callback
    <3> DEFINE g == [h EXCEPT !.callback = TRUE, !.flushes = @ + 1]
    <3>1. NodeRequested(h) = g
      BY <2>3 DEF NodeRequested
    <3>2. h.flushes + 1 \in Nat /\ h.flushes + 1 > 0
      BY DEF HostOK, HostShape
    <3>3. /\ HostShape(g) /\ g.kind = h.kind /\ g.callback /\ g.flushes = h.flushes + 1
          /\ g.messages = h.messages /\ g.fallback = h.fallback /\ g.frame = h.frame
      BY <3>2 DEF HostOK, HostShape
    <3> QED BY <1>2, <2>1, <3>1, <3>2, <3>3 DEF HostOK, KindOK, Serves
  <2> QED BY <2>2, <2>3 DEF HostOK, HostShape
<1> QED BY <1>1, <1>2 DEF HostOK, HostShape

\* What a timeout does to a host is of no consequence here.
SameCalls(g, h) ==
  /\ HostShape(g) /\ g.kind = h.kind /\ g.callback = h.callback
  /\ g.looping = h.looping /\ g.frame = h.frame /\ g.fallback = h.fallback
  /\ g.messages = h.messages /\ g.flushes = h.flushes /\ g.retries = h.retries

LEMMA SameIsOK ==
  ASSUME NEW g, NEW h, HostOK(h), SameCalls(g, h)
  PROVE  HostOK(g) /\ (Serves(h) => Serves(g)) /\ g.callback = h.callback
BY DEF SameCalls, HostOK, KindOK, Serves

LEMMA TimeoutsAreSame ==
  ASSUME NEW h, HostShape(h), NEW due
  PROVE  /\ SameCalls(HostTimeoutCancelled(h), h)
         /\ SameCalls(HostTimeoutRequested(h, due), h)
         /\ SameCalls(TimeoutFired(h, due), h)
<1>1. SameCalls(HostTimeoutCancelled(h), h)
  BY DEF HostTimeoutCancelled, SameCalls, HostShape
<1>2. SameCalls(HostTimeoutRequested(h, due), h)
  BY DEF HostTimeoutRequested, SameCalls, HostShape
<1>3. SameCalls(TimeoutFired(h, due), h)
  BY DEF TimeoutFired, SameCalls, HostShape
<1> QED BY <1>1, <1>2, <1>3

LEMMA FrameServes ==
  ASSUME NEW h, HostOK(h), Serves(h), CanBeginFrame(h), NEW time
  PROVE  LET g == FrameBegun(h, time)
         IN  HostOK(g) /\ Serves(g) /\ g.callback = h.callback
<1>1. h.kind = "dom"
  BY DEF CanBeginFrame, HostOK, HostShape, KindOK
<1>2. CASE ~h.callback
  <2> DEFINE g == [h EXCEPT !.frame = FALSE, !.fallback = FALSE, !.looping = FALSE]
  <2>1. FrameBegun(h, time) = g
    BY <1>2 DEF FrameBegun
  <2>2. /\ HostShape(g) /\ g.kind = h.kind /\ ~g.looping /\ g.retries = h.retries
        /\ g.callback = h.callback
    BY DEF HostOK, HostShape
  <2> QED BY <1>1, <1>2, <2>1, <2>2 DEF HostOK, KindOK, Serves
<1>3. CASE h.callback
  <2> DEFINE g == [h EXCEPT !.frame = TRUE, !.fallback = TRUE, !.messages = @ + 1,
                            !.deadline = time + FrameLength]
  <2>1. FrameBegun(h, time) = g
    BY <1>3 DEF FrameBegun
  <2>2. h.messages + 1 \in Int
    BY DEF HostOK, HostShape
  <2>3. /\ HostShape(g) /\ g.kind = h.kind /\ g.frame /\ g.retries = h.retries
        /\ g.callback = h.callback
    BY <2>2 DEF HostOK, HostShape
  <2> QED BY <1>1, <2>1, <2>3 DEF HostOK, KindOK, Serves
<1> QED BY <1>2, <1>3 DEF HostOK, HostShape

LEMMA ReceivedIsOK ==
  ASSUME NEW h, HostOK(h), NEW name \in Events, CanReceive(h, name), NEW time
  PROVE  LET g == Received(h, name, time)
         IN  /\ HostOK(g) /\ g.kind = h.kind /\ g.callback = h.callback /\ g.frame = h.frame
             /\ h.kind = "node" => name = "flush"
<1> USE DEF HostOK
<1>1. CASE name = "message"
  <2> DEFINE g == [h EXCEPT !.messages = @ - 1]
  <2>1. Received(h, name, time) = g /\ h.kind = "dom"
    BY <1>1 DEF Received, CanReceive, HostShape, KindOK
  <2>2. h.messages - 1 \in Int
    BY DEF HostShape
  <2>3. /\ HostShape(g) /\ g.kind = h.kind /\ g.callback = h.callback /\ g.frame = h.frame
        /\ g.looping = h.looping /\ g.retries = h.retries
    BY <2>2 DEF HostShape
  <2> QED BY <2>1, <2>3 DEF KindOK
<1>2. CASE name = "fallback"
  <2> DEFINE g == [h EXCEPT !.deadline = time + FrameLength \div 2]
  <2>1. Received(h, name, time) = g /\ h.kind = "dom"
    BY <1>2 DEF Received, CanReceive, HostShape, KindOK
  <2>2. /\ HostShape(g) /\ g.kind = h.kind /\ g.callback = h.callback /\ g.frame = h.frame
        /\ g.looping = h.looping /\ g.retries = h.retries
    BY DEF HostShape
  <2> QED BY <2>1, <2>2 DEF KindOK
<1>3. CASE name = "flush"
  <2> DEFINE g == [h EXCEPT !.flushes = @ - 1]
  <2>1. Received(h, name, time) = g
    BY <1>3 DEF Received
  <2>2. h.flushes - 1 \in Nat
    BY <1>3 DEF CanReceive, HostShape
  <2>3. /\ HostShape(g) /\ g.kind = h.kind /\ g.callback = h.callback /\ g.frame = h.frame
        /\ g.looping = h.looping /\ g.retries = h.retries /\ g.messages = h.messages
        /\ g.fallback = h.fallback
    BY <2>2 DEF HostShape
  <2> QED BY <1>3, <2>1, <2>3 DEF KindOK
<1> QED BY <1>1, <1>2, <1>3 DEF Events

LEMMA ReturnedServes ==
  ASSUME NEW h, HostOK(h), h.kind = "dom" => h.frame, NEW more \in BOOLEAN
  PROVE  HostOK(Returned(h, more)) /\ Serves(Returned(h, more))
<1> DEFINE g == [h EXCEPT !.callback = @ /\ more /\ h.kind = "dom"]
<1>1. Returned(h, more) = g
  BY DEF Returned
<1>2. (h.callback /\ more /\ h.kind = "dom") \in BOOLEAN
  OBVIOUS
<1>3. /\ HostShape(g) /\ g.kind = h.kind /\ g.frame = h.frame /\ g.looping = h.looping
      /\ g.messages = h.messages /\ g.fallback = h.fallback /\ g.retries = h.retries
      /\ g.callback => h.kind = "dom"
  BY <1>2 DEF HostOK, HostShape
<1> QED BY <1>1, <1>3 DEF HostOK, KindOK, Serves

LEMMA ThrewServes ==
  ASSUME NEW h, HostOK(h), h.callback, NEW name \in Events,
         IF h.kind = "dom" THEN h.frame ELSE name = "flush"
  PROVE  HostOK(Threw(h, name)) /\ Serves(Threw(h, name))
<1> USE DEF HostOK
<1>1. CASE name = "flush"
  <2> DEFINE g == [h EXCEPT !.flushes = @ + 1]
  <2>1. Threw(h, name) = g
    BY <1>1 DEF Threw
  <2>2. h.flushes + 1 \in Nat /\ h.flushes + 1 > 0
    BY DEF HostShape
  <2>3. /\ HostShape(g) /\ g.kind = h.kind /\ g.frame = h.frame /\ g.looping = h.looping
        /\ g.retries = h.retries /\ g.messages = h.messages /\ g.fallback = h.fallback
        /\ g.flushes = h.flushes + 1
    BY <2>2 DEF HostShape
  <2> QED BY <2>1, <2>2, <2>3 DEF KindOK, Serves
<1>2. CASE name = "message"
  <2> DEFINE g == [h EXCEPT !.messages = @ + 1]
  <2>1. Threw(h, name) = g /\ h.kind = "dom"
    BY <1>2 DEF Threw, HostShape
  <2>2. h.messages + 1 \in Int
    BY DEF HostShape
  <2>3. /\ HostShape(g) /\ g.kind = h.kind /\ g.frame = h.frame /\ g.looping = h.looping
        /\ g.retries = h.retries
    BY <2>2 DEF HostShape
  <2> QED BY <2>1, <2>3 DEF KindOK, Serves
<1>3. CASE name = "fallback"
  <2> DEFINE g == [h EXCEPT !.messages = @ + 1, !.fallback = FALSE]
  <2>1. Threw(h, name) = g /\ h.kind = "dom"
    BY <1>3 DEF Threw, HostShape
  <2>2. h.messages + 1 \in Int
    BY DEF HostShape
  <2>3. /\ HostShape(g) /\ g.kind = h.kind /\ g.frame = h.frame /\ g.looping = h.looping
        /\ g.retries = h.retries
    BY <2>2 DEF HostShape
  <2> QED BY <2>1, <2>3 DEF KindOK, Serves
<1> QED BY <1>1, <1>2, <1>3 DEF Events
-----------------------------------------------------------------------------
LEMMA InitContract == Init => ContractInv
<1> SUFFICES ASSUME Init PROVE ContractInv
  OBVIOUS
<1>1. PICK kind \in {"dom", "node"} : host = NewHost(kind)
  BY SchedulerAssumption DEF Init
<1> QED BY <1>1, NewHostServes DEF Init, ContractInv

\* Steps that leave the host alone, within an event and between two of them.
LEMMA SameHostContract ==
  ASSUME ContractInv, host' = host, event' = event,
         isHostCallbackScheduled' = isHostCallbackScheduled,
         stage' = "idle" <=> stage = "idle"
  PROVE  ContractInv'
BY DEF ContractInv

\* A step after which the host is as good as before, outside of an event.
LEMMA IdleContract ==
  ASSUME ContractInv, stage = "idle", stage' = "idle", HostOK(host'), Serves(host'),
         isHostCallbackScheduled' => host'.callback
  PROVE  ContractInv'
BY DEF ContractInv

LEMMA ScheduleContract ==
  ASSUME ContractInv, ScheduleNow \/ ScheduleDelayed \/ ContinueExecution
  PROVE  ContractInv'
<1>1. CASE ScheduleNow
  <2>1. CASE NeedsHostCallback
    <3>1. stage = "idle" /\ stage' = "idle" /\ host' = HostCallbackRequested(host)
      BY <1>1, <2>1 DEF ScheduleNow, NeedsHostCallback, isPerformingWork, working
    <3> QED BY <3>1, IdleContract, RequestServes DEF ContractInv
  <2>2. CASE ~NeedsHostCallback
    BY <1>1, <2>2, SameHostContract DEF ScheduleNow, working
  <2> QED BY <2>1, <2>2
<1>2. CASE ScheduleDelayed
  <2>1. UNCHANGED <<isHostCallbackScheduled, stage, event>>
    BY <1>2 DEF ScheduleDelayed, working
  <2>2. host' = host \/ SameCalls(host', host)
    <3> DEFINE start == now + Delay[NextID]
    <3>1. host' \in { host, HostTimeoutRequested(host, start),
                      HostTimeoutRequested(HostTimeoutCancelled(host), start) }
      BY <1>2 DEF ScheduleDelayed
    <3>2. HostShape(host)
      BY DEF ContractInv, HostOK
    <3>3. SameCalls(HostTimeoutCancelled(host), host) /\ HostShape(HostTimeoutCancelled(host))
      BY <3>2, TimeoutsAreSame DEF SameCalls
    <3>4. /\ SameCalls(HostTimeoutRequested(host, start), host)
          /\ SameCalls(HostTimeoutRequested(HostTimeoutCancelled(host), start),
                       HostTimeoutCancelled(host))
      BY <3>2, <3>3, TimeoutsAreSame
    <3> QED BY <3>1, <3>3, <3>4 DEF SameCalls
  <2>3. host' = host \/ (/\ HostOK(host') /\ (Serves(host) => Serves(host'))
                         /\ host'.callback = host.callback)
    BY <2>2, SameIsOK DEF ContractInv
  <2>4. host' = host \/ (host'.kind = host.kind /\ host'.frame = host.frame)
    BY <2>2 DEF SameCalls
  <2> QED BY <2>1, <2>3, <2>4 DEF ContractInv
<1>3. CASE ContinueExecution
  <2>1. stage = "idle" /\ stage' = "idle" /\ host' = HostCallbackRequested(host)
    BY <1>3 DEF ContinueExecution, working
  <2> QED BY <2>1, IdleContract, RequestServes DEF ContractInv
<1> QED BY <1>1, <1>2, <1>3

LEMMA HostContract ==
  ASSUME ContractInv, NEW name \in Events, HostEvent(name)
  PROVE  ContractInv'
<1> DEFINE received == Received(host, name, now)
<1>1. /\ HostOK(received) /\ received.kind = host.kind
      /\ received.callback = host.callback /\ received.frame = host.frame
      /\ host.kind = "node" => name = "flush"
  BY ReceivedIsOK DEF HostEvent, ContractInv
<1>2. host.kind \in {"dom", "node"} /\ Serves(host) /\ stage = "idle"
  BY DEF HostEvent, ContractInv, HostOK, HostShape
<1> HIDE DEF received
<1>3. CASE host.callback
  <2>1. FlushWork(received, name)
    BY <1>3 DEF HostEvent, received
  <2>2. /\ ~isHostCallbackScheduled' /\ stage' = "loop" /\ event' = name
        /\ host' = IF isHostTimeoutScheduled THEN HostTimeoutCancelled(received) ELSE received
    BY <2>1 DEF FlushWork, FlagCleared
  <2>3. SameCalls(HostTimeoutCancelled(received), received)
    BY <1>1, TimeoutsAreSame DEF HostOK
  <2>4. HostOK(HostTimeoutCancelled(received))
    BY <1>1, <2>3, SameIsOK
  <2>5. /\ HostOK(host') /\ host'.kind = host.kind /\ host'.callback = host.callback
        /\ host'.frame = host.frame
    BY <1>1, <2>2, <2>3, <2>4 DEF SameCalls
  <2>6. host.kind = "dom" => host.frame
    BY <1>2, <1>3 DEF Serves
  <2> QED BY <1>1, <1>2, <1>3, <2>2, <2>5, <2>6 DEF ContractInv
<1>4. CASE ~host.callback
  <2>1. host' = received /\ UNCHANGED <<isHostCallbackScheduled, stage>>
    BY <1>4 DEF HostEvent, received, flags, working
  <2> QED BY <1>1, <1>2, <1>4, <2>1 DEF ContractInv, Serves
<1> QED BY <1>3, <1>4

LEMMA RetryContract ==
  ASSUME ContractInv, Retry
  PROVE  ContractInv'
<1> DEFINE g == [host EXCEPT !.retries = @ - 1]
<1>1. /\ stage = "idle" /\ stage' = "idle" /\ host' = NodeRequested(g) /\ host.retries > 0
      /\ HostOK(host) /\ Serves(host)
  BY DEF Retry, working, ContractInv
<1>2. host.kind = "node" /\ host.retries - 1 \in Int
  BY <1>1 DEF HostOK, HostShape, KindOK
<1>3. /\ HostShape(g) /\ g.kind = host.kind /\ g.callback = host.callback
      /\ g.flushes = host.flushes /\ g.messages = host.messages
      /\ g.fallback = host.fallback /\ g.frame = host.frame
  BY <1>1, <1>2 DEF HostOK, HostShape
<1>4. HostOK(g) /\ Serves(g) /\ g.kind = "node"
  BY <1>1, <1>2, <1>3 DEF HostOK, KindOK, Serves
<1> HIDE DEF g
<1>5. host' = HostCallbackRequested(g)
  BY <1>1, <1>4 DEF HostCallbackRequested
<1> QED BY <1>1, <1>4, <1>5, RequestServes, IdleContract

LEMMA TimeoutContract ==
  ASSUME ContractInv, NEW due, TimeoutFires(due)
  PROVE  ContractInv'
<1> DEFINE fired == TimeoutFired(host, due)
           first == Peek(Advanced(Queues, now).timerQueue)
           start == Advanced(Queues, now).tasks[first].startTime
<1>1. /\ stage = "idle" /\ stage' = "idle" /\ HostOK(host) /\ Serves(host)
      /\ isHostCallbackScheduled => host.callback
  BY DEF TimeoutFires, working, ContractInv
<1>2. /\ HostOK(fired) /\ Serves(fired) /\ fired.callback = host.callback
  BY <1>1, TimeoutsAreSame, SameIsOK DEF HostOK
<1>3. HostOK(HostTimeoutRequested(fired, start)) /\ Serves(HostTimeoutRequested(fired, start))
  BY <1>2, TimeoutsAreSame, SameIsOK DEF HostOK
<1>4. /\ HostOK(HostCallbackRequested(fired)) /\ Serves(HostCallbackRequested(fired))
      /\ HostCallbackRequested(fired).callback
  BY <1>2, RequestServes
<1>5. \/ host' = fired /\ isHostCallbackScheduled' = isHostCallbackScheduled
      \/ host' = HostCallbackRequested(fired)
      \/ host' = HostTimeoutRequested(fired, start) /\ ~isHostCallbackScheduled'
  BY DEF TimeoutFires
<1> HIDE DEF fired, start
<1> QED BY <1>1, <1>2, <1>3, <1>4, <1>5, IdleContract

LEMMA WorkContract ==
  ASSUME ContractInv, WorkLoopStep \/ CallbackEnds
  PROVE  ContractInv'
<1>1. ASSUME stage # "idle"
      PROVE  /\ HostOK(host) /\ host.callback /\ ~isHostCallbackScheduled /\ event \in Events
             /\ host.kind = "dom" => host.frame
             /\ IF host.kind = "dom" THEN host.frame ELSE event = "flush"
  BY <1>1 DEF ContractInv
<1>2. CASE DropTask \/ RunTask
  BY <1>2, SameHostContract DEF DropTask, RunTask, working, flags
<1>3. CASE TaskContinues \/ TaskCompletes
  BY <1>3, SameHostContract DEF TaskContinues, TaskCompletes, NextTask, flags
<1>4. CASE Yield
  <2>1. stage # "idle" /\ stage' = "idle" /\ host' = Returned(host, TRUE)
        /\ isHostCallbackScheduled' = isHostCallbackScheduled
    BY <1>4 DEF Yield, Leave, flags
  <2> QED BY <1>1, <2>1, ReturnedServes DEF ContractInv
<1>5. CASE NothingLeft
  <2> DEFINE left == TimeoutForFirst(Queues, currentTime)
             start == now + tasks[Peek(timerQueue)].startTime - currentTime
  <2>1. stage # "idle" /\ stage' = "idle" /\ host' = Returned(left, FALSE)
        /\ isHostCallbackScheduled' = isHostCallbackScheduled
    BY <1>5 DEF NothingLeft, HostAfterWork, Leave, flags
  <2>2. left = host \/ left = HostTimeoutRequested(host, start)
    BY DEF TimeoutForFirst, Queues
  <2>3. left = host \/ SameCalls(left, host)
    BY <1>1, <2>1, <2>2, TimeoutsAreSame DEF HostOK
  <2>4. HostOK(left) /\ left.kind = host.kind /\ left.frame = host.frame
    BY <1>1, <2>1, <2>3, SameIsOK DEF SameCalls
  <2> HIDE DEF left
  <2> QED BY <1>1, <2>1, <2>4, ReturnedServes DEF ContractInv
<1>6. CASE TaskThrows
  <2>1. stage # "idle" /\ stage' = "idle" /\ host' = Threw(host, event)
        /\ isHostCallbackScheduled' = isHostCallbackScheduled
    BY <1>6 DEF TaskThrows, Leave, flags
  <2> QED BY <1>1, <2>1, ThrewServes DEF ContractInv
<1> QED BY <1>2, <1>3, <1>4, <1>5, <1>6 DEF WorkLoopStep, CallbackEnds

LEMMA NextContract == ContractInv /\ [Next]_vars => ContractInv'
<1> SUFFICES ASSUME ContractInv, [Next]_vars PROVE ContractInv'
  OBVIOUS
<1>1. CASE ScheduleNow \/ ScheduleDelayed \/ ContinueExecution
  BY <1>1, ScheduleContract
<1>2. ASSUME NEW name \in Events, HostEvent(name) PROVE ContractInv'
  BY <1>2, HostContract
<1>3. CASE Frame
  <2>1. /\ stage = "idle" /\ stage' = "idle" /\ host' = FrameBegun(host, now) /\ CanBeginFrame(host)
        /\ isHostCallbackScheduled' = isHostCallbackScheduled
    BY <1>3 DEF Frame, working, flags
  <2> QED BY <2>1, FrameServes, IdleContract DEF ContractInv
<1>4. CASE Retry
  BY <1>4, RetryContract
<1>5. ASSUME NEW due \in Timeouts(host), TimeoutFires(due) PROVE ContractInv'
  BY <1>5, TimeoutContract
<1>6. CASE WorkLoopStep \/ CallbackEnds
  BY <1>6, WorkContract
<1>7. CASE ShouldYield \/ (\E t \in DOMAIN tasks : Cancel(t)) \/ Tick \/ UNCHANGED vars
  BY <1>7, SameHostContract DEF ShouldYield, Cancel, Tick, working, flags, vars
<1> QED BY <1>1, <1>2, <1>3, <1>4, <1>5, <1>6, <1>7 DEF Next

\* isHostCallbackScheduled is true only between events, and only while the host is
\* going to call flushWork: the scheduler never refrains from asking a host that
\* would not call, whatever fails, yields or is asked for twice.
THEOREM FlagIsServed == Spec => []ScheduledIsServed
<1>1. ContractInv => ScheduledIsServed
  BY DEF ContractInv, ScheduledIsServed, WillFlush, Serves, HostOK, HostShape
<1> QED BY <1>1, InitContract, NextContract, PTL DEF Spec
-----------------------------------------------------------------------------
(***************************************************************************)
(* 3. The queues as data: expired timers move to the tasks (advanceTimers), *)
(* tasks leave and change, and both queues stay heaps.                     *)
(***************************************************************************)
\* What holds of the tasks and the two queues at all times.
QueuesOK(qs) ==
  /\ qs \in QueueState
  /\ IsInjective(qs.taskQueue) /\ IsInjective(qs.timerQueue)
  /\ Range(qs.taskQueue) \subseteq DOMAIN qs.tasks
  /\ Range(qs.timerQueue) \subseteq DOMAIN qs.tasks
  /\ Range(qs.taskQueue) \cap Range(qs.timerQueue) = {}
  /\ Ordered(SortIndex(qs.tasks), qs.taskQueue)
  /\ Ordered(SortIndex(qs.tasks), qs.timerQueue)
  /\ \A t \in Range(qs.taskQueue)  : qs.tasks[t].sortIndex = qs.tasks[t].expirationTime
  /\ \A t \in Range(qs.timerQueue) : qs.tasks[t].sortIndex = qs.tasks[t].startTime

Queued(qs) ==
  \A t \in DOMAIN qs.tasks :
    qs.tasks[t].callback => t \in Range(qs.taskQueue) \cup Range(qs.timerQueue)

\* The timers that are left start later.
TimersAfter(qs, time) ==
  \A t \in Range(qs.timerQueue) : qs.tasks[t].startTime > time

\* The tasks are the same, under whatever keys.
SameTasks(ts, us) ==
  /\ DOMAIN ts = DOMAIN us
  /\ \A t \in DOMAIN us :
       /\ ts[t].callback = us[t].callback /\ ts[t].startTime = us[t].startTime
       /\ ts[t].expirationTime = us[t].expirationTime
       /\ ts[t].continuations = us[t].continuations

LEMMA QueueFields ==
  ASSUME NEW qs \in QueueState
  PROVE  /\ qs.tasks \in Seq(Task) /\ qs.taskQueue \in Seq(Nat) /\ qs.timerQueue \in Seq(Nat)
         /\ DOMAIN qs.tasks = 1 .. Len(qs.tasks) /\ Len(qs.tasks) \in Nat
         /\ \A t \in DOMAIN qs.tasks : t \in Nat /\ t # 0 /\ qs.tasks[t] \in Task
         /\ qs = [tasks |-> qs.tasks, taskQueue |-> qs.taskQueue, timerQueue |-> qs.timerQueue]
BY DEF QueueState

LEMMA KeysOfTasks ==
  ASSUME NEW ts \in Seq(Task)
  PROVE  /\ DOMAIN SortIndex(ts) = DOMAIN ts
         /\ \A t \in DOMAIN ts : SortIndex(ts)[t] = ts[t].sortIndex /\ SortIndex(ts)[t] \in Int
<1>1. \A t \in DOMAIN ts : ts[t] \in Task
  OBVIOUS
<1> QED BY <1>1 DEF SortIndex, Task

\* Only the keys of the nodes that are in it matter for a heap.
LEMMA OrderedByNodes ==
  ASSUME NEW heap \in Seq(Nat), NEW keys, NEW others, Ordered(keys, heap),
         \A a \in Range(heap) : others[a] = keys[a]
  PROVE  Ordered(others, heap)
<1> SUFFICES ASSUME NEW i \in DOMAIN heap, i > 1
             PROVE  ~Less(others, heap[i], heap[i \div 2])
  BY DEF Ordered
<1>1. ~Less(keys, heap[i], heap[i \div 2])
  BY DEF Ordered
<1>2. i \in Nat /\ i \div 2 \in DOMAIN heap
  BY HalfProperties
<1>3. heap[i] \in Range(heap) /\ heap[i \div 2] \in Range(heap)
  BY <1>2 DEF Range
<1> QED BY <1>1, <1>3 DEF Less

\* peek: nothing, or a node that no other one comes before.
LEMMA PeekProperties ==
  ASSUME NEW ts \in Seq(Task), NEW heap \in Seq(Nat), Range(heap) \subseteq DOMAIN ts,
         Ordered(SortIndex(ts), heap)
  PROVE  /\ Peek(heap) = 0 <=> heap = <<>>
         /\ heap # <<>> =>
              /\ Peek(heap) \in Range(heap) /\ Peek(heap) = heap[1]
              /\ \A t \in Range(heap) :
                   /\ ts[Peek(heap)].sortIndex <= ts[t].sortIndex
                   /\ ts[Peek(heap)].sortIndex = ts[t].sortIndex => Peek(heap) <= t
<1>1. \A t \in DOMAIN ts : t \in Nat /\ t # 0
  OBVIOUS
<1>2. CASE heap = <<>>
  BY <1>2 DEF Peek
<1>3. CASE heap # <<>>
  <2>1. 1 \in DOMAIN heap /\ Peek(heap) = heap[1]
    BY <1>3 DEF Peek
  <2>2. Peek(heap) \in Range(heap)
    BY <2>1 DEF Range
  <2>3. Keyed(SortIndex(ts), heap)
    BY KeysOfTasks DEF Keyed
  <2>4. ASSUME NEW t \in Range(heap)
        PROVE  /\ ts[Peek(heap)].sortIndex <= ts[t].sortIndex
               /\ ts[Peek(heap)].sortIndex = ts[t].sortIndex => Peek(heap) <= t
    <3>1. ~Less(SortIndex(ts), t, Peek(heap))
      BY <2>1, <2>3, PeekIsLeast
    <3>2. /\ SortIndex(ts)[t] = ts[t].sortIndex /\ ts[t].sortIndex \in Int
          /\ SortIndex(ts)[Peek(heap)] = ts[Peek(heap)].sortIndex /\ ts[Peek(heap)].sortIndex \in Int
          /\ t \in Nat /\ Peek(heap) \in Nat
      BY <2>2, <1>1, KeysOfTasks
    <3> QED BY <3>1, <3>2 DEF Less
  <2> QED BY <1>1, <1>3, <2>1, <2>2, <2>4
<1> QED BY <1>2, <1>3
-----------------------------------------------------------------------------
\* The loop of advanceTimers.
GoesOn(qs, time) ==
  LET timer == Peek(qs.timerQueue)
  IN  timer # 0 /\ (qs.tasks[timer].callback => qs.tasks[timer].startTime <= time)

NextQueues(qs) ==
  IF qs.tasks[Peek(qs.timerQueue)].callback THEN Transferred(qs) ELSE Popped(qs)

LEMMA NextIsState ==
  ASSUME NEW qs \in QueueState, Peek(qs.timerQueue) # 0
  PROVE  /\ Popped(qs) \in QueueState /\ Transferred(qs) \in QueueState
         /\ NextQueues(qs) \in QueueState
         /\ Len(NextQueues(qs).timerQueue) < Len(qs.timerQueue)
<1> DEFINE timer == Peek(qs.timerQueue)
           popped == Pop(SortIndex(qs.tasks), qs.timerQueue)
           sorted == [qs.tasks EXCEPT ![timer].sortIndex = qs.tasks[timer].expirationTime]
           pushed == Push(SortIndex(sorted), qs.taskQueue, timer)
<1>1. /\ qs.tasks \in Seq(Task) /\ qs.taskQueue \in Seq(Nat) /\ qs.timerQueue \in Seq(Nat)
      /\ qs.timerQueue # <<>>
  BY QueueFields DEF Peek
<1>2. popped \in Seq(Nat) /\ Len(popped) = Len(qs.timerQueue) - 1
  BY <1>1, PopShortens
<1>3. timer \in Nat
  BY <1>1 DEF Peek
<1>4. sorted \in Seq(Task)
  <2> HIDE DEF timer
  <2>1. CASE timer \in DOMAIN qs.tasks
    <3> DEFINE task == [qs.tasks[timer] EXCEPT !.sortIndex = qs.tasks[timer].expirationTime]
    <3>1. qs.tasks[timer] \in Task
      BY <1>1, <2>1
    <3>2. task \in Task
      BY <3>1 DEF Task
    <3>3. sorted = [qs.tasks EXCEPT ![timer] = task]
      OBVIOUS
    <3> HIDE DEF task, sorted
    <3> QED BY <1>1, <2>1, <3>2, <3>3
  <2>2. CASE timer \notin DOMAIN qs.tasks
    <3> DEFINE task == [qs.tasks[timer] EXCEPT !.sortIndex = qs.tasks[timer].expirationTime]
    <3>1. sorted = [qs.tasks EXCEPT ![timer] = task]
      OBVIOUS
    <3> HIDE DEF task, sorted
    <3>2. sorted = qs.tasks
      BY <1>1, <2>2, <3>1
    <3> QED BY <1>1, <3>2
  <2> QED BY <2>1, <2>2
<1>5. pushed \in Seq(Nat)
  <2> HIDE DEF timer, sorted
  <2> QED BY <1>1, <1>3, PushProperties DEF Pushed
<1>6. Popped(qs) = [qs EXCEPT !.timerQueue = popped]
  BY DEF Popped
<1>7. Transferred(qs) = [Popped(qs) EXCEPT !.tasks = sorted, !.taskQueue = pushed]
  <2>1. Transferred(qs) = [Popped(qs) EXCEPT !.tasks = sorted,
                                             !.taskQueue = Push(SortIndex(sorted), @, timer)]
    BY DEF Transferred
  <2>2. "taskQueue" \in DOMAIN qs /\ "timerQueue" \in DOMAIN qs /\ "tasks" \in DOMAIN qs
    BY DEF QueueState
  <2> HIDE DEF sorted, popped, timer
  <2>3. Popped(qs).taskQueue = qs.taskQueue
    BY <1>6, <2>2
  <2> QED BY <2>1, <2>3
<1> HIDE DEF timer, popped, sorted, pushed
<1>8. /\ Popped(qs) \in QueueState /\ Transferred(qs) \in QueueState
      /\ Popped(qs).timerQueue = popped /\ Transferred(qs).timerQueue = popped
  BY <1>2, <1>4, <1>5, <1>6, <1>7 DEF QueueState
<1>9. Len(popped) < Len(qs.timerQueue)
  BY <1>1, <1>2
<1> QED BY <1>8, <1>9 DEF NextQueues

LEMMA TurnFields ==
  ASSUME NEW qs \in QueueState, Peek(qs.timerQueue) # 0
  PROVE  LET timer == Peek(qs.timerQueue)
             sorted == [qs.tasks EXCEPT ![timer].sortIndex = qs.tasks[timer].expirationTime]
             popped == Pop(SortIndex(qs.tasks), qs.timerQueue)
             p == Popped(qs)
             t == Transferred(qs)
         IN  /\ p \in QueueState /\ p.tasks = qs.tasks /\ p.taskQueue = qs.taskQueue
             /\ p.timerQueue = popped
             /\ t \in QueueState /\ t.tasks = sorted /\ t.timerQueue = popped
             /\ t.taskQueue = Push(SortIndex(sorted), qs.taskQueue, timer)
<1> DEFINE timer == Peek(qs.timerQueue)
           popped == Pop(SortIndex(qs.tasks), qs.timerQueue)
           sorted == [qs.tasks EXCEPT ![timer].sortIndex = qs.tasks[timer].expirationTime]
<1>1. Popped(qs) = [qs EXCEPT !.timerQueue = popped]
  BY DEF Popped
<1>2. Transferred(qs) = [Popped(qs) EXCEPT !.tasks = sorted,
                                           !.taskQueue = Push(SortIndex(sorted), @, timer)]
  BY DEF Transferred
<1>3. Popped(qs) \in QueueState /\ Transferred(qs) \in QueueState
  BY NextIsState
<1>4. DOMAIN qs = {"tasks", "taskQueue", "timerQueue"}
  BY DEF QueueState
<1> HIDE DEF sorted, popped, timer
<1>5. /\ Popped(qs).tasks = qs.tasks /\ Popped(qs).taskQueue = qs.taskQueue
      /\ Popped(qs).timerQueue = popped /\ DOMAIN Popped(qs) = DOMAIN qs
  BY <1>1, <1>4
<1>6. /\ Transferred(qs).tasks = sorted /\ Transferred(qs).timerQueue = popped
      /\ Transferred(qs).taskQueue = Push(SortIndex(sorted), qs.taskQueue, timer)
  BY <1>2, <1>4, <1>5
<1> QED BY <1>3, <1>5, <1>6 DEF sorted, popped, timer

LEMMA PoppedOK ==
  ASSUME NEW qs, QueuesOK(qs), Peek(qs.timerQueue) # 0
  PROVE  LET p == Popped(qs)
         IN  /\ QueuesOK(p) /\ p.tasks = qs.tasks /\ p.taskQueue = qs.taskQueue
             /\ Range(p.timerQueue) = Range(qs.timerQueue) \ {Peek(qs.timerQueue)}
<1> DEFINE p == Popped(qs)
<1>1. /\ qs \in QueueState /\ qs.timerQueue # <<>> /\ qs.timerQueue \in Seq(Nat)
      /\ qs.tasks \in Seq(Task) /\ Peek(qs.timerQueue) = qs.timerQueue[1]
      /\ IsHeap(qs.timerQueue)
  BY QueueFields DEF QueuesOK, Peek, IsHeap
<1>2. /\ p \in QueueState /\ p.tasks = qs.tasks /\ p.taskQueue = qs.taskQueue
      /\ p.timerQueue = Pop(SortIndex(qs.tasks), qs.timerQueue)
  BY <1>1, TurnFields
<1>3. Keyed(SortIndex(qs.tasks), qs.timerQueue)
  BY <1>1, KeysOfTasks DEF Keyed, QueuesOK
<1>4. /\ IsHeap(p.timerQueue) /\ Ordered(SortIndex(qs.tasks), p.timerQueue)
      /\ Range(p.timerQueue) = Range(qs.timerQueue) \ {Peek(qs.timerQueue)}
  BY <1>1, <1>2, <1>3, PopProperties DEF QueuesOK
<1> HIDE DEF p
<1>5. QueuesOK(p)
  BY <1>2, <1>4 DEF QueuesOK, IsHeap
<1> QED BY <1>2, <1>4, <1>5 DEF p

LEMMA TransferredOK ==
  ASSUME NEW qs, QueuesOK(qs), Peek(qs.timerQueue) # 0
  PROVE  LET t == Transferred(qs)
             timer == Peek(qs.timerQueue)
         IN  /\ QueuesOK(t) /\ SameTasks(t.tasks, qs.tasks)
             /\ Range(t.taskQueue) = Range(qs.taskQueue) \cup {timer}
             /\ Range(t.timerQueue) = Range(qs.timerQueue) \ {timer}
<1> DEFINE p == Popped(qs)
           t == Transferred(qs)
           timer == Peek(qs.timerQueue)
           sorted == [qs.tasks EXCEPT ![timer].sortIndex = qs.tasks[timer].expirationTime]
<1>1. /\ qs \in QueueState /\ qs.timerQueue # <<>> /\ qs.timerQueue \in Seq(Nat)
      /\ qs.tasks \in Seq(Task) /\ qs.taskQueue \in Seq(Nat)
      /\ DOMAIN qs.tasks = 1 .. Len(qs.tasks) /\ DOMAIN qs.timerQueue = 1 .. Len(qs.timerQueue)
  BY QueueFields DEF QueuesOK, Peek
<1>2. timer \in Range(qs.timerQueue) /\ timer \in DOMAIN qs.tasks /\ timer \in Nat
  <2>1. timer \in Range(qs.timerQueue)
    BY <1>1, PeekProperties DEF QueuesOK
  <2> QED BY <2>1, <1>1 DEF QueuesOK
<1>3. /\ QueuesOK(p) /\ p.tasks = qs.tasks /\ p.taskQueue = qs.taskQueue
      /\ Range(p.timerQueue) = Range(qs.timerQueue) \ {timer}
  BY PoppedOK
<1>4. /\ t \in QueueState /\ t.tasks = sorted /\ t.timerQueue = p.timerQueue
      /\ t.taskQueue = Push(SortIndex(sorted), qs.taskQueue, timer)
  BY <1>1, TurnFields
<1>5. /\ DOMAIN sorted = DOMAIN qs.tasks
      /\ \A i \in DOMAIN qs.tasks :
           sorted[i] = IF i = timer
                         THEN [qs.tasks[i] EXCEPT !.sortIndex = qs.tasks[i].expirationTime]
                         ELSE qs.tasks[i]
  BY <1>1
<1> HIDE DEF sorted, timer, p, t
<1>6. sorted \in Seq(Task)
  BY <1>4, QueueFields
<1>7. \A i \in DOMAIN qs.tasks : qs.tasks[i] \in Task
  BY <1>1
<1>8. SameTasks(sorted, qs.tasks) /\ sorted[timer].sortIndex = sorted[timer].expirationTime
  BY <1>2, <1>5, <1>7 DEF SameTasks, Task
<1>9. /\ \A i \in Range(qs.taskQueue) : SortIndex(sorted)[i] = SortIndex(qs.tasks)[i]
      /\ \A i \in Range(p.timerQueue) : SortIndex(sorted)[i] = SortIndex(qs.tasks)[i]
  <2>1. timer \notin Range(qs.taskQueue) /\ timer \notin Range(p.timerQueue)
    BY <1>2, <1>3 DEF QueuesOK
  <2>2. Range(qs.taskQueue) \subseteq DOMAIN qs.tasks /\ Range(p.timerQueue) \subseteq DOMAIN qs.tasks
    BY <1>3 DEF QueuesOK
  <2> QED BY <2>1, <2>2, <1>5 DEF SortIndex
<1>10. Ordered(SortIndex(sorted), qs.taskQueue)
  BY <1>1, <1>9, OrderedByNodes DEF QueuesOK
<1>11. Ordered(SortIndex(sorted), t.timerQueue)
  <2>1. p.timerQueue \in Seq(Nat) /\ Ordered(SortIndex(qs.tasks), p.timerQueue)
    BY <1>3, QueueFields DEF QueuesOK
  <2> QED BY <2>1, <1>4, <1>9, OrderedByNodes
<1>12. Keyed(SortIndex(sorted), qs.taskQueue) /\ SortIndex(sorted)[timer] \in Int
  BY <1>2, <1>5, <1>6, KeysOfTasks DEF Keyed, QueuesOK
<1>13. /\ Range(t.taskQueue) = Range(qs.taskQueue) \cup {timer}
       /\ IsInjective(t.taskQueue) /\ Ordered(SortIndex(sorted), t.taskQueue)
  <2>1. timer \notin Range(qs.taskQueue) /\ IsInjective(qs.taskQueue)
    BY <1>2 DEF QueuesOK
  <2>2. Pushed(t.taskQueue, SortIndex(sorted), qs.taskQueue, timer)
    BY <1>1, <1>2, <1>4, PushProperties
  <2> QED BY <2>1, <2>2, <1>10, <1>12 DEF Pushed
<1>14. \A i \in Range(t.taskQueue) : t.tasks[i].sortIndex = t.tasks[i].expirationTime
  <2>1. ASSUME NEW i \in Range(qs.taskQueue) PROVE sorted[i].sortIndex = sorted[i].expirationTime
    <3>1. i \in DOMAIN qs.tasks /\ i # timer /\ qs.tasks[i].sortIndex = qs.tasks[i].expirationTime
      BY <1>2 DEF QueuesOK
    <3> QED BY <3>1, <1>5
  <2> QED BY <2>1, <1>4, <1>8, <1>13
<1>15. \A i \in Range(t.timerQueue) : t.tasks[i].sortIndex = t.tasks[i].startTime
  <2>1. ASSUME NEW i \in Range(p.timerQueue) PROVE sorted[i].sortIndex = sorted[i].startTime
    <3>1. i \in DOMAIN qs.tasks /\ i # timer /\ qs.tasks[i].sortIndex = qs.tasks[i].startTime
      BY <1>3 DEF QueuesOK
    <3> QED BY <3>1, <1>5
  <2> QED BY <2>1, <1>4
<1>16. QueuesOK(t)
  <2>1. /\ IsInjective(t.timerQueue) /\ Range(t.timerQueue) \subseteq DOMAIN t.tasks
        /\ Range(t.taskQueue) \subseteq DOMAIN t.tasks
    BY <1>2, <1>3, <1>4, <1>5, <1>13 DEF QueuesOK
  <2>2. Range(t.taskQueue) \cap Range(t.timerQueue) = {}
    BY <1>3, <1>4, <1>13 DEF QueuesOK
  <2> QED BY <2>1, <2>2, <1>4, <1>11, <1>13, <1>14, <1>15 DEF QueuesOK
<1> QED BY <1>3, <1>4, <1>8, <1>13, <1>16 DEF t, timer

\* What each turn keeps the whole loop keeps.
LEMMA AdvancedKeeps ==
  ASSUME NEW time, NEW good, good \subseteq QueueState,
         \A qs \in good : GoesOn(qs, time) => NextQueues(qs) \in good,
         NEW start \in good
  PROVE  Advanced(start, time) \in { qs \in good : ~GoesOn(qs, time) }
<1> DEFINE again == { qs \in QueueState : GoesOn(qs, time) }
           next == [qs \in QueueState |-> NextQueues(qs)]
           out == [qs \in QueueState |-> qs]
           size == [qs \in QueueState |-> Len(qs.timerQueue)]
           timer(qs) == Peek(qs.timerQueue)
           turn(f, qs) == IF timer(qs) = 0 THEN qs
                          ELSE IF ~qs.tasks[timer(qs)].callback THEN f[Popped(qs)]
                          ELSE IF qs.tasks[timer(qs)].startTime <= time THEN f[Transferred(qs)]
                          ELSE qs
           advance == CHOOSE f : f = [qs \in QueueState |-> turn(f, qs)]
           results == { qs \in good : ~GoesOn(qs, time) }
<1>1. Advanced(start, time) = advance[start]
  BY DEF Advanced
<1>2. Decreases(QueueState, again, next, size)
  <2>1. \A qs \in QueueState : size[qs] \in Nat
    BY QueueFields
  <2>2. \A qs \in again : Peek(qs.timerQueue) # 0 /\ next[qs] = NextQueues(qs)
    BY DEF GoesOn
  <2>3. \A qs \in again : next[qs] \in QueueState /\ size[next[qs]] < size[qs]
    BY <2>2, NextIsState
  <2> QED BY <2>1, <2>3 DEF Decreases
<1>3. \A f : \A qs \in QueueState :
        turn(f, qs) = IF qs \in again THEN f[next[qs]] ELSE out[qs]
  BY DEF GoesOn, NextQueues
<1>4. \A f : IsLoop(f, QueueState, again, next, out) <=> f = [qs \in QueueState |-> turn(f, qs)]
  <2> SUFFICES ASSUME NEW f
               PROVE  [qs \in QueueState |-> IF qs \in again THEN f[next[qs]] ELSE out[qs]]
                        = [qs \in QueueState |-> turn(f, qs)]
    BY DEF IsLoop
  <2> HIDE DEF turn, again, next, out
  <2> QED BY <1>3
<1>5. IsLoop(advance, QueueState, again, next, out)
  <2> HIDE DEF again, next, out, size, turn
  <2>1. \E f : IsLoop(f, QueueState, again, next, out)
    BY <1>2, LoopEnds
  <2> QED BY <2>1, <1>4
<1>6. Keeps(good, results, QueueState, again, next, out)
  BY DEF Keeps
<1> HIDE DEF advance, again, next, out, size, results
<1>7. \A qs \in good : advance[qs] \in results
  BY <1>2, <1>5, <1>6, LoopKeeps
<1> QED BY <1>1, <1>7 DEF results

\* What advancing comes to: no task is lost, and no timer that is due is left.
AdvancedFrom(r, qs) ==
  /\ QueuesOK(r) /\ SameTasks(r.tasks, qs.tasks)
  /\ Queued(qs) => Queued(r)
  /\ Range(qs.taskQueue) \subseteq Range(r.taskQueue)

LEMMA AdvancedOK ==
  ASSUME NEW qs, QueuesOK(qs), NEW time \in Int
  PROVE  AdvancedFrom(Advanced(qs, time), qs) /\ TimersAfter(Advanced(qs, time), time)
<1> DEFINE good == { r \in QueueState : AdvancedFrom(r, qs) }
<1>1. qs \in good
  BY DEF AdvancedFrom, SameTasks, QueuesOK
<1>2. ASSUME NEW r \in good, GoesOn(r, time) PROVE NextQueues(r) \in good
  <2> DEFINE timer == Peek(r.timerQueue)
  <2>1. r \in QueueState /\ AdvancedFrom(r, qs) /\ timer # 0 /\ QueuesOK(r)
    BY <1>2 DEF GoesOn, AdvancedFrom
  <2>2. NextQueues(r) \in QueueState
    BY <2>1, NextIsState
  <2> HIDE DEF timer, good
  <2>3. CASE r.tasks[timer].callback
    <3> DEFINE t == Transferred(r)
    <3>1. /\ QueuesOK(t) /\ SameTasks(t.tasks, r.tasks)
          /\ Range(t.taskQueue) = Range(r.taskQueue) \cup {timer}
          /\ Range(t.timerQueue) = Range(r.timerQueue) \ {timer}
      BY <2>1, TransferredOK DEF timer
    <3> HIDE DEF t
    <3>2. AdvancedFrom(t, qs)
      BY <2>1, <3>1 DEF AdvancedFrom, SameTasks, Queued
    <3>3. NextQueues(r) = t
      BY <2>3 DEF NextQueues, t, timer
    <3> QED BY <2>2, <3>2, <3>3 DEF good
  <2>4. CASE ~r.tasks[timer].callback
    <3> DEFINE t == Popped(r)
    <3>1. /\ QueuesOK(t) /\ t.tasks = r.tasks /\ t.taskQueue = r.taskQueue
          /\ Range(t.timerQueue) = Range(r.timerQueue) \ {timer}
      BY <2>1, PoppedOK DEF timer
    <3> HIDE DEF t
    <3>2. AdvancedFrom(t, qs)
      BY <2>1, <2>4, <3>1 DEF AdvancedFrom, SameTasks, Queued
    <3>3. NextQueues(r) = t
      BY <2>4 DEF NextQueues, t, timer
    <3> QED BY <2>2, <3>2, <3>3 DEF good
  <2> QED BY <2>3, <2>4
<1> HIDE DEF good
<1>3. good \subseteq QueueState
  BY DEF good
<1>4. Advanced(qs, time) \in { r \in good : ~GoesOn(r, time) }
  BY <1>1, <1>2, <1>3, AdvancedKeeps
<1> DEFINE r == Advanced(qs, time)
<1> HIDE DEF r
<1>5. QueuesOK(r) /\ AdvancedFrom(r, qs) /\ ~GoesOn(r, time)
  BY <1>4 DEF good, r, AdvancedFrom
<1>6. TimersAfter(r, time)
  <2> SUFFICES ASSUME NEW t \in Range(r.timerQueue) PROVE r.tasks[t].startTime > time
    BY DEF TimersAfter
  <2>1. /\ r.tasks \in Seq(Task) /\ r.timerQueue \in Seq(Nat) /\ r.timerQueue # <<>>
        /\ Range(r.timerQueue) \subseteq DOMAIN r.tasks
        /\ Ordered(SortIndex(r.tasks), r.timerQueue)
    BY <1>5, QueueFields DEF QueuesOK, Range
  <2> DEFINE first == Peek(r.timerQueue)
  <2>2. /\ first # 0 /\ first \in Range(r.timerQueue)
        /\ r.tasks[first].sortIndex <= r.tasks[t].sortIndex
    BY <2>1, PeekProperties
  <2>3. ~(r.tasks[first].startTime <= time)
    BY <1>5, <2>2 DEF GoesOn
  <2> HIDE DEF first
  <2>5. r.tasks[first] \in Task /\ r.tasks[t] \in Task
    BY <2>1, <2>2
  <2>4. /\ r.tasks[first].sortIndex = r.tasks[first].startTime
        /\ r.tasks[t].sortIndex = r.tasks[t].startTime
        /\ r.tasks[first].startTime \in Int /\ r.tasks[t].startTime \in Int
    BY <1>5, <2>2, <2>5 DEF QueuesOK, Task
  <2> QED BY <2>2, <2>3, <2>4
<1> QED BY <1>5, <1>6 DEF r
-----------------------------------------------------------------------------
(***************************************************************************)
(* 4. The queues in each step.                                             *)
(***************************************************************************)
\* A new task gets an ID that no queue has yet.
LEMMA NewTaskKeeps ==
  ASSUME NEW ts \in Seq(Task), NEW task \in Task, NEW heap \in Seq(Nat),
         Range(heap) \subseteq DOMAIN ts, Ordered(SortIndex(ts), heap)
  PROVE  LET us == Append(ts, task)
             id == Len(ts) + 1
         IN  /\ us \in Seq(Task) /\ DOMAIN us = DOMAIN ts \cup {id} /\ Len(us) = id
             /\ id \in Nat /\ id \notin DOMAIN ts
             /\ us[id] = task /\ \A t \in DOMAIN ts : us[t] = ts[t]
             /\ Ordered(SortIndex(us), heap)
             /\ Pushed(Push(SortIndex(us), heap, id), SortIndex(us), heap, id)
             /\ Keyed(SortIndex(us), heap) /\ SortIndex(us)[id] \in Int
<1> DEFINE us == Append(ts, task)
           id == Len(ts) + 1
<1>1. /\ us \in Seq(Task) /\ DOMAIN us = DOMAIN ts \cup {id} /\ Len(us) = id
      /\ id \in Nat /\ id \notin DOMAIN ts
      /\ us[id] = task /\ \A t \in DOMAIN ts : us[t] = ts[t]
  OBVIOUS
<1> HIDE DEF us, id
<1>2. \A t \in Range(heap) : SortIndex(us)[t] = SortIndex(ts)[t]
  BY <1>1 DEF SortIndex
<1>3. Ordered(SortIndex(us), heap)
  BY <1>2, OrderedByNodes
<1>4. Keyed(SortIndex(us), heap) /\ SortIndex(us)[id] \in Int
  BY <1>1, KeysOfTasks DEF Keyed
<1>5. Pushed(Push(SortIndex(us), heap, id), SortIndex(us), heap, id)
  BY <1>1, PushProperties
<1> QED BY <1>1, <1>3, <1>4, <1>5 DEF us, id

State(ts, tq, mq) == [tasks |-> ts, taskQueue |-> tq, timerQueue |-> mq]

LEMMA StateFields ==
  ASSUME NEW ts, NEW tq, NEW mq
  PROVE  /\ State(ts, tq, mq).tasks = ts /\ State(ts, tq, mq).taskQueue = tq
         /\ State(ts, tq, mq).timerQueue = mq
         /\ State(ts, tq, mq) \in QueueState <=>
              ts \in Seq(Task) /\ tq \in Seq(Nat) /\ mq \in Seq(Nat)
BY DEF State, QueueState

LEMMA StateOK ==
  ASSUME NEW ts, NEW tq, NEW mq
  PROVE  /\ QueuesOK(State(ts, tq, mq)) <=>
              /\ ts \in Seq(Task) /\ tq \in Seq(Nat) /\ mq \in Seq(Nat)
              /\ IsInjective(tq) /\ IsInjective(mq)
              /\ Range(tq) \subseteq DOMAIN ts /\ Range(mq) \subseteq DOMAIN ts
              /\ Range(tq) \cap Range(mq) = {}
              /\ Ordered(SortIndex(ts), tq) /\ Ordered(SortIndex(ts), mq)
              /\ \A t \in Range(tq) : ts[t].sortIndex = ts[t].expirationTime
              /\ \A t \in Range(mq) : ts[t].sortIndex = ts[t].startTime
         /\ Queued(State(ts, tq, mq)) <=>
              \A t \in DOMAIN ts : ts[t].callback => t \in Range(tq) \cup Range(mq)
<1> DEFINE qs == State(ts, tq, mq)
<1>1. qs.tasks = ts /\ qs.taskQueue = tq /\ qs.timerQueue = mq
  BY StateFields
<1>2. qs \in QueueState <=> ts \in Seq(Task) /\ tq \in Seq(Nat) /\ mq \in Seq(Nat)
  BY StateFields
<1> HIDE DEF qs
<1>3. QueuesOK(qs) <=>
        /\ ts \in Seq(Task) /\ tq \in Seq(Nat) /\ mq \in Seq(Nat)
        /\ IsInjective(tq) /\ IsInjective(mq)
        /\ Range(tq) \subseteq DOMAIN ts /\ Range(mq) \subseteq DOMAIN ts
        /\ Range(tq) \cap Range(mq) = {}
        /\ Ordered(SortIndex(ts), tq) /\ Ordered(SortIndex(ts), mq)
        /\ \A t \in Range(tq) : ts[t].sortIndex = ts[t].expirationTime
        /\ \A t \in Range(mq) : ts[t].sortIndex = ts[t].startTime
  BY <1>1, <1>2, Zenon DEF QueuesOK
<1>4. Queued(qs) <=>
        \A t \in DOMAIN ts : ts[t].callback => t \in Range(tq) \cup Range(mq)
  BY <1>1, Zenon DEF Queued
<1> QED BY <1>3, <1>4 DEF qs

LEMMA ScheduledOK ==
  ASSUME NEW ts, NEW tq, NEW mq, QueuesOK(State(ts, tq, mq)), Queued(State(ts, tq, mq)),
         NEW task \in Task
  PROVE  LET us == Append(ts, task)
             id == Len(ts) + 1
             now_ == State(us, Push(SortIndex(us), tq, id), mq)
             later == State(us, tq, Push(SortIndex(us), mq, id))
         IN  /\ us \in Seq(Task) /\ id \in Nat /\ id \notin DOMAIN ts
             /\ DOMAIN us = DOMAIN ts \cup {id} /\ Len(us) = id
             /\ us[id] = task /\ \A t \in DOMAIN ts : us[t] = ts[t]
             /\ task.sortIndex = task.expirationTime => QueuesOK(now_) /\ Queued(now_)
             /\ Range(now_.taskQueue) = Range(tq) \cup {id}
             /\ task.sortIndex = task.startTime => QueuesOK(later) /\ Queued(later)
             /\ Range(later.timerQueue) = Range(mq) \cup {id}
<1> DEFINE us == Append(ts, task)
           id == Len(ts) + 1
           tq2 == Push(SortIndex(us), tq, id)
           mq2 == Push(SortIndex(us), mq, id)
<1>1. /\ ts \in Seq(Task) /\ tq \in Seq(Nat) /\ mq \in Seq(Nat)
      /\ Range(tq) \subseteq DOMAIN ts /\ Range(mq) \subseteq DOMAIN ts
      /\ Range(tq) \cap Range(mq) = {} /\ IsInjective(tq) /\ IsInjective(mq)
      /\ Ordered(SortIndex(ts), tq) /\ Ordered(SortIndex(ts), mq)
      /\ \A t \in Range(tq) : ts[t].sortIndex = ts[t].expirationTime
      /\ \A t \in Range(mq) : ts[t].sortIndex = ts[t].startTime
      /\ \A t \in DOMAIN ts : ts[t].callback => t \in Range(tq) \cup Range(mq)
  BY StateOK
<1>2. /\ us \in Seq(Task) /\ DOMAIN us = DOMAIN ts \cup {id} /\ Len(us) = id
      /\ id \in Nat /\ id \notin DOMAIN ts
      /\ us[id] = task /\ \A t \in DOMAIN ts : us[t] = ts[t]
      /\ Ordered(SortIndex(us), tq)
      /\ Pushed(tq2, SortIndex(us), tq, id)
      /\ Keyed(SortIndex(us), tq) /\ SortIndex(us)[id] \in Int
  BY <1>1, NewTaskKeeps
<1>3. /\ Ordered(SortIndex(us), mq)
      /\ Pushed(mq2, SortIndex(us), mq, id)
      /\ Keyed(SortIndex(us), mq)
  BY <1>1, NewTaskKeeps
<1> HIDE DEF us, id, tq2, mq2
<1>4. /\ tq2 \in Seq(Nat) /\ IsInjective(tq2) /\ Ordered(SortIndex(us), tq2)
      /\ Range(tq2) = Range(tq) \cup {id}
  BY <1>1, <1>2 DEF Pushed
<1>5. /\ mq2 \in Seq(Nat) /\ IsInjective(mq2) /\ Ordered(SortIndex(us), mq2)
      /\ Range(mq2) = Range(mq) \cup {id}
  BY <1>1, <1>2, <1>3 DEF Pushed
<1>6. ASSUME task.sortIndex = task.expirationTime
      PROVE  QueuesOK(State(us, tq2, mq)) /\ Queued(State(us, tq2, mq))
  <2>1. \A t \in Range(tq2) : us[t].sortIndex = us[t].expirationTime
    BY <1>1, <1>2, <1>4, <1>6
  <2>2. \A t \in Range(mq) : us[t].sortIndex = us[t].startTime
    BY <1>1, <1>2
  <2>3. \A t \in DOMAIN us : us[t].callback => t \in Range(tq2) \cup Range(mq)
    BY <1>1, <1>2, <1>4
  <2>4. /\ Range(tq2) \cap Range(mq) = {} /\ Range(tq2) \subseteq DOMAIN us
        /\ Range(mq) \subseteq DOMAIN us
    BY <1>1, <1>2, <1>4
  <2> QED BY <1>1, <1>2, <1>3, <1>4, <2>1, <2>2, <2>3, <2>4, StateOK
<1>7. ASSUME task.sortIndex = task.startTime
      PROVE  QueuesOK(State(us, tq, mq2)) /\ Queued(State(us, tq, mq2))
  <2>1. \A t \in Range(tq) : us[t].sortIndex = us[t].expirationTime
    BY <1>1, <1>2
  <2>2. \A t \in Range(mq2) : us[t].sortIndex = us[t].startTime
    BY <1>1, <1>2, <1>5, <1>7
  <2>3. \A t \in DOMAIN us : us[t].callback => t \in Range(tq) \cup Range(mq2)
    BY <1>1, <1>2, <1>5
  <2>4. /\ Range(tq) \cap Range(mq2) = {} /\ Range(tq) \subseteq DOMAIN us
        /\ Range(mq2) \subseteq DOMAIN us
    BY <1>1, <1>2, <1>5
  <2> QED BY <1>1, <1>2, <1>3, <1>5, <2>1, <2>2, <2>3, <2>4, StateOK
<1> QED BY <1>2, <1>4, <1>5, <1>6, <1>7, StateFields DEF us, id, tq2, mq2

\* Tasks that keep their times and keys, whatever becomes of their callbacks.
LEMMA CallbacksChangeOK ==
  ASSUME NEW ts, NEW tq, NEW mq, QueuesOK(State(ts, tq, mq)),
         NEW us \in Seq(Task), DOMAIN us = DOMAIN ts,
         \A t \in DOMAIN ts : /\ us[t].sortIndex = ts[t].sortIndex
                              /\ us[t].startTime = ts[t].startTime
                              /\ us[t].expirationTime = ts[t].expirationTime
  PROVE  QueuesOK(State(us, tq, mq))
<1>1. SortIndex(us) = SortIndex(ts)
  BY DEF SortIndex
<1>2. Range(tq) \subseteq DOMAIN ts /\ Range(mq) \subseteq DOMAIN ts
  BY StateOK
<1>3. \A t \in Range(tq) : us[t].sortIndex = us[t].expirationTime
  BY <1>2, StateOK
<1>4. \A t \in Range(mq) : us[t].sortIndex = us[t].startTime
  BY <1>2, StateOK
<1>5. /\ tq \in Seq(Nat) /\ mq \in Seq(Nat) /\ IsInjective(tq) /\ IsInjective(mq)
      /\ Range(tq) \cap Range(mq) = {}
  BY StateOK
<1>6. Range(tq) \subseteq DOMAIN us /\ Range(mq) \subseteq DOMAIN us
  BY <1>2
<1>7. Ordered(SortIndex(us), tq) /\ Ordered(SortIndex(us), mq)
  BY <1>1, StateOK
<1> QED BY <1>3, <1>4, <1>5, <1>6, <1>7, StateOK

LEMMA FirstRemovedOK ==
  ASSUME NEW ts, NEW tq, NEW mq, QueuesOK(State(ts, tq, mq)), tq # <<>>
  PROVE  LET popped == Pop(SortIndex(ts), tq)
         IN  QueuesOK(State(ts, popped, mq)) /\ Range(popped) = Range(tq) \ {Peek(tq)}
<1> DEFINE popped == Pop(SortIndex(ts), tq)
<1>1. /\ ts \in Seq(Task) /\ tq \in Seq(Nat) /\ Range(tq) \subseteq DOMAIN ts
      /\ IsInjective(tq) /\ Ordered(SortIndex(ts), tq)
  BY StateOK
<1>2. Keyed(SortIndex(ts), tq) /\ IsHeap(tq) /\ Peek(tq) = tq[1]
  BY <1>1, KeysOfTasks DEF Keyed, IsHeap, Peek
<1>3. /\ IsHeap(popped) /\ Ordered(SortIndex(ts), popped)
      /\ Range(popped) = Range(tq) \ {Peek(tq)}
  BY <1>1, <1>2, PopProperties
<1> HIDE DEF popped
<1>4. QueuesOK(State(ts, popped, mq))
  BY <1>3, StateOK, SMTT(60) DEF IsHeap
<1> QED BY <1>3, <1>4 DEF popped
-----------------------------------------------------------------------------
Q == State(tasks, taskQueue, timerQueue)

ClockInv ==
  /\ now \in Nat /\ currentTime \in Int /\ -1 <= currentTime /\ currentTime <= now

FlagsInv ==
  {isHostCallbackScheduled, isHostTimeoutScheduled, hasTimeRemaining} \subseteq BOOLEAN

\* The task that the loop has looked at is the first one, and the one that is being
\* called cannot be called again.
StageInv ==
  /\ stage \in {"idle", "loop", "callback"}
  /\ stage = "idle" => currentTask = 0 /\ currentTime = None
  /\ stage = "loop" => currentTask = Peek(taskQueue) /\ TimersAfter(Q, currentTime)
  /\ stage = "callback" => currentTask \in Range(taskQueue) /\ ~HasCallback(currentTask)

QueueInv == QueuesOK(Q) /\ Queued(Q) /\ ClockInv /\ FlagsInv /\ StageInv

LEMMA InitQueue == Init => QueueInv
<1> SUFFICES ASSUME Init PROVE QueueInv
  OBVIOUS
<1>1. tasks = <<>> /\ taskQueue = <<>> /\ timerQueue = <<>>
  BY DEF Init
<1>2. QueuesOK(State(<<>>, <<>>, <<>>)) /\ Queued(State(<<>>, <<>>, <<>>))
  <2> DEFINE none == <<>>
  <2>1. /\ none \in Seq(Task) /\ none \in Seq(Nat) /\ IsInjective(none) /\ Range(none) = {}
        /\ Ordered(SortIndex(none), none) /\ DOMAIN none = {}
    BY DEF IsInjective, Range, Ordered
  <2> HIDE DEF none
  <2>2. /\ Range(none) \subseteq DOMAIN none /\ Range(none) \cap Range(none) = {}
        /\ \A t \in Range(none) : none[t].sortIndex = none[t].expirationTime
        /\ \A t \in Range(none) : none[t].sortIndex = none[t].startTime
        /\ \A t \in DOMAIN none : none[t].callback => t \in Range(none) \cup Range(none)
    BY <2>1
  <2>3. QueuesOK(State(none, none, none)) /\ Queued(State(none, none, none))
    BY <2>1, <2>2, StateOK, Zenon
  <2> QED BY <2>3 DEF none
<1>3. ClockInv
  BY DEF Init, ClockInv, None
<1>4. FlagsInv /\ StageInv
  BY DEF Init, FlagsInv, StageInv
<1> QED BY <1>1, <1>2, <1>3, <1>4 DEF QueueInv, Q

LEMMA ScheduleQueue ==
  ASSUME QueueInv, ScheduleNow \/ ScheduleDelayed
  PROVE  /\ QueueInv'
         /\ \E task \in Task :
              /\ tasks' = Append(tasks, task) /\ task.callback
              /\ task.startTime \in 0 .. MaxTime
              /\ task.expirationTime = task.startTime + Timeout[NextID]
         /\ NextID \in 1 .. MaxTasks
<1> DEFINE id == Len(tasks) + 1
           us(task) == Append(tasks, task)
<1>1. /\ tasks \in Seq(Task) /\ Len(tasks) \in Nat /\ now \in Nat /\ now <= MaxTime
      /\ QueuesOK(Q) /\ Queued(Q) /\ id \in 1 .. MaxTasks
  BY SchedulerAssumption, StateOK, SMTT(60)
     DEF QueueInv, Q, ClockInv, ScheduleNow, ScheduleDelayed, CanSchedule
<1>2. Timeout[id] \in Int /\ Delay[id] \in Nat
  BY <1>1, SchedulerAssumption
<1>3. /\ UNCHANGED <<currentTask, stage, currentTime, hasTimeRemaining, now>>
      /\ stage \in {"idle", "callback"}
  BY DEF ScheduleNow, ScheduleDelayed, CanSchedule, working
<1>4. FlagsInv'
  BY DEF ScheduleNow, ScheduleDelayed, flags, working, FlagsInv, QueueInv
<1>5. PICK task \in Task :
         /\ tasks' = us(task) /\ task.callback
         /\ task.startTime \in 0 .. MaxTime
         /\ task.expirationTime = task.startTime + Timeout[id]
         /\ \/ /\ task.sortIndex = task.expirationTime
               /\ taskQueue' = Push(SortIndex(us(task)), taskQueue, id)
               /\ timerQueue' = timerQueue
            \/ /\ task.sortIndex = task.startTime
               /\ timerQueue' = Push(SortIndex(us(task)), timerQueue, id)
               /\ taskQueue' = taskQueue
  <2>1. CASE ScheduleNow
    <3> DEFINE task == NewTask(now, now + Timeout[id], now + Timeout[id])
    <3>1. task \in Task /\ task.callback
      BY <1>1, <1>2 DEF NewTask, Task
    <3>2. /\ task.startTime = now /\ task.expirationTime = now + Timeout[id]
          /\ task.sortIndex = now + Timeout[id]
      BY DEF NewTask
    <3>3. /\ tasks' = us(task) /\ timerQueue' = timerQueue
          /\ taskQueue' = Push(SortIndex(us(task)), taskQueue, id)
      BY <2>1 DEF ScheduleNow, NextID
    <3> HIDE DEF task, us, id
    <3> QED BY <1>1, SchedulerAssumption, <3>1, <3>2, <3>3
  <2>2. CASE ScheduleDelayed
    <3> DEFINE start == now + Delay[id]
               task == NewTask(start, start + Timeout[id], start)
    <3>0. start \in 0 .. MaxTime
      BY <1>1, <1>2, <2>2, SchedulerAssumption DEF ScheduleDelayed, NextID
    <3>1. task \in Task /\ task.callback
      BY <1>1, <1>2 DEF NewTask, Task
    <3>2. /\ task.startTime = start /\ task.expirationTime = start + Timeout[id]
          /\ task.sortIndex = start
      BY DEF NewTask
    <3>3. /\ tasks' = us(task) /\ taskQueue' = taskQueue
          /\ timerQueue' = Push(SortIndex(us(task)), timerQueue, id)
      BY <2>2 DEF ScheduleDelayed, NextID
    <3> HIDE DEF task, us, id, start
    <3> QED BY <3>0, <3>1, <3>2, <3>3
  <2> QED BY <2>1, <2>2
<1>6. /\ QueuesOK(Q') /\ Queued(Q') /\ Range(taskQueue) \subseteq Range(taskQueue')
      /\ \A t \in DOMAIN tasks : tasks'[t] = tasks[t]
  <2> DEFINE tq == Push(SortIndex(us(task)), taskQueue, id)
             mq == Push(SortIndex(us(task)), timerQueue, id)
  <2>1. /\ \A t \in DOMAIN tasks : us(task)[t] = tasks[t]
        /\ task.sortIndex = task.expirationTime
             => QueuesOK(State(us(task), tq, timerQueue)) /\ Queued(State(us(task), tq, timerQueue))
        /\ Range(State(us(task), tq, timerQueue).taskQueue) = Range(taskQueue) \cup {id}
        /\ task.sortIndex = task.startTime
             => QueuesOK(State(us(task), taskQueue, mq)) /\ Queued(State(us(task), taskQueue, mq))
    BY <1>1, ScheduledOK DEF Q
  <2>2. Range(tq) = Range(taskQueue) \cup {id}
    BY <2>1, StateFields
  <2>3. Q' = State(tasks', taskQueue', timerQueue')
    BY DEF Q
  <2> HIDE DEF tq, mq, us, id
  <2> QED BY <1>5, <2>1, <2>2, <2>3 DEF tq, mq
<1>7. ClockInv'
  BY <1>3 DEF QueueInv, ClockInv
<1>8. StageInv'
  <2>1. Range(taskQueue) \subseteq DOMAIN tasks
    BY <1>1, StateOK DEF Q
  <2> QED BY <1>3, <1>6, <2>1 DEF StageInv, QueueInv, HasCallback
<1> QED BY <1>1, <1>4, <1>5, <1>6, <1>7, <1>8 DEF QueueInv, NextID

LEMMA AdvancedQueue ==
  ASSUME NEW qs, QueuesOK(qs), Queued(qs), now \in Nat, Become(Advanced(qs, now))
  PROVE  /\ QueuesOK(Q') /\ Queued(Q') /\ TimersAfter(Q', now)
         /\ SameTasks(tasks', qs.tasks) /\ Range(qs.taskQueue) \subseteq Range(taskQueue')
<1> DEFINE r == Advanced(qs, now)
<1>1. AdvancedFrom(r, qs) /\ TimersAfter(r, now)
  BY AdvancedOK
<1>2. tasks' = r.tasks /\ taskQueue' = r.taskQueue /\ timerQueue' = r.timerQueue
  BY DEF Become
<1> HIDE DEF r
<1>3. r \in QueueState
  BY <1>1 DEF AdvancedFrom, QueuesOK
<1>4. Q' = r
  BY <1>2, <1>3, QueueFields DEF Q, State
<1> QED BY <1>1, <1>2, <1>4 DEF AdvancedFrom

LEMMA QueuesIsQ == Queues = Q
BY DEF Queues, Q, State

LEMMA QueueDomains ==
  ASSUME QueueInv
  PROVE  /\ tasks \in Seq(Task) /\ taskQueue \in Seq(Nat) /\ timerQueue \in Seq(Nat)
         /\ Range(taskQueue) \subseteq DOMAIN tasks /\ Range(timerQueue) \subseteq DOMAIN tasks
         /\ DOMAIN tasks = 1 .. Len(tasks) /\ Len(tasks) \in Nat
         /\ \A t \in DOMAIN tasks : t \in Nat /\ t # 0 /\ tasks[t] \in Task
         /\ now \in Nat /\ currentTime \in Int
BY StateOK DEF QueueInv, Q, ClockInv

LEMMA CancelQueue ==
  ASSUME QueueInv, NEW t \in DOMAIN tasks, Cancel(t)
  PROVE  QueueInv'
<1> DEFINE ts == [tasks EXCEPT ![t].callback = FALSE]
<1>1. tasks \in Seq(Task) /\ tasks[t] \in Task
  BY QueueDomains
<1>2. /\ ts \in Seq(Task) /\ DOMAIN ts = DOMAIN tasks
      /\ \A u \in DOMAIN tasks : /\ ts[u].sortIndex = tasks[u].sortIndex
                                 /\ ts[u].startTime = tasks[u].startTime
                                 /\ ts[u].expirationTime = tasks[u].expirationTime
                                 /\ ts[u].callback => tasks[u].callback
  <2> DEFINE task == [tasks[t] EXCEPT !.callback = FALSE]
  <2>1. task \in Task /\ task.sortIndex = tasks[t].sortIndex /\ ~task.callback
        /\ task.startTime = tasks[t].startTime /\ task.expirationTime = tasks[t].expirationTime
    BY <1>1 DEF Task
  <2>2. ts = [tasks EXCEPT ![t] = task]
    OBVIOUS
  <2> HIDE DEF task, ts
  <2> QED BY <1>1, <2>1, <2>2
<1>3. /\ tasks' = ts
      /\ UNCHANGED <<taskQueue, timerQueue, currentTask, stage, currentTime, now>>
  BY DEF Cancel, working
<1> HIDE DEF ts
<1>4. QueuesOK(Q')
  BY <1>2, <1>3, CallbacksChangeOK DEF Q, QueueInv
<1>5. Queued(Q')
  BY <1>2, <1>3, StateOK DEF Q, QueueInv
<1>6. ClockInv' /\ FlagsInv'
  BY DEF Cancel, flags, working, QueueInv, ClockInv, FlagsInv
<1>7. StageInv'
  <2>1. stage \in {"idle", "callback"}
    BY DEF Cancel
  <2>2. Range(taskQueue) \subseteq DOMAIN tasks
    BY QueueDomains
  <2> QED BY <1>2, <1>3, <2>1, <2>2 DEF StageInv, QueueInv, HasCallback
<1> QED BY <1>4, <1>5, <1>6, <1>7 DEF QueueInv

LEMMA ShouldYieldQueue ==
  ASSUME QueueInv, ShouldYield
  PROVE  QueueInv' /\ SameTasks(tasks', tasks)
<1>1. QueuesOK(Q) /\ Queued(Q) /\ now \in Nat /\ Become(Advanced(Q, now))
  BY QueuesIsQ DEF QueueInv, ClockInv, ShouldYield
<1>2. /\ QueuesOK(Q') /\ Queued(Q') /\ SameTasks(tasks', tasks)
      /\ Range(taskQueue) \subseteq Range(taskQueue')
  BY <1>1, AdvancedQueue, StateFields DEF Q
<1>3. UNCHANGED <<currentTask, stage, currentTime, now>> /\ stage = "callback"
  BY DEF ShouldYield, working
<1>4. ClockInv' /\ FlagsInv'
  BY DEF ShouldYield, flags, working, QueueInv, ClockInv, FlagsInv
<1>5. StageInv'
  <2>1. Range(taskQueue) \subseteq DOMAIN tasks
    BY QueueDomains
  <2> QED BY <1>2, <1>3, <2>1 DEF StageInv, QueueInv, HasCallback, SameTasks
<1> QED BY <1>2, <1>4, <1>5 DEF QueueInv

LEMMA FlushQueue ==
  ASSUME QueueInv, NEW received, NEW name, FlushWork(received, name), now' = now
  PROVE  QueueInv' /\ SameTasks(tasks', tasks)
<1>1. QueuesOK(Q) /\ Queued(Q) /\ now \in Nat /\ Become(Advanced(Q, now))
  BY QueuesIsQ DEF QueueInv, ClockInv, FlushWork
<1>2. /\ QueuesOK(Q') /\ Queued(Q') /\ TimersAfter(Q', now) /\ SameTasks(tasks', tasks)
  BY <1>1, AdvancedQueue, StateFields DEF Q
<1>3. stage' = "loop" /\ currentTime' = now /\ currentTask' = Peek(taskQueue')
  BY QueuesIsQ DEF FlushWork, Become
<1>4. ClockInv'
  BY <1>1, <1>3 DEF ClockInv
<1>5. FlagsInv'
  BY DEF FlushWork, FlagCleared, HasTimeRemaining, FlagsInv
<1>6. StageInv'
  BY <1>2, <1>3 DEF StageInv
<1> QED BY <1>2, <1>4, <1>5, <1>6 DEF QueueInv

LEMMA TimeoutQueue ==
  ASSUME QueueInv, NEW due, TimeoutFires(due)
  PROVE  QueueInv' /\ SameTasks(tasks', tasks) /\ TimersAfter(Q', now)
<1>1. QueuesOK(Q) /\ Queued(Q) /\ now \in Nat /\ Become(Advanced(Q, now))
  BY QueuesIsQ DEF QueueInv, ClockInv, TimeoutFires
<1>2. /\ QueuesOK(Q') /\ Queued(Q') /\ SameTasks(tasks', tasks) /\ TimersAfter(Q', now)
  BY <1>1, AdvancedQueue, StateFields DEF Q
<1>3. UNCHANGED <<currentTask, stage, currentTime, hasTimeRemaining, now>> /\ stage = "idle"
  BY DEF TimeoutFires, working
<1>4. ClockInv'
  BY <1>3 DEF QueueInv, ClockInv
<1>5. FlagsInv'
  BY <1>3 DEF TimeoutFires, QueueInv, FlagsInv
<1>6. StageInv'
  BY <1>3 DEF StageInv, QueueInv
<1> QED BY <1>2, <1>4, <1>5, <1>6 DEF QueueInv

LEMMA DropQueue ==
  ASSUME QueueInv, DropTask
  PROVE  QueueInv'
<1>1. /\ taskQueue' = Pop(SortIndex(tasks), taskQueue) /\ currentTask' = Peek(taskQueue')
      /\ UNCHANGED <<tasks, timerQueue, stage, currentTime, hasTimeRemaining, now>>
      /\ stage = "loop" /\ currentTask # 0 /\ ~HasCallback(currentTask)
  BY DEF DropTask, working
<1>2. currentTask = Peek(taskQueue) /\ TimersAfter(Q, currentTime) /\ taskQueue # <<>>
  BY <1>1 DEF QueueInv, StageInv, Peek
<1>3. QueuesOK(Q') /\ Range(taskQueue') = Range(taskQueue) \ {currentTask}
  <2>1. /\ QueuesOK(State(tasks, Pop(SortIndex(tasks), taskQueue), timerQueue))
        /\ Range(Pop(SortIndex(tasks), taskQueue)) = Range(taskQueue) \ {Peek(taskQueue)}
    BY <1>2, FirstRemovedOK DEF QueueInv, Q
  <2> QED BY <1>1, <1>2, <2>1 DEF Q
<1>4. Queued(Q')
  BY <1>1, <1>3, StateOK DEF QueueInv, Q, HasCallback
<1>5. TimersAfter(Q', currentTime')
  BY <1>1, <1>2, StateFields DEF TimersAfter, Q
<1>6. ClockInv' /\ FlagsInv'
  BY DEF DropTask, flags, working, QueueInv, ClockInv, FlagsInv
<1>7. StageInv'
  BY <1>1, <1>5 DEF StageInv
<1> QED BY <1>3, <1>4, <1>6, <1>7 DEF QueueInv

\* The task that is called is the first one, and it could be called.
LEMMA RunQueue ==
  ASSUME QueueInv, RunTask
  PROVE  /\ QueueInv'
         /\ currentTask \in Range(taskQueue) /\ currentTask = Peek(taskQueue)
         /\ tasks[currentTask].callback
         /\ DOMAIN tasks' = DOMAIN tasks
         /\ \A t \in DOMAIN tasks :
              /\ tasks'[t].startTime = tasks[t].startTime
              /\ tasks'[t].expirationTime = tasks[t].expirationTime
              /\ tasks'[t].callback <=> tasks[t].callback /\ t # currentTask
<1> DEFINE ts == [tasks EXCEPT ![currentTask].callback = FALSE]
<1>1. /\ tasks' = ts /\ stage' = "callback"
      /\ UNCHANGED <<taskQueue, timerQueue, currentTask, currentTime, hasTimeRemaining, now>>
      /\ stage = "loop" /\ currentTask # 0 /\ tasks[currentTask].callback
  BY DEF RunTask, HasCallback
<1>2. currentTask = Peek(taskQueue) /\ taskQueue # <<>>
  BY <1>1 DEF QueueInv, StageInv, Peek
<1>3. currentTask \in Range(taskQueue)
  BY <1>2, PeekProperties, StateOK DEF QueueInv, Q
<1>4. tasks \in Seq(Task) /\ currentTask \in DOMAIN tasks /\ tasks[currentTask] \in Task
  BY <1>3, QueueDomains
<1>5. /\ ts \in Seq(Task) /\ DOMAIN ts = DOMAIN tasks
      /\ \A u \in DOMAIN tasks : /\ ts[u].sortIndex = tasks[u].sortIndex
                                 /\ ts[u].startTime = tasks[u].startTime
                                 /\ ts[u].expirationTime = tasks[u].expirationTime
                                 /\ ts[u].callback <=> tasks[u].callback /\ u # currentTask
  <2> DEFINE task == [tasks[currentTask] EXCEPT !.callback = FALSE]
  <2>1. /\ task \in Task /\ task.sortIndex = tasks[currentTask].sortIndex /\ ~task.callback
        /\ task.startTime = tasks[currentTask].startTime
        /\ task.expirationTime = tasks[currentTask].expirationTime
    BY <1>4 DEF Task
  <2>2. ts = [tasks EXCEPT ![currentTask] = task]
    OBVIOUS
  <2> HIDE DEF task, ts
  <2> QED BY <1>4, <2>1, <2>2
<1> HIDE DEF ts
<1>6. QueuesOK(Q')
  BY <1>1, <1>5, CallbacksChangeOK DEF Q, QueueInv
<1>7. Queued(Q')
  BY <1>1, <1>5, StateOK DEF Q, QueueInv
<1>8. ClockInv' /\ FlagsInv'
  BY DEF RunTask, flags, working, QueueInv, ClockInv, FlagsInv
<1>9. StageInv'
  BY <1>1, <1>3, <1>4, <1>5 DEF StageInv, HasCallback
<1> QED BY <1>1, <1>2, <1>3, <1>5, <1>6, <1>7, <1>8, <1>9 DEF QueueInv

LEMMA NextTaskQueue ==
  ASSUME QueueInv, NEW qs, QueuesOK(qs), Queued(qs), NextTask(qs)
  PROVE  QueueInv' /\ SameTasks(tasks', qs.tasks) /\ currentTime' = now /\ stage' = "loop"
<1>1. now \in Nat /\ Become(Advanced(qs, now))
  BY DEF QueueInv, ClockInv, NextTask
<1>2. /\ QueuesOK(Q') /\ Queued(Q') /\ TimersAfter(Q', now) /\ SameTasks(tasks', qs.tasks)
  BY <1>1, AdvancedQueue
<1>3. stage' = "loop" /\ currentTime' = now /\ currentTask' = Peek(taskQueue') /\ now' = now
  BY DEF NextTask
<1>4. ClockInv'
  BY <1>1, <1>3 DEF ClockInv
<1>5. FlagsInv'
  BY DEF NextTask, flags, FlagsInv, QueueInv
<1>6. StageInv'
  BY <1>2, <1>3 DEF StageInv
<1> QED BY <1>2, <1>3, <1>4, <1>5, <1>6 DEF QueueInv

\* The task that returned a continuation can be called again.
LEMMA ContinuesQueue ==
  ASSUME QueueInv, TaskContinues
  PROVE  /\ QueueInv' /\ currentTime' = now /\ stage' = "loop"
         /\ currentTask \in DOMAIN tasks
         /\ DOMAIN tasks' = DOMAIN tasks
         /\ \A t \in DOMAIN tasks :
              /\ tasks'[t].startTime = tasks[t].startTime
              /\ tasks'[t].expirationTime = tasks[t].expirationTime
              /\ tasks'[t].callback <=> tasks[t].callback \/ t = currentTask
<1> DEFINE called == [tasks EXCEPT ![currentTask].callback = TRUE]
           ts == [called EXCEPT ![currentTask].continuations = @ + 1]
           qs == State(ts, taskQueue, timerQueue)
<1>1. currentTask \in Range(taskQueue)
  BY DEF TaskContinues, QueueInv, StageInv
<1>2. tasks \in Seq(Task) /\ currentTask \in DOMAIN tasks /\ tasks[currentTask] \in Task
  BY <1>1, QueueDomains
<1>3. /\ ts \in Seq(Task) /\ DOMAIN ts = DOMAIN tasks
      /\ \A u \in DOMAIN tasks : /\ ts[u].sortIndex = tasks[u].sortIndex
                                 /\ ts[u].startTime = tasks[u].startTime
                                 /\ ts[u].expirationTime = tasks[u].expirationTime
                                 /\ ts[u].callback <=> tasks[u].callback \/ u = currentTask
  <2> DEFINE live == [tasks[currentTask] EXCEPT !.callback = TRUE]
             task == [live EXCEPT !.continuations = @ + 1]
  <2>0. /\ live \in Task /\ live.sortIndex = tasks[currentTask].sortIndex /\ live.callback
        /\ live.startTime = tasks[currentTask].startTime
        /\ live.expirationTime = tasks[currentTask].expirationTime
    BY <1>2 DEF Task
  <2>1. /\ task \in Task /\ task.sortIndex = tasks[currentTask].sortIndex /\ task.callback
        /\ task.startTime = tasks[currentTask].startTime
        /\ task.expirationTime = tasks[currentTask].expirationTime
    <3> HIDE DEF live
    <3> QED BY <2>0 DEF Task
  <2> HIDE DEF task
  <2>2. called = [tasks EXCEPT ![currentTask] = live]
    OBVIOUS
  <2>3. ts = [called EXCEPT ![currentTask] = task]
    <3>1. called[currentTask] = live
      BY <1>2, <2>2
    <3> HIDE DEF called, live
    <3> QED BY <3>1 DEF task
  <2> HIDE DEF ts, called, live
  <2> QED BY <1>2, <2>1, <2>2, <2>3
<1>4. NextTask(qs)
  <2>1. [Queues EXCEPT !.tasks[currentTask].callback = TRUE,
                       !.tasks[currentTask].continuations = @ + 1] = qs
    <3> DEFINE q == [Queues EXCEPT !.tasks[currentTask].callback = TRUE]
    <3>1. [Queues EXCEPT !.tasks[currentTask].callback = TRUE,
                         !.tasks[currentTask].continuations = @ + 1]
            = [q EXCEPT !.tasks[currentTask].continuations = @ + 1]
      OBVIOUS
    <3>2. q = State(called, taskQueue, timerQueue)
      <4>1. q = [Queues EXCEPT !.tasks = [Queues.tasks EXCEPT ![currentTask].callback = TRUE]]
        OBVIOUS
      <4>2. [Queues.tasks EXCEPT ![currentTask].callback = TRUE] = called
        BY DEF Queues
      <4> HIDE DEF called, q
      <4> QED BY <4>1, <4>2 DEF Queues, State
    <3> HIDE DEF q, called
    <3> QED BY <3>1, <3>2 DEF State
  <2> HIDE DEF qs
  <2> QED BY <2>1 DEF TaskContinues
<1> HIDE DEF ts, called
<1>5. QueuesOK(qs)
  BY <1>3, CallbacksChangeOK DEF QueueInv, Q
<1>6. Queued(qs)
  BY <1>1, <1>3, StateOK DEF QueueInv, Q
<1>7. qs.tasks = ts
  BY StateFields
<1> HIDE DEF qs
<1>8. QueueInv' /\ SameTasks(tasks', ts) /\ currentTime' = now /\ stage' = "loop"
  BY <1>4, <1>5, <1>6, <1>7, NextTaskQueue
<1> QED BY <1>2, <1>3, <1>8 DEF SameTasks

LEMMA CompletesQueue ==
  ASSUME QueueInv, TaskCompletes
  PROVE  /\ QueueInv' /\ currentTime' = now /\ stage' = "loop"
         /\ currentTask \in DOMAIN tasks /\ SameTasks(tasks', tasks)
<1> DEFINE qs == State(tasks, WithoutCurrent, timerQueue)
<1>1. currentTask \in Range(taskQueue) /\ ~tasks[currentTask].callback
  BY DEF TaskCompletes, QueueInv, StageInv, HasCallback
<1>2. currentTask \in DOMAIN tasks /\ taskQueue # <<>>
  BY <1>1, QueueDomains DEF Range
<1>3. NextTask(qs)
  <2>1. [Queues EXCEPT !.taskQueue = WithoutCurrent] = qs
    BY DEF Queues, State
  <2> HIDE DEF qs
  <2> QED BY <2>1 DEF TaskCompletes
<1>4. QueuesOK(qs) /\ Queued(qs)
  <2>1. CASE Peek(taskQueue) = currentTask
    <3>1. WithoutCurrent = Pop(SortIndex(tasks), taskQueue)
      BY <2>1 DEF WithoutCurrent
    <3>2. QueuesOK(qs) /\ Range(WithoutCurrent) = Range(taskQueue) \ {currentTask}
      BY <1>2, <2>1, <3>1, FirstRemovedOK DEF QueueInv, Q
    <3>3. Queued(qs)
      BY <1>1, <3>2, StateOK DEF QueueInv, Q
    <3> QED BY <3>2, <3>3
  <2>2. CASE Peek(taskQueue) # currentTask
    BY <2>2 DEF WithoutCurrent, QueueInv, Q
  <2> QED BY <2>1, <2>2
<1>5. qs.tasks = tasks
  BY StateFields
<1> HIDE DEF qs
<1>6. QueueInv' /\ SameTasks(tasks', tasks) /\ currentTime' = now /\ stage' = "loop"
  BY <1>3, <1>4, <1>5, NextTaskQueue
<1> QED BY <1>2, <1>6

LEMMA LeaveQueue ==
  ASSUME QueueInv, Leave
  PROVE  QueueInv'
<1>1. /\ UNCHANGED <<tasks, taskQueue, timerQueue, now>> /\ stage' = "idle"
      /\ currentTask' = 0 /\ currentTime' = None
  BY DEF Leave, queues
<1>2. QueuesOK(Q') /\ Queued(Q')
  BY <1>1 DEF QueueInv, Q
<1>3. ClockInv' /\ StageInv'
  BY <1>1 DEF QueueInv, ClockInv, StageInv, None
<1>4. FlagsInv'
  BY DEF Leave, flags, QueueInv, FlagsInv
<1> QED BY <1>2, <1>3, <1>4 DEF QueueInv

\* Steps of the host and of the clock alone.
LEMMA SameQueue ==
  ASSUME QueueInv, UNCHANGED <<queues, currentTask, stage, currentTime>>,
         now' \in Nat /\ now <= now', FlagsInv'
  PROVE  QueueInv'
<1>1. QueuesOK(Q') /\ Queued(Q') /\ Q' = Q
  BY DEF QueueInv, Q, queues
<1>2. ClockInv'
  BY DEF QueueInv, ClockInv
<1>3. StageInv'
  BY <1>1 DEF QueueInv, StageInv, HasCallback, queues
<1> QED BY <1>1, <1>2, <1>3 DEF QueueInv
-----------------------------------------------------------------------------
(***************************************************************************)
(* 5. The host with its timeouts: while tasks wait, something will come of *)
(* them.                                                                   *)
(***************************************************************************)
\* All fields of a host, of which a contract needs only a part.
HostTyped(h) ==
  /\ h \in [ kind : {"dom", "node"}, callback : BOOLEAN, looping : BOOLEAN, frame : BOOLEAN,
             fallback : BOOLEAN, messages : Nat, flushes : Nat, retries : Nat,
             deadline : Int, timeout : Int, stale : SUBSET Int ]
  /\ h.looping <=> h.frame

\* One host instead of another: of the same kind, with the same timeouts.
SameTimeouts(g, h) == HostTyped(g) /\ g.kind = h.kind /\ Timeouts(g) = Timeouts(h)

LEMMA NewHostTyped ==
  ASSUME NEW kind \in {"dom", "node"}
  PROVE  HostTyped(NewHost(kind))
BY DEF NewHost, HostTyped, None

LEMMA TypedIsHost ==
  ASSUME NEW h, HostTyped(h)
  PROVE  IsHost(h)
BY DEF HostTyped, IsHost

LEMMA NodeRequestTyped ==
  ASSUME NEW h, HostTyped(h), h.kind = "node"
  PROVE  SameTimeouts(NodeRequested(h), h)
<1>1. CASE h.callback
  <2> DEFINE g == [h EXCEPT !.retries = @ + 1]
  <2>1. NodeRequested(h) = g
    BY <1>1 DEF NodeRequested
  <2>2. HostTyped(g) /\ g.kind = h.kind /\ g.timeout = h.timeout /\ g.stale = h.stale
    BY DEF HostTyped
  <2> QED BY <2>1, <2>2 DEF SameTimeouts, Timeouts
<1>2. CASE ~h.callback
  <2> DEFINE g == [h EXCEPT !.callback = TRUE, !.flushes = @ + 1]
  <2>1. NodeRequested(h) = g
    BY <1>2 DEF NodeRequested
  <2>2. h.flushes + 1 \in Nat
    BY DEF HostTyped
  <2>3. HostTyped(g) /\ g.kind = h.kind /\ g.timeout = h.timeout /\ g.stale = h.stale
    BY <2>2 DEF HostTyped
  <2> QED BY <2>1, <2>3 DEF SameTimeouts, Timeouts
<1> QED BY <1>1, <1>2

LEMMA RequestTyped ==
  ASSUME NEW h, HostTyped(h)
  PROVE  SameTimeouts(HostCallbackRequested(h), h)
<1>1. CASE h.kind = "node"
  BY <1>1, NodeRequestTyped DEF HostCallbackRequested
<1>2. CASE h.kind = "dom"
  <2>1. HostCallbackRequested(h) = DOMRequested(h)
    BY <1>2 DEF HostCallbackRequested
  <2>2. CASE h.looping
    <3> DEFINE g == [h EXCEPT !.callback = TRUE]
    <3>1. DOMRequested(h) = g
      BY <2>2 DEF DOMRequested
    <3>2. HostTyped(g) /\ g.kind = h.kind /\ g.timeout = h.timeout /\ g.stale = h.stale
      BY DEF HostTyped
    <3> QED BY <2>1, <3>1, <3>2 DEF SameTimeouts, Timeouts
  <2>3. CASE ~h.looping
    <3> DEFINE g == [h EXCEPT !.callback = TRUE, !.looping = TRUE, !.frame = TRUE]
    <3>1. DOMRequested(h) = g
      BY <2>3 DEF DOMRequested
    <3>2. HostTyped(g) /\ g.kind = h.kind /\ g.timeout = h.timeout /\ g.stale = h.stale
      BY DEF HostTyped
    <3> QED BY <2>1, <3>1, <3>2 DEF SameTimeouts, Timeouts
  <2> QED BY <2>2, <2>3
<1> QED BY <1>1, <1>2 DEF HostTyped

LEMMA TimeoutsTyped ==
  ASSUME NEW h, HostTyped(h), NEW due \in Int
  PROVE  /\ HostTyped(HostTimeoutCancelled(h)) /\ HostTimeoutCancelled(h).kind = h.kind
         /\ HostTimeoutCancelled(h).callback = h.callback
         /\ HostTyped(HostTimeoutRequested(h, due)) /\ HostTimeoutRequested(h, due).kind = h.kind
         /\ HostTimeoutRequested(h, due).callback = h.callback
         /\ due # None => due \in Timeouts(HostTimeoutRequested(h, due))
         /\ HostTyped(TimeoutFired(h, due)) /\ TimeoutFired(h, due).kind = h.kind
         /\ TimeoutFired(h, due).callback = h.callback
<1>1. /\ HostTyped(HostTimeoutCancelled(h)) /\ HostTimeoutCancelled(h).kind = h.kind
      /\ HostTimeoutCancelled(h).callback = h.callback
  BY DEF HostTyped, HostTimeoutCancelled, None
<1>2. /\ HostTyped(HostTimeoutRequested(h, due)) /\ HostTimeoutRequested(h, due).kind = h.kind
      /\ HostTimeoutRequested(h, due).callback = h.callback
      /\ due # None => due \in Timeouts(HostTimeoutRequested(h, due))
  BY DEF HostTyped, HostTimeoutRequested, Timeouts
<1>3. /\ HostTyped(TimeoutFired(h, due)) /\ TimeoutFired(h, due).kind = h.kind
      /\ TimeoutFired(h, due).callback = h.callback
  <2> DEFINE timeout == IF h.timeout = due THEN None ELSE h.timeout
             stale == h.stale \ {due}
             g == [h EXCEPT !.timeout = timeout, !.stale = stale]
  <2>1. timeout \in Int /\ stale \in SUBSET Int
    BY DEF HostTyped, None
  <2>2. TimeoutFired(h, due) = g
    BY DEF TimeoutFired
  <2> HIDE DEF timeout, stale
  <2>3. HostTyped(g) /\ g.kind = h.kind /\ g.callback = h.callback
    BY <2>1 DEF HostTyped
  <2> QED BY <2>2, <2>3
<1> QED BY <1>1, <1>2, <1>3

LEMMA FrameTyped ==
  ASSUME NEW h, HostTyped(h), CanBeginFrame(h), NEW time \in Nat
  PROVE  SameTimeouts(FrameBegun(h, time), h) /\ FrameBegun(h, time).callback = h.callback
<1>1. CASE ~h.callback
  <2> DEFINE g == [h EXCEPT !.frame = FALSE, !.fallback = FALSE, !.looping = FALSE]
  <2>1. FrameBegun(h, time) = g
    BY <1>1 DEF FrameBegun
  <2>2. /\ HostTyped(g) /\ g.kind = h.kind /\ g.timeout = h.timeout /\ g.stale = h.stale
        /\ g.callback = h.callback
    BY DEF HostTyped
  <2> QED BY <2>1, <2>2 DEF SameTimeouts, Timeouts
<1>2. CASE h.callback
  <2> DEFINE g == [h EXCEPT !.frame = TRUE, !.fallback = TRUE, !.messages = @ + 1,
                            !.deadline = time + FrameLength]
  <2>1. FrameBegun(h, time) = g
    BY <1>2 DEF FrameBegun
  <2>2. time + FrameLength \in Int /\ h.looping /\ h.messages + 1 \in Nat
    BY HostAssumption DEF CanBeginFrame, HostTyped
  <2>3. /\ HostTyped(g) /\ g.kind = h.kind /\ g.timeout = h.timeout /\ g.stale = h.stale
        /\ g.callback = h.callback
    BY <2>2 DEF HostTyped
  <2> QED BY <2>1, <2>3 DEF SameTimeouts, Timeouts
<1> QED BY <1>1, <1>2

LEMMA ReceivedTyped ==
  ASSUME NEW h, HostTyped(h), NEW name \in Events, CanReceive(h, name), NEW time \in Nat
  PROVE  SameTimeouts(Received(h, name, time), h) /\ Received(h, name, time).callback = h.callback
<1>1. CASE name = "message"
  <2> DEFINE g == [h EXCEPT !.messages = @ - 1]
  <2>1. Received(h, name, time) = g /\ h.messages > 0
    BY <1>1 DEF Received, CanReceive
  <2>2. /\ HostTyped(g) /\ g.kind = h.kind /\ g.timeout = h.timeout /\ g.stale = h.stale
        /\ g.callback = h.callback
    BY <2>1 DEF HostTyped
  <2> QED BY <2>1, <2>2 DEF SameTimeouts, Timeouts
<1>2. CASE name = "fallback"
  <2> DEFINE g == [h EXCEPT !.deadline = time + FrameLength \div 2]
  <2>1. Received(h, name, time) = g
    BY <1>2 DEF Received
  <2>2. time + FrameLength \div 2 \in Int
    BY HostAssumption
  <2>3. /\ HostTyped(g) /\ g.kind = h.kind /\ g.timeout = h.timeout /\ g.stale = h.stale
        /\ g.callback = h.callback
    BY <2>2 DEF HostTyped
  <2> QED BY <2>1, <2>3 DEF SameTimeouts, Timeouts
<1>3. CASE name = "flush"
  <2> DEFINE g == [h EXCEPT !.flushes = @ - 1]
  <2>1. Received(h, name, time) = g /\ h.flushes > 0
    BY <1>3 DEF Received, CanReceive
  <2>2. /\ HostTyped(g) /\ g.kind = h.kind /\ g.timeout = h.timeout /\ g.stale = h.stale
        /\ g.callback = h.callback
    BY <2>1 DEF HostTyped
  <2> QED BY <2>1, <2>2 DEF SameTimeouts, Timeouts
<1> QED BY <1>1, <1>2, <1>3 DEF Events

LEMMA ReturnedTyped ==
  ASSUME NEW h, HostTyped(h), NEW more \in BOOLEAN
  PROVE  /\ SameTimeouts(Returned(h, more), h)
         /\ Returned(h, more).callback <=> h.callback /\ more /\ h.kind = "dom"
<1> DEFINE g == [h EXCEPT !.callback = @ /\ more /\ h.kind = "dom"]
<1>1. Returned(h, more) = g
  BY DEF Returned
<1>2. (h.callback /\ more /\ h.kind = "dom") \in BOOLEAN
  OBVIOUS
<1>3. /\ HostTyped(g) /\ g.kind = h.kind /\ g.timeout = h.timeout /\ g.stale = h.stale
      /\ g.callback <=> h.callback /\ more /\ h.kind = "dom"
  BY <1>2 DEF HostTyped
<1> QED BY <1>1, <1>3 DEF SameTimeouts, Timeouts

LEMMA ThrewTyped ==
  ASSUME NEW h, HostTyped(h), NEW name \in Events
  PROVE  SameTimeouts(Threw(h, name), h) /\ Threw(h, name).callback = h.callback
<1>1. CASE name = "flush"
  <2> DEFINE g == [h EXCEPT !.flushes = @ + 1]
  <2>1. Threw(h, name) = g
    BY <1>1 DEF Threw
  <2>2. /\ HostTyped(g) /\ g.kind = h.kind /\ g.timeout = h.timeout /\ g.stale = h.stale
        /\ g.callback = h.callback
    BY DEF HostTyped
  <2> QED BY <2>1, <2>2 DEF SameTimeouts, Timeouts
<1>2. CASE name = "message"
  <2> DEFINE g == [h EXCEPT !.messages = @ + 1]
  <2>1. Threw(h, name) = g
    BY <1>2 DEF Threw
  <2>2. /\ HostTyped(g) /\ g.kind = h.kind /\ g.timeout = h.timeout /\ g.stale = h.stale
        /\ g.callback = h.callback
    BY DEF HostTyped
  <2> QED BY <2>1, <2>2 DEF SameTimeouts, Timeouts
<1>3. CASE name = "fallback"
  <2> DEFINE g == [h EXCEPT !.messages = @ + 1, !.fallback = FALSE]
  <2>1. Threw(h, name) = g
    BY <1>3 DEF Threw
  <2>2. h.messages + 1 \in Nat
    BY DEF HostTyped
  <2>3. /\ HostTyped(g) /\ g.kind = h.kind /\ g.timeout = h.timeout /\ g.stale = h.stale
        /\ g.callback = h.callback
    BY <2>2 DEF HostTyped
  <2> QED BY <2>1, <2>3 DEF SameTimeouts, Timeouts
<1> QED BY <1>1, <1>2, <1>3 DEF Events
-----------------------------------------------------------------------------
\* Something will come of the tasks that wait.
Awaited ==
  /\ taskQueue # <<>> => host.callback
  /\ taskQueue = <<>> /\ timerQueue # <<>> => host.callback \/ Timeouts(host) # {}

HostInv ==
  /\ HostTyped(host)
  /\ host.kind = "node" /\ stage # "idle" => hasTimeRemaining
  /\ stage = "idle" => Awaited

SchedulerInv == ContractInv /\ QueueInv /\ HostInv

LEMMA InitHost == Init => HostInv
<1> SUFFICES ASSUME Init PROVE HostInv
  OBVIOUS
<1>1. PICK kind \in {"dom", "node"} : host = NewHost(kind)
  BY SchedulerAssumption DEF Init
<1> QED BY <1>1, NewHostTyped DEF Init, HostInv, Awaited

\* Between events a step that leaves the timeouts and the queues, and takes no
\* callback from the host, is harmless.
LEMMA AwaitedStays ==
  ASSUME HostInv, stage = "idle", SameTimeouts(host', host),
         host.callback => host'.callback,
         UNCHANGED <<taskQueue, timerQueue, stage>>
  PROVE  HostInv'
BY DEF HostInv, Awaited, SameTimeouts

\* What the host does outside of the scheduler's own work.
LEMMA OutsideHost ==
  ASSUME SchedulerInv, ContinueExecution \/ Frame \/ Retry
  PROVE  HostInv'
<1>1. HostTyped(host) /\ now \in Nat /\ ContractInv
  BY DEF SchedulerInv, HostInv, QueueInv, ClockInv
<1>2. CASE ContinueExecution
  <2>1. /\ stage = "idle" /\ host' = HostCallbackRequested(host)
        /\ UNCHANGED <<taskQueue, timerQueue, stage>>
    BY <1>2 DEF ContinueExecution, queues, working
  <2>2. host'.callback
    BY <2>1, RequestServes DEF SchedulerInv, ContractInv
  <2> QED BY <1>1, <2>1, <2>2, RequestTyped, AwaitedStays DEF SchedulerInv
<1>3. CASE Frame
  <2>1. /\ stage = "idle" /\ host' = FrameBegun(host, now) /\ CanBeginFrame(host)
        /\ UNCHANGED <<taskQueue, timerQueue, stage>>
    BY <1>3 DEF Frame, queues, working
  <2> QED BY <1>1, <2>1, FrameTyped, AwaitedStays DEF SchedulerInv
<1>4. CASE Retry
  <2> DEFINE g == [host EXCEPT !.retries = @ - 1]
  <2>1. /\ stage = "idle" /\ host' = NodeRequested(g) /\ host.retries > 0
        /\ UNCHANGED <<taskQueue, timerQueue, stage>>
    BY <1>4 DEF Retry, queues, working
  <2>2. host.kind = "node"
    BY <1>1, <2>1 DEF ContractInv, HostOK, HostShape, KindOK
  <2>3. HostTyped(g) /\ g.kind = host.kind /\ Timeouts(g) = Timeouts(host) /\ g.callback = host.callback
    BY <1>1, <2>1 DEF HostTyped, Timeouts
  <2> HIDE DEF g
  <2>4. SameTimeouts(NodeRequested(g), g)
    BY <2>2, <2>3, NodeRequestTyped
  <2>5. g.callback => NodeRequested(g).callback
    BY <2>3 DEF NodeRequested, HostTyped
  <2>6. SameTimeouts(host', host) /\ (host.callback => host'.callback)
    BY <2>1, <2>3, <2>4, <2>5 DEF SameTimeouts
  <2> QED BY <2>1, <2>6, AwaitedStays DEF SchedulerInv
<1> QED BY <1>2, <1>3, <1>4

LEMMA ReceivedHost ==
  ASSUME SchedulerInv, NEW name \in Events, HostEvent(name)
  PROVE  HostInv'
<1> DEFINE received == Received(host, name, now)
<1>1. /\ HostTyped(host) /\ now \in Nat /\ stage = "idle" /\ CanReceive(host, name)
  BY DEF SchedulerInv, HostInv, QueueInv, ClockInv, HostEvent
<1>2. SameTimeouts(received, host) /\ received.callback = host.callback
  BY <1>1, ReceivedTyped
<1> HIDE DEF received
<1>3. CASE ~host.callback
  <2>1. host' = received /\ UNCHANGED <<taskQueue, timerQueue, stage>>
    BY <1>3 DEF HostEvent, queues, working, received
  <2> QED BY <1>1, <1>2, <2>1, AwaitedStays DEF SchedulerInv
<1>4. CASE host.callback
  <2>1. FlushWork(received, name)
    BY <1>4 DEF HostEvent, received
  <2>2. /\ stage' = "loop" /\ hasTimeRemaining' = HasTimeRemaining(received, now)
        /\ host' = IF isHostTimeoutScheduled THEN HostTimeoutCancelled(received) ELSE received
    BY <2>1 DEF FlushWork
  <2>3. HostTyped(host') /\ host'.kind = received.kind
    BY <1>2, <2>2, TimeoutsTyped DEF SameTimeouts
  <2>4. host'.kind = "node" => hasTimeRemaining'
    BY <2>2, <2>3 DEF HasTimeRemaining
  <2> QED BY <2>2, <2>3, <2>4 DEF HostInv
<1> QED BY <1>3, <1>4

LEMMA ScheduleNowHost ==
  ASSUME SchedulerInv, ScheduleNow
  PROVE  HostInv'
<1>1. HostTyped(host) /\ ContractInv
  BY DEF SchedulerInv, HostInv
<1>2. CASE NeedsHostCallback
  <2>1. host' = HostCallbackRequested(host) /\ stage' = stage /\ stage = "idle"
    BY <1>2 DEF ScheduleNow, working, NeedsHostCallback, isPerformingWork
  <2>2. HostTyped(host') /\ host'.callback
    BY <1>1, <2>1, RequestTyped, RequestServes DEF ContractInv, SameTimeouts
  <2> QED BY <2>1, <2>2 DEF HostInv, Awaited
<1>3. CASE ~NeedsHostCallback
  <2>1. UNCHANGED <<host, stage, hasTimeRemaining>>
    BY <1>3 DEF ScheduleNow, working
  <2>2. stage = "idle" => host.callback
    BY <1>1, <1>3 DEF ContractInv, NeedsHostCallback, isPerformingWork
  <2> QED BY <2>1, <2>2 DEF SchedulerInv, HostInv, Awaited
<1> QED BY <1>2, <1>3

LEMMA ScheduleDelayedHost ==
  ASSUME SchedulerInv, ScheduleDelayed
  PROVE  HostInv'
<1> DEFINE id == NextID
           start == now + Delay[id]
<1>1. /\ HostTyped(host) /\ now \in Nat /\ tasks \in Seq(Task) /\ timerQueue \in Seq(Nat)
      /\ id \in 1 .. MaxTasks /\ Delay[id] > 0 /\ id = Len(tasks) + 1 /\ Len(tasks) \in Nat
  BY SchedulerAssumption, QueueDomains
     DEF SchedulerInv, HostInv, ScheduleDelayed, CanSchedule, NextID
<1>2. Delay[id] \in Nat /\ start \in Int /\ start # None
  <2>1. Delay[id] \in Nat
    BY <1>1, SchedulerAssumption
  <2> HIDE DEF id
  <2> QED BY <1>1, <2>1 DEF None
<1>3. /\ taskQueue' = taskQueue /\ stage' = stage /\ hasTimeRemaining' = hasTimeRemaining
      /\ timerQueue' = Push(SortIndex(tasks'), timerQueue, id)
  BY DEF ScheduleDelayed, working
<1>4. CASE taskQueue = <<>> /\ Peek(timerQueue') = id
  <2> DEFINE g == IF isHostTimeoutScheduled THEN HostTimeoutCancelled(host) ELSE host
  <2>1. host' = HostTimeoutRequested(g, start)
    BY <1>4 DEF ScheduleDelayed
  <2>2. HostTyped(g) /\ g.kind = host.kind /\ g.callback = host.callback
    BY <1>1, TimeoutsTyped
  <2> HIDE DEF g, start
  <2>3. /\ HostTyped(host') /\ host'.kind = host.kind /\ host'.callback = host.callback
        /\ start \in Timeouts(host')
    BY <1>2, <2>1, <2>2, TimeoutsTyped
  <2> QED BY <1>3, <1>4, <2>3 DEF SchedulerInv, HostInv, Awaited
<1>5. CASE ~(taskQueue = <<>> /\ Peek(timerQueue') = id)
  <2>1. host' = host
    BY <1>5 DEF ScheduleDelayed
  <2>3. Pushed(timerQueue', SortIndex(tasks'), timerQueue, id)
    <3>1. id \in Nat
      BY <1>1
    <3> HIDE DEF id
    <3> QED BY <1>1, <1>3, <3>1, PushProperties
  <2>2. taskQueue # <<>> \/ timerQueue # <<>>
    <3> SUFFICES ASSUME timerQueue = <<>> PROVE Peek(timerQueue') = id
      BY <1>5
    <3>2. timerQueue' \in Seq(Nat) /\ Len(timerQueue') = 1 /\ Range(timerQueue') = {id}
      <4>1. Len(timerQueue) = 0 /\ Range(timerQueue) = {}
        BY DEF Range
      <4> HIDE DEF id
      <4> QED BY <2>3, <4>1 DEF Pushed
    <3>3. timerQueue'[1] = id /\ timerQueue' # <<>>
      BY <3>2 DEF Range
    <3> QED BY <3>3 DEF Peek
  <2> QED BY <1>3, <2>1, <2>2 DEF SchedulerInv, HostInv, Awaited
<1> QED BY <1>4, <1>5

LEMMA TimeoutHost ==
  ASSUME SchedulerInv, QueueInv', TimersAfter(Q', now), NEW due \in Int, TimeoutFires(due)
  PROVE  HostInv'
<1> DEFINE fired == TimeoutFired(host, due)
           first == Peek(timerQueue')
           start == tasks'[first].startTime
<1>1. HostTyped(host) /\ ContractInv /\ now \in Nat /\ stage = "idle" /\ stage' = "idle"
  BY DEF SchedulerInv, HostInv, TimeoutFires, working, QueueInv, ClockInv
<1>2. HostTyped(fired) /\ fired.kind = host.kind /\ fired.callback = host.callback
  BY <1>1, TimeoutsTyped
<1>3. HostOK(fired) /\ (Serves(host) => Serves(fired)) /\ Serves(host)
  <2>1. SameCalls(fired, host) /\ HostOK(host) /\ Serves(host)
    BY <1>1, TimeoutsAreSame DEF ContractInv, HostOK
  <2> QED BY <2>1, SameIsOK
<1>4. \/ isHostCallbackScheduled /\ host' = fired
      \/ taskQueue' # <<>> /\ host' = HostCallbackRequested(fired)
      \/ taskQueue' = <<>> /\ host' = IF first = 0 THEN fired ELSE HostTimeoutRequested(fired, start)
  BY DEF TimeoutFires, Become
<1> HIDE DEF fired, start
<1>5. CASE isHostCallbackScheduled /\ host' = fired
  BY <1>1, <1>2, <1>5 DEF HostInv, Awaited, ContractInv
<1>6. CASE taskQueue' # <<>> /\ host' = HostCallbackRequested(fired)
  <2>1. HostTyped(host') /\ host'.callback
    BY <1>2, <1>3, <1>6, RequestTyped, RequestServes DEF SameTimeouts
  <2> QED BY <1>1, <2>1 DEF HostInv, Awaited
<1>7. CASE /\ taskQueue' = <<>>
           /\ host' = IF first = 0 THEN fired ELSE HostTimeoutRequested(fired, start)
  <2>1. CASE timerQueue' = <<>>
    <3>1. first = 0
      BY <2>1 DEF Peek
    <3> QED BY <1>1, <1>2, <1>7, <2>1, <3>1 DEF HostInv, Awaited
  <2>2. CASE timerQueue' # <<>>
    <3>1. first # 0 /\ first \in Range(timerQueue')
      BY <2>2, PeekProperties, StateOK DEF QueueInv, Q
    <3>2. start > now /\ start \in Int /\ start # None
      <4>1. tasks' \in Seq(Task) /\ first \in DOMAIN tasks'
        BY <3>1, StateOK DEF QueueInv, Q
      <4>2. tasks'[first] \in Task
        BY <4>1
      <4>3. tasks'[first].startTime > now
        <5>1. Q'.tasks = tasks' /\ Q'.timerQueue = timerQueue' /\ now' = now
          BY StateFields DEF Q, TimeoutFires
        <5> QED BY <3>1, <5>1 DEF TimersAfter
      <4> QED BY <1>1, <4>2, <4>3 DEF Task, start, None
    <3>3. host' = HostTimeoutRequested(fired, start)
      BY <1>7, <3>1
    <3>4. HostTyped(host') /\ start \in Timeouts(host')
      BY <1>2, <3>2, <3>3, TimeoutsTyped
    <3> QED BY <1>1, <1>7, <3>4 DEF HostInv, Awaited
  <2> QED BY <2>1, <2>2
<1> QED BY <1>4, <1>5, <1>6, <1>7

LEMMA WorkHost ==
  ASSUME SchedulerInv, WorkLoopStep \/ CallbackEnds
  PROVE  HostInv'
<1>1. HostTyped(host) /\ ContractInv /\ QueueInv /\ now \in Nat /\ currentTime \in Int
  BY DEF SchedulerInv, HostInv, QueueInv, ClockInv
<1>2. ASSUME stage # "idle"
      PROVE  host.callback /\ (host.kind = "node" => hasTimeRemaining)
  BY <1>1, <1>2 DEF ContractInv, SchedulerInv, HostInv
<1>3. CASE DropTask \/ RunTask \/ TaskContinues \/ TaskCompletes
  <2>1. stage # "idle" /\ stage' # "idle" /\ UNCHANGED <<host, hasTimeRemaining>>
    BY <1>3 DEF DropTask, RunTask, TaskContinues, TaskCompletes, NextTask, working
  <2> QED BY <1>1, <1>2, <2>1 DEF HostInv
<1>4. CASE TaskThrows
  <2>1. stage # "idle" /\ stage' = "idle" /\ host' = Threw(host, event) /\ event \in Events
    BY <1>1, <1>4 DEF TaskThrows, Leave, ContractInv
  <2>2. HostTyped(host') /\ host'.callback
    BY <1>1, <1>2, <2>1, ThrewTyped DEF SameTimeouts
  <2> QED BY <2>1, <2>2 DEF HostInv, Awaited
<1>5. CASE Yield
  <2>1. stage # "idle" /\ stage' = "idle" /\ host' = Returned(host, TRUE) /\ OutOfTime
    BY <1>5 DEF Yield, Leave
  <2>2. host.kind = "dom"
    BY <1>1, <1>2, <2>1 DEF OutOfTime, ShouldYieldToHost, HostTyped
  <2>3. HostTyped(host') /\ host'.callback
    BY <1>1, <1>2, <2>1, <2>2, ReturnedTyped DEF SameTimeouts
  <2> QED BY <2>1, <2>3 DEF HostInv, Awaited
<1>6. CASE NothingLeft
  <2> DEFINE left == TimeoutForFirst(Queues, currentTime)
             first == Peek(timerQueue)
             due == now + tasks[first].startTime - currentTime
  <2>1. /\ stage = "loop" /\ stage' = "idle" /\ host' = Returned(left, FALSE)
        /\ currentTask = 0 /\ UNCHANGED <<taskQueue, timerQueue>>
    BY <1>6 DEF NothingLeft, HostAfterWork, Leave, queues
  <2>2. taskQueue = <<>>
    <3>1. Peek(taskQueue) = 0
      BY <1>1, <2>1 DEF QueueInv, StageInv
    <3> QED BY <1>1, <3>1, PeekProperties, StateOK DEF QueueInv, Q
  <2>3. left = IF timerQueue = <<>> THEN host ELSE HostTimeoutRequested(host, due)
    BY DEF TimeoutForFirst, Queues
  <2>4. timerQueue # <<>> => due \in Int /\ due # None
    <3> SUFFICES ASSUME timerQueue # <<>> PROVE due \in Int /\ due # None
      OBVIOUS
    <3>1. first \in Range(timerQueue)
      BY <1>1, PeekProperties, StateOK DEF QueueInv, Q
    <3>2. tasks[first] \in Task
      BY <1>1, <3>1, QueueDomains
    <3>3. tasks[first].startTime > currentTime
      BY <1>1, <2>1, <3>1, StateFields DEF QueueInv, StageInv, TimersAfter, Q
    <3>4. tasks[first].startTime \in Int
      BY <3>2 DEF Task
    <3> HIDE DEF first
    <3> QED BY <1>1, <3>3, <3>4 DEF None
  <2> HIDE DEF left, due
  <2>5. /\ HostTyped(left) /\ (timerQueue # <<>> => Timeouts(left) # {})
    BY <1>1, <2>3, <2>4, TimeoutsTyped
  <2>6. HostTyped(host') /\ Timeouts(host') = Timeouts(left)
    BY <2>1, <2>5, ReturnedTyped DEF SameTimeouts
  <2> QED BY <2>1, <2>2, <2>5, <2>6 DEF HostInv, Awaited
<1> QED BY <1>3, <1>4, <1>5, <1>6 DEF WorkLoopStep, CallbackEnds

LEMMA SameHost ==
  ASSUME SchedulerInv, Tick \/ ShouldYield \/ (\E t \in DOMAIN tasks : Cancel(t)) \/ UNCHANGED vars
  PROVE  HostInv'
<1>1. UNCHANGED <<host, stage, hasTimeRemaining>>
  BY DEF Tick, ShouldYield, Cancel, vars, working
<1>2. stage = "idle" => UNCHANGED <<taskQueue, timerQueue>>
  BY DEF Tick, ShouldYield, Cancel, vars, queues
<1> QED BY <1>1, <1>2 DEF SchedulerInv, HostInv, Awaited

\* Which steps are left to the host and the clock, for the queues.
LEMMA OutsideQueue ==
  ASSUME QueueInv, Frame \/ Retry \/ ContinueExecution \/ Tick \/ UNCHANGED vars
  PROVE  QueueInv'
<1>1. UNCHANGED <<queues, currentTask, stage, currentTime, hasTimeRemaining, isHostTimeoutScheduled>>
  BY DEF Frame, Retry, ContinueExecution, Tick, vars, queues, flags, working
<1>2. isHostCallbackScheduled' \in BOOLEAN
  BY DEF Frame, Retry, ContinueExecution, Tick, vars, flags, QueueInv, FlagsInv
<1>3. now' \in Nat /\ now <= now'
  BY DEF Frame, Retry, ContinueExecution, Tick, vars, QueueInv, ClockInv
<1>4. FlagsInv'
  BY <1>1, <1>2 DEF QueueInv, FlagsInv
<1> QED BY <1>1, <1>3, <1>4, SameQueue

LEMMA NextInv == SchedulerInv /\ [Next]_vars => SchedulerInv'
<1> SUFFICES ASSUME SchedulerInv, [Next]_vars PROVE SchedulerInv'
  OBVIOUS
<1>1. ContractInv' /\ QueueInv /\ ContractInv
  BY NextContract DEF SchedulerInv
<1> SUFFICES QueueInv' /\ HostInv'
  BY <1>1 DEF SchedulerInv
<1>2. CASE ScheduleNow
  BY <1>1, <1>2, ScheduleQueue, ScheduleNowHost
<1>3. CASE ScheduleDelayed
  BY <1>1, <1>3, ScheduleQueue, ScheduleDelayedHost
<1>4. CASE ContinueExecution \/ Frame \/ Retry
  BY <1>1, <1>4, OutsideQueue, OutsideHost
<1>5. CASE Tick \/ UNCHANGED vars
  BY <1>1, <1>5, OutsideQueue, SameHost
<1>6. CASE ShouldYield
  BY <1>1, <1>6, ShouldYieldQueue, SameHost
<1>7. CASE \E t \in DOMAIN tasks : Cancel(t)
  BY <1>1, <1>7, CancelQueue, SameHost
<1>8. ASSUME NEW name \in Events, HostEvent(name) PROVE QueueInv' /\ HostInv'
  <2>1. CASE host.callback
    <3>1. FlushWork(Received(host, name, now), name) /\ now' = now
      BY <1>8, <2>1 DEF HostEvent
    <3> QED BY <1>1, <1>8, <3>1, FlushQueue, ReceivedHost
  <2>2. CASE ~host.callback
    <3>1. UNCHANGED <<queues, currentTask, flags, working, now>>
      BY <1>8, <2>2 DEF HostEvent
    <3>2. FlagsInv' /\ now' \in Nat /\ now <= now'
      BY <1>1, <3>1 DEF QueueInv, FlagsInv, ClockInv, flags, working
    <3>3. QueueInv'
      BY <1>1, <3>1, <3>2, SameQueue DEF working
    <3> QED BY <1>8, <3>3, ReceivedHost
  <2> QED BY <2>1, <2>2
<1>9. ASSUME NEW due \in Timeouts(host), TimeoutFires(due) PROVE QueueInv' /\ HostInv'
  <2>1. due \in Int
    BY <1>9 DEF Timeouts, SchedulerInv, HostInv, HostTyped
  <2>2. QueueInv' /\ TimersAfter(Q', now)
    BY <1>1, <1>9, TimeoutQueue
  <2> QED BY <1>9, <2>1, <2>2, TimeoutHost
<1>10. CASE DropTask
  BY <1>1, <1>10, DropQueue, WorkHost DEF WorkLoopStep
<1>11. CASE RunTask
  BY <1>1, <1>11, RunQueue, WorkHost DEF WorkLoopStep
<1>12. CASE Yield \/ NothingLeft \/ TaskThrows
  <2>1. QueueInv'
    BY <1>1, <1>12, LeaveQueue DEF Yield, NothingLeft, TaskThrows
  <2> QED BY <1>12, <2>1, WorkHost DEF WorkLoopStep, CallbackEnds
<1>13. CASE TaskContinues
  BY <1>1, <1>13, ContinuesQueue, WorkHost DEF CallbackEnds
<1>14. CASE TaskCompletes
  BY <1>1, <1>14, CompletesQueue, WorkHost DEF CallbackEnds
<1> QED BY <1>2, <1>3, <1>4, <1>5, <1>6, <1>7, <1>8, <1>9, <1>10, <1>11, <1>12, <1>13, <1>14
        DEF Next, WorkLoopStep, CallbackEnds

\* The invariant that all the rest is read off.
LEMMA SchedulerInvariant == Spec => []SchedulerInv
<1>1. Init => SchedulerInv
  BY InitContract, InitQueue, InitHost DEF SchedulerInv
<1> QED BY <1>1, NextInv, PTL DEF Spec

-----------------------------------------------------------------------------
(***************************************************************************)
(* 6. The theorems.                                                        *)
(***************************************************************************)

\* Both queues are heaps by the keys that their tasks have at this moment, expiration
\* times in taskQueue and start times in timerQueue; a task that can still be called
\* is in exactly one of them; and the loop looks at a task that exists.  No step of
\* advanceTimers, a cancellation, a continuation or an error disturbs that.
THEOREM TypesHold == Spec => []TypeOK
<1>1. SchedulerInv => TypeOK
  <2> SUFFICES ASSUME SchedulerInv PROVE TypeOK
    OBVIOUS
  <2>1. QueueInv /\ QueuesOK(Q) /\ Queued(Q) /\ HostTyped(host)
    BY DEF SchedulerInv, QueueInv, HostInv
  <2>2. Queues \in QueueState
    BY <2>1, QueuesIsQ DEF QueuesOK
  <2>3. /\ Range(taskQueue) \subseteq DOMAIN tasks /\ Range(timerQueue) \subseteq DOMAIN tasks
        /\ Range(taskQueue) \cap Range(timerQueue) = {}
        /\ Ordered(SortIndex(tasks), taskQueue) /\ Ordered(SortIndex(tasks), timerQueue)
        /\ \A t \in Range(taskQueue) : tasks[t].sortIndex = tasks[t].expirationTime
        /\ \A t \in Range(timerQueue) : tasks[t].sortIndex = tasks[t].startTime
        /\ \A t \in DOMAIN tasks : HasCallback(t) => t \in Range(taskQueue) \cup Range(timerQueue)
    BY <2>1, StateOK DEF Q, HasCallback
  <2>4. currentTask # 0 => currentTask \in DOMAIN tasks
    <3>1. taskQueue # <<>> => Peek(taskQueue) \in Range(taskQueue)
      BY <2>1, PeekProperties, StateOK DEF Q
    <3>2. taskQueue = <<>> => Peek(taskQueue) = 0
      BY DEF Peek
    <3> QED BY <2>1, <2>3, <3>1, <3>2 DEF QueueInv, StageInv
  <2>5. IsHost(host) /\ (host.looping <=> host.frame)
    BY <2>1, TypedIsHost DEF HostTyped
  <2>6. stage \in {"idle", "loop", "callback"} /\ FlagsInv
    BY <2>1 DEF QueueInv, StageInv
  <2> QED BY <2>2, <2>3, <2>4, <2>5, <2>6 DEF TypeOK, FlagsInv
<1> QED BY <1>1, SchedulerInvariant, PTL

\* Between events a task that waits is going to be flushed, and a timer that waits
\* alone has a timeout or a flush ahead, whatever was cancelled, failed or yielded.
THEOREM WakeupsAreNotLost == Spec => []NoLostWakeup
<1>1. SchedulerInv => NoLostWakeup
  <2> SUFFICES ASSUME SchedulerInv, stage = "idle"
               PROVE  /\ taskQueue # <<>> => WillFlush
                      /\ taskQueue = <<>> /\ timerQueue # <<>> => WillFlush \/ Timeouts(host) # {}
    BY DEF NoLostWakeup
  <2>1. host.callback => WillFlush
    BY DEF SchedulerInv, ContractInv, WillFlush, Serves
  <2> QED BY <2>1 DEF SchedulerInv, HostInv, Awaited
<1> QED BY <1>1, SchedulerInvariant, PTL

\* When workLoop breaks off because shouldYield said so, no task that had started when
\* the clock was last read and that can be called has expired.
THEOREM ExpiredTasksAreCalled == Spec => ExpiredTasksDoNotYield
<1>1. SchedulerInv /\ [Next]_vars =>
        [Yield => \A t \in DOMAIN tasks :
           HasCallback(t) /\ tasks[t].startTime <= currentTime => ~Expired(t)]_vars
  <2> SUFFICES ASSUME SchedulerInv, Yield, NEW t \in DOMAIN tasks, HasCallback(t),
                      tasks[t].startTime <= currentTime
               PROVE  ~Expired(t)
    OBVIOUS
  <2>1. QueueInv /\ stage = "loop" /\ currentTask # 0 /\ ~Expired(currentTask)
    BY DEF SchedulerInv, Yield, OutOfTime
  <2>2. currentTask = Peek(taskQueue) /\ TimersAfter(Q, currentTime)
    BY <2>1 DEF QueueInv, StageInv
  <2>3. tasks[t] \in Task /\ currentTime \in Int
    BY <2>1, QueueDomains
  <2>4. t \in Range(taskQueue)
    <3>1. t \notin Range(timerQueue)
      <4>1. Q.tasks = tasks /\ Q.timerQueue = timerQueue
        BY StateFields DEF Q
      <4>2. \A u \in Range(timerQueue) : tasks[u].startTime > currentTime
        BY <2>2, <4>1 DEF TimersAfter
      <4>3. tasks[t].startTime \in Int
        BY <2>3 DEF Task
      <4> QED BY <2>3, <4>2, <4>3
    <3> QED BY <2>1, <3>1, StateOK DEF QueueInv, Queued, Q, HasCallback
  <2>5. /\ currentTask \in Range(taskQueue)
        /\ tasks[currentTask].sortIndex <= tasks[t].sortIndex
    BY <2>1, <2>2, <2>4, PeekProperties, StateOK DEF QueueInv, Q
  <2>6. tasks[currentTask] \in Task
    BY <2>1, <2>5, QueueDomains
  <2>7. /\ tasks[currentTask].sortIndex = tasks[currentTask].expirationTime
        /\ tasks[t].sortIndex = tasks[t].expirationTime
    BY <2>1, <2>4, <2>5, StateOK DEF QueueInv, Q
  <2> QED BY <2>1, <2>3, <2>5, <2>6, <2>7 DEF Expired, Task
<1> QED BY <1>1, SchedulerInvariant, PTL DEF Spec, ExpiredTasksDoNotYield
-----------------------------------------------------------------------------
(***************************************************************************)
(* 7. The most urgent task: refinement of TaskPool.                        *)
(***************************************************************************)
PoolTask(ts) ==
  [t \in DOMAIN ts |-> [start |-> ts[t].startTime, expires |-> ts[t].expirationTime]]

CanBeCalled(ts) == { t \in DOMAIN ts : ts[t].callback }

Running == IF stage = "callback" THEN currentTask ELSE 0

\* The same tasks, with the same times.
SameTimes(ts, us) ==
  /\ DOMAIN ts = DOMAIN us
  /\ \A t \in DOMAIN us : /\ ts[t].startTime = us[t].startTime
                          /\ ts[t].expirationTime = us[t].expirationTime

LEMMA SamePoolTask ==
  ASSUME NEW ts, NEW us, SameTimes(ts, us)
  PROVE  PoolTask(ts) = PoolTask(us)
BY DEF SameTimes, PoolTask

LEMMA SameTasksInPool ==
  ASSUME NEW ts, NEW us, SameTasks(ts, us)
  PROVE  PoolTask(ts) = PoolTask(us) /\ CanBeCalled(ts) = CanBeCalled(us)
<1>1. SameTimes(ts, us)
  BY DEF SameTasks, SameTimes
<1>2. CanBeCalled(ts) = CanBeCalled(us)
  BY DEF SameTasks, CanBeCalled
<1> QED BY <1>1, <1>2, SamePoolTask

LEMMA AppendInPool ==
  ASSUME NEW ts \in Seq(Task), NEW task \in Task, task.callback
  PROVE  LET us == Append(ts, task)
         IN  /\ PoolTask(us) = Append(PoolTask(ts), [start |-> task.startTime,
                                                     expires |-> task.expirationTime])
             /\ Len(PoolTask(ts)) = Len(ts) /\ Len(PoolTask(us)) = Len(ts) + 1
             /\ CanBeCalled(us) = CanBeCalled(ts) \cup {Len(ts) + 1}
<1> DEFINE n == Len(ts)
           us == Append(ts, task)
           Pair == [start : Int, expires : Int]
           pair == [start |-> task.startTime, expires |-> task.expirationTime]
<1>1. /\ us \in Seq(Task) /\ n \in Nat /\ DOMAIN ts = 1 .. n /\ DOMAIN us = 1 .. n + 1
      /\ us[n + 1] = task /\ \A t \in 1 .. n : us[t] = ts[t]
  OBVIOUS
<1>2. pair \in Pair
  BY DEF Task
<1>3. PoolTask(ts) \in Seq(Pair) /\ Len(PoolTask(ts)) = n
  <2>1. \A t \in 1 .. n : [start |-> ts[t].startTime, expires |-> ts[t].expirationTime] \in Pair
    <3>1. \A t \in 1 .. n : ts[t] \in Task
      BY <1>1
    <3> QED BY <3>1 DEF Task
  <2> HIDE DEF Pair
  <2> QED BY <1>1, <2>1 DEF PoolTask
<1> HIDE DEF us, Pair, pair
<1>4. /\ DOMAIN Append(PoolTask(ts), pair) = 1 .. n + 1
      /\ Append(PoolTask(ts), pair)[n + 1] = pair
      /\ \A t \in 1 .. n : Append(PoolTask(ts), pair)[t] = PoolTask(ts)[t]
      /\ Append(PoolTask(ts), pair) \in Seq(Pair)
      /\ Len(Append(PoolTask(ts), pair)) = n + 1
  BY <1>1, <1>2, <1>3
<1>5. PoolTask(us) = Append(PoolTask(ts), pair)
  <2> DEFINE longer == Append(PoolTask(ts), pair)
  <2>1. longer = [t \in 1 .. n + 1 |-> longer[t]]
    <3>1. longer \in [1 .. n + 1 -> Pair]
      <4>1. longer \in Seq(Pair) /\ Len(longer) = n + 1
        BY <1>4
      <4> HIDE DEF longer, n
      <4> QED BY <4>1
    <3> HIDE DEF longer, n
    <3> QED BY <3>1
  <2>2. \A t \in 1 .. n + 1 :
           longer[t] = [start |-> us[t].startTime, expires |-> us[t].expirationTime]
    <3> SUFFICES ASSUME NEW t \in 1 .. n + 1
                 PROVE  longer[t] = [start |-> us[t].startTime, expires |-> us[t].expirationTime]
      OBVIOUS
    <3>1. CASE t = n + 1
      BY <3>1, <1>1, <1>4 DEF pair
    <3>2. CASE t # n + 1
      <4>1. t \in 1 .. n
        BY <3>2, <1>1
      <4> HIDE DEF n
      <4> QED BY <4>1, <1>1, <1>4 DEF PoolTask
    <3> QED BY <3>1, <3>2
  <2> HIDE DEF longer, n
  <2> QED BY <1>1, <2>1, <2>2 DEF PoolTask, longer
<1>6. CanBeCalled(us) = CanBeCalled(ts) \cup {n + 1}
  BY <1>1 DEF CanBeCalled
<1> QED BY <1>3, <1>4, <1>5, <1>6 DEF us, pair

LEMMA InitPool == Init => Pool!Init
<1> SUFFICES ASSUME Init PROVE Pool!Init
  OBVIOUS
<1>1. tasks = <<>> /\ currentTime = -1 /\ stage = "idle"
  BY DEF Init, None
<1>2. PoolTask(<<>>) = <<>> /\ CanBeCalled(<<>>) = {}
  BY DEF PoolTask, CanBeCalled
<1> QED BY <1>1, <1>2 DEF Pool!Init, PoolTask, CanBeCalled, Live, HasCallback

\* The pool's variables, by the names used here.
LEMMA PoolStates ==
  /\ Pool!Init <=> PoolTask(tasks) = <<>> /\ CanBeCalled(tasks) = {} /\ Running = 0 /\ currentTime = -1
  /\ UNCHANGED Pool!vars <=>
       /\ PoolTask(tasks') = PoolTask(tasks) /\ CanBeCalled(tasks') = CanBeCalled(tasks)
       /\ Running' = Running /\ currentTime' = currentTime
  /\ Pool!Looked <=> currentTime' \in Int /\ (currentTime' = -1 \/ currentTime' >= currentTime)
  /\ Pool!Look <=>
       /\ Running = 0 /\ Pool!Looked
       /\ PoolTask(tasks') = PoolTask(tasks) /\ CanBeCalled(tasks') = CanBeCalled(tasks)
       /\ Running' = Running
  /\ Pool!End <=>
       /\ Running # 0 /\ Running' = 0 /\ Pool!Looked
       /\ CanBeCalled(tasks') \in {CanBeCalled(tasks), CanBeCalled(tasks) \cup {Running}}
       /\ PoolTask(tasks') = PoolTask(tasks)
  /\ Pool!Schedule <=>
       /\ Len(PoolTask(tasks)) + 1 \in DOMAIN Timeout
       /\ \E start \in 0 .. MaxTime :
            PoolTask(tasks') = Append(PoolTask(tasks),
                  [start |-> start, expires |-> start + Timeout[Len(PoolTask(tasks)) + 1]])
       /\ CanBeCalled(tasks') = CanBeCalled(tasks) \cup {Len(PoolTask(tasks'))}
       /\ Running' = Running /\ currentTime' = currentTime
  /\ \A t : Pool!Cancel(t) <=>
       /\ CanBeCalled(tasks') = CanBeCalled(tasks) \ {t}
       /\ PoolTask(tasks') = PoolTask(tasks)
       /\ Running' = Running /\ currentTime' = currentTime
BY DEF Pool!Init, Pool!vars, Pool!Looked, Pool!Look, Pool!End, Pool!Schedule, Pool!Cancel,
       PoolTask, CanBeCalled, Live, HasCallback, Running

LEMMA PoolCall ==
  ASSUME NEW t \in CanBeCalled(tasks), Running = 0, Running' = t,
         \A u \in CanBeCalled(tasks) :
           tasks[u].startTime <= currentTime /\ u # t =>
             \/ tasks[t].expirationTime < tasks[u].expirationTime
             \/ tasks[t].expirationTime = tasks[u].expirationTime /\ t < u,
         CanBeCalled(tasks') = CanBeCalled(tasks) \ {t},
         PoolTask(tasks') = PoolTask(tasks), currentTime' = currentTime
  PROVE  Pool!Call(t)
<1>1. \A u \in DOMAIN tasks : /\ PoolTask(tasks)[u].start = tasks[u].startTime
                              /\ PoolTask(tasks)[u].expires = tasks[u].expirationTime
  BY DEF PoolTask
<1>2. t \in DOMAIN tasks /\ \A u \in CanBeCalled(tasks) : u \in DOMAIN tasks
  BY DEF CanBeCalled
<1>3. Pool!Started = { u \in CanBeCalled(tasks) : PoolTask(tasks)[u].start <= currentTime }
  BY DEF Pool!Started, PoolTask, CanBeCalled, Live, HasCallback
<1>4. \A u : Pool!MoreUrgent(t, u) <=>
               \/ PoolTask(tasks)[t].expires < PoolTask(tasks)[u].expires
               \/ PoolTask(tasks)[t].expires = PoolTask(tasks)[u].expires /\ t < u
  BY DEF Pool!MoreUrgent, PoolTask
<1>5. \A u \in Pool!Started \ {t} : Pool!MoreUrgent(t, u)
  BY <1>1, <1>2, <1>3, <1>4
<1>6. /\ Live = CanBeCalled(tasks) /\ Live' = CanBeCalled(tasks')
  BY DEF CanBeCalled, Live, HasCallback
<1> QED BY <1>5, <1>6 DEF Pool!Call, PoolTask, Running

LEMMA ScheduleInPool ==
  ASSUME SchedulerInv, ScheduleNow \/ ScheduleDelayed
  PROVE  Pool!Next
<1>1. PICK task \in Task :
         /\ tasks' = Append(tasks, task) /\ task.callback
         /\ task.startTime \in 0 .. MaxTime
         /\ task.expirationTime = task.startTime + Timeout[NextID]
  BY ScheduleQueue DEF SchedulerInv
<1>2. NextID \in DOMAIN Timeout /\ NextID = Len(tasks) + 1
  BY ScheduleQueue, SchedulerAssumption DEF SchedulerInv, NextID
<1>3. UNCHANGED <<currentTask, stage, currentTime>>
  BY DEF ScheduleNow, ScheduleDelayed, working
<1>4. tasks \in Seq(Task)
  BY QueueDomains DEF SchedulerInv
<1>5. /\ PoolTask(tasks') = Append(PoolTask(tasks), [start |-> task.startTime,
                                                     expires |-> task.expirationTime])
      /\ Len(PoolTask(tasks)) = Len(tasks) /\ Len(PoolTask(tasks')) = Len(tasks) + 1
      /\ CanBeCalled(tasks') = CanBeCalled(tasks) \cup {Len(tasks) + 1}
  BY <1>1, <1>4, AppendInPool
<1>6. Running' = Running
  BY <1>3 DEF Running
<1>7. Pool!Schedule
  BY <1>1, <1>2, <1>3, <1>5, <1>6, PoolStates
<1> QED BY <1>7 DEF Pool!Next

LEMMA CancelInPool ==
  ASSUME SchedulerInv, NEW t \in DOMAIN tasks, Cancel(t)
  PROVE  Pool!Next
<1>1. tasks \in Seq(Task) /\ tasks[t] \in Task
  BY QueueDomains DEF SchedulerInv
<1>2. /\ tasks' = [tasks EXCEPT ![t].callback = FALSE]
      /\ UNCHANGED <<currentTask, stage, currentTime>>
  BY DEF Cancel, working
<1>3. /\ DOMAIN tasks' = DOMAIN tasks
      /\ \A u \in DOMAIN tasks :
           /\ tasks'[u].startTime = tasks[u].startTime
           /\ tasks'[u].expirationTime = tasks[u].expirationTime
           /\ tasks'[u].callback <=> tasks[u].callback /\ u # t
  <2> DEFINE task == [tasks[t] EXCEPT !.callback = FALSE]
  <2>1. /\ ~task.callback /\ task.startTime = tasks[t].startTime
        /\ task.expirationTime = tasks[t].expirationTime
    BY <1>1 DEF Task
  <2>2. tasks' = [tasks EXCEPT ![t] = task]
    BY <1>2
  <2> HIDE DEF task
  <2> QED BY <1>1, <2>1, <2>2
<1>4. PoolTask(tasks') = PoolTask(tasks)
  BY <1>3, SamePoolTask DEF SameTimes
<1>5. CanBeCalled(tasks') = CanBeCalled(tasks) \ {t}
  BY <1>3 DEF CanBeCalled
<1>6. Pool!Cancel(t)
  BY <1>2, <1>4, <1>5, PoolStates DEF Running
<1>7. t \in DOMAIN PoolTask(tasks)
  BY DEF PoolTask
<1> QED BY <1>6, <1>7 DEF Pool!Next, PoolTask

\* The task that is called is the most urgent one that has started.
LEMMA RunInPool ==
  ASSUME SchedulerInv, RunTask
  PROVE  Pool!Next
<1>1. /\ QueueInv /\ stage = "loop" /\ stage' = "callback" /\ currentTask # 0
      /\ UNCHANGED <<currentTask, currentTime>> /\ TimersAfter(Q, currentTime)
  BY DEF SchedulerInv, RunTask, QueueInv, StageInv
<1>2. /\ currentTask \in Range(taskQueue) /\ currentTask = Peek(taskQueue)
      /\ tasks[currentTask].callback
      /\ DOMAIN tasks' = DOMAIN tasks
      /\ \A t \in DOMAIN tasks :
           /\ tasks'[t].startTime = tasks[t].startTime
           /\ tasks'[t].expirationTime = tasks[t].expirationTime
           /\ tasks'[t].callback <=> tasks[t].callback /\ t # currentTask
  BY <1>1, RunQueue
<1>3. currentTask \in CanBeCalled(tasks) /\ CanBeCalled(tasks') = CanBeCalled(tasks) \ {currentTask}
  BY <1>1, <1>2, QueueDomains DEF CanBeCalled
<1>4. PoolTask(tasks') = PoolTask(tasks)
  BY <1>2, SamePoolTask DEF SameTimes
<1>5. ASSUME NEW u \in CanBeCalled(tasks), tasks[u].startTime <= currentTime, u # currentTask
      PROVE  \/ tasks[currentTask].expirationTime < tasks[u].expirationTime
             \/ tasks[currentTask].expirationTime = tasks[u].expirationTime /\ currentTask < u
  <2>1. u \in DOMAIN tasks /\ tasks[u].callback
    BY DEF CanBeCalled
  <2>2. u \in Range(taskQueue)
    <3>1. Q.tasks = tasks /\ Q.timerQueue = timerQueue
      BY StateFields DEF Q
    <3>2. \A v \in Range(timerQueue) : tasks[v].startTime > currentTime
      BY <1>1, <3>1 DEF TimersAfter
    <3>3. tasks[u].startTime \in Int /\ currentTime \in Int
      BY <1>1, <2>1, QueueDomains DEF Task
    <3>4. u \notin Range(timerQueue)
      BY <1>5, <3>2, <3>3
    <3> QED BY <1>1, <2>1, <3>4, StateOK DEF QueueInv, Queued, Q
  <2>3. /\ tasks[currentTask].sortIndex <= tasks[u].sortIndex
        /\ tasks[currentTask].sortIndex = tasks[u].sortIndex => currentTask <= u
    BY <1>1, <1>2, <2>2, PeekProperties, StateOK DEF QueueInv, Q
  <2>4. /\ tasks[currentTask].sortIndex = tasks[currentTask].expirationTime
        /\ tasks[u].sortIndex = tasks[u].expirationTime
    BY <1>1, <1>2, <2>2, StateOK DEF QueueInv, Q
  <2>5. /\ tasks[currentTask].expirationTime \in Int /\ tasks[u].expirationTime \in Int
        /\ currentTask \in Nat /\ u \in Nat
    BY <1>1, <1>2, <2>1, QueueDomains DEF Task
  <2> QED BY <1>5, <2>3, <2>4, <2>5
<1>6. Pool!Call(currentTask)
  BY <1>1, <1>3, <1>4, <1>5, PoolCall DEF Running
<1>7. currentTask \in DOMAIN PoolTask(tasks)
  BY <1>3 DEF PoolTask, CanBeCalled
<1> QED BY <1>6, <1>7 DEF Pool!Next, PoolTask

LEMMA EndInPool ==
  ASSUME SchedulerInv, CallbackEnds
  PROVE  Pool!Next
<1>1. /\ QueueInv /\ stage = "callback" /\ currentTask \in DOMAIN tasks /\ currentTask # 0
      /\ now \in Nat /\ currentTime \in Int /\ currentTime <= now
  BY QueueDomains DEF SchedulerInv, CallbackEnds, TaskContinues, TaskCompletes, TaskThrows,
                      QueueInv, StageInv, ClockInv
<1>2. Running = currentTask /\ Running # 0
  BY <1>1 DEF Running
<1>3. CASE TaskContinues
  <2>1. /\ currentTime' = now /\ stage' = "loop" /\ DOMAIN tasks' = DOMAIN tasks
        /\ \A t \in DOMAIN tasks :
             /\ tasks'[t].startTime = tasks[t].startTime
             /\ tasks'[t].expirationTime = tasks[t].expirationTime
             /\ tasks'[t].callback <=> tasks[t].callback \/ t = currentTask
    BY <1>1, <1>3, ContinuesQueue
  <2>2. PoolTask(tasks') = PoolTask(tasks)
    BY <2>1, SamePoolTask DEF SameTimes
  <2>3. CanBeCalled(tasks') = CanBeCalled(tasks) \cup {Running}
    BY <1>1, <1>2, <2>1 DEF CanBeCalled
  <2>4. Pool!Looked /\ Running' = 0
    BY <1>1, <2>1, PoolStates DEF Running
  <2>5. Pool!End
    BY <1>2, <2>2, <2>3, <2>4, PoolStates
  <2> QED BY <2>5 DEF Pool!Next
<1>4. CASE TaskCompletes
  <2>1. currentTime' = now /\ stage' = "loop" /\ SameTasks(tasks', tasks)
    BY <1>1, <1>4, CompletesQueue
  <2>2. PoolTask(tasks') = PoolTask(tasks) /\ CanBeCalled(tasks') = CanBeCalled(tasks)
    BY <2>1, SameTasksInPool
  <2>3. Pool!Looked /\ Running' = 0
    BY <1>1, <2>1, PoolStates DEF Running
  <2>4. Pool!End
    BY <1>2, <2>2, <2>3, PoolStates
  <2> QED BY <2>4 DEF Pool!Next
<1>5. CASE TaskThrows
  <2>1. tasks' = tasks /\ stage' = "idle" /\ currentTime' = -1
    BY <1>5 DEF TaskThrows, Leave, queues, None
  <2>2. Pool!Looked /\ Running' = 0
    BY <2>1, PoolStates DEF Running
  <2>3. Pool!End
    BY <1>2, <2>1, <2>2, PoolStates
  <2> QED BY <2>3 DEF Pool!Next
<1> QED BY <1>3, <1>4, <1>5 DEF CallbackEnds

\* The scheduler reads the clock and finds out what is due, or leaves.
LEMMA LookInPool ==
  ASSUME SchedulerInv, Running = 0, Running' = 0, SameTasks(tasks', tasks),
         currentTime' = now \/ currentTime' = -1
  PROVE  Pool!Next
<1>1. now \in Nat /\ currentTime \in Int /\ currentTime <= now
  BY DEF SchedulerInv, QueueInv, ClockInv
<1>2. PoolTask(tasks') = PoolTask(tasks) /\ CanBeCalled(tasks') = CanBeCalled(tasks)
  BY SameTasksInPool
<1>3. Pool!Looked
  BY <1>1, PoolStates
<1>4. Pool!Look
  BY <1>2, <1>3, PoolStates
<1> QED BY <1>4 DEF Pool!Next

\* Steps that make no difference to the users of the scheduler.
LEMMA NothingInPool ==
  ASSUME SameTasks(tasks', tasks), UNCHANGED <<stage, currentTime>>,
         Running' = Running
  PROVE  UNCHANGED Pool!vars
<1>1. PoolTask(tasks') = PoolTask(tasks) /\ CanBeCalled(tasks') = CanBeCalled(tasks)
  BY SameTasksInPool
<1> QED BY <1>1, PoolStates

\* The scheduler is an implementation of TaskPool: whatever its heaps, timers and
\* host do, the task that it calls is one that has started and has not been cancelled,
\* and among those the one that expires first.
THEOREM SchedulerImplementsTaskPool == Spec => ImplementsTaskPool
<1>1. SchedulerInv /\ [Next]_vars => [Pool!Next]_Pool!vars
  <2> SUFFICES ASSUME SchedulerInv, [Next]_vars PROVE Pool!Next \/ UNCHANGED Pool!vars
    OBVIOUS
  <2>0. SameTasks(tasks, tasks) /\ QueueInv
    BY DEF SameTasks, SchedulerInv
  <2>1. CASE ScheduleNow \/ ScheduleDelayed
    BY <2>1, ScheduleInPool
  <2>2. CASE \E t \in DOMAIN tasks : Cancel(t)
    BY <2>2, CancelInPool
  <2>3. CASE RunTask
    BY <2>3, RunInPool
  <2>4. CASE CallbackEnds
    BY <2>4, EndInPool
  <2>5. CASE Yield \/ NothingLeft
    <3>1. /\ stage = "loop" /\ stage' = "idle" /\ tasks' = tasks /\ currentTime' = -1
      BY <2>5 DEF Yield, NothingLeft, Leave, queues, None
    <3> QED BY <2>0, <3>1, LookInPool DEF Running
  <2>6. ASSUME NEW name \in Events, HostEvent(name)
        PROVE  Pool!Next \/ UNCHANGED Pool!vars
    <3>1. CASE host.callback
      <4>1. /\ FlushWork(Received(host, name, now), name) /\ now' = now /\ stage = "idle"
        BY <2>6, <3>1 DEF HostEvent
      <4>2. SameTasks(tasks', tasks)
        BY <2>0, <4>1, FlushQueue
      <4>3. stage' = "loop" /\ currentTime' = now
        BY <4>1 DEF FlushWork
      <4> QED BY <4>1, <4>2, <4>3, LookInPool DEF Running
    <3>2. CASE ~host.callback
      <4>1. UNCHANGED <<tasks, currentTask, stage, currentTime>>
        BY <2>6, <3>2 DEF HostEvent, queues, working
      <4> QED BY <2>0, <4>1, NothingInPool DEF Running
    <3> QED BY <3>1, <3>2
  <2>7. CASE ShouldYield
    <3>1. SameTasks(tasks', tasks) /\ UNCHANGED <<currentTask, stage, currentTime>>
      BY <2>0, <2>7, ShouldYieldQueue DEF ShouldYield, working
    <3> QED BY <3>1, NothingInPool DEF Running
  <2>8. ASSUME NEW due, TimeoutFires(due) PROVE UNCHANGED Pool!vars
    <3>1. SameTasks(tasks', tasks) /\ UNCHANGED <<currentTask, stage, currentTime>>
      BY <2>0, <2>8, TimeoutQueue DEF TimeoutFires, working
    <3> QED BY <3>1, NothingInPool DEF Running
  <2>9. CASE DropTask
    <3>1. tasks' = tasks /\ UNCHANGED <<stage, currentTime>> /\ stage = "loop"
      BY <2>9 DEF DropTask, working
    <3> QED BY <2>0, <3>1, NothingInPool DEF Running
  <2>10. CASE ContinueExecution \/ Frame \/ Retry \/ Tick \/ UNCHANGED vars
    <3>1. UNCHANGED <<tasks, currentTask, stage, currentTime>>
      BY <2>10 DEF ContinueExecution, Frame, Retry, Tick, vars, queues, working
    <3> QED BY <2>0, <3>1, NothingInPool DEF Running
  <2> QED BY <2>1, <2>2, <2>3, <2>4, <2>5, <2>6, <2>7, <2>8, <2>9, <2>10
          DEF Next, WorkLoopStep
<1> QED BY <1>1, InitPool, SchedulerInvariant, PTL DEF Spec, ImplementsTaskPool, Pool!Spec
=============================================================================
