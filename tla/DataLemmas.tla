----------------------------- MODULE DataLemmas -----------------------------
(***************************************************************************)
(* What the proofs about several components need to know of their data.    *)
(*                                                                         *)
(* Sequences of whatever elements: what the operations of a stack do to    *)
(* them.  The stacks of reads, of renderers and of hooks are used in these *)
(* ways.                                                                   *)
(*                                                                         *)
(* Loops: the model writes a loop of the code as a recursive function,     *)
(* that is as the choice of a function with a certain equation.  If some   *)
(* number gets smaller with each turn, there is such a function, and what  *)
(* each turn keeps holds at the end.  All of it follows from the fact that *)
(* a set of natural numbers has a least element.                           *)
(*                                                                         *)
(* The free list of thread IDs, which the renderers share: the chain of    *)
(* free IDs loses its head, gains a head, or is replaced by the new half   *)
(* of a doubled array, with each operation of the allocator.               *)
(***************************************************************************)
EXTENDS ThreadIDFreeList, SequencesExt, FiniteSetTheorems, WellFoundedInduction, TLAPS

IsSeq(s) == \E S : s \in Seq(S)

\* A longer sequence.
LEMMA AppendIsSeq ==
  ASSUME NEW s, IsSeq(s), NEW x
  PROVE  /\ IsSeq(Append(s, x)) /\ Len(Append(s, x)) = Len(s) + 1 /\ Len(s) \in Nat
         /\ DOMAIN Append(s, x) = DOMAIN s \cup {Len(s) + 1}
         /\ Append(s, x)[Len(s) + 1] = x
         /\ \A i \in DOMAIN s : Append(s, x)[i] = s[i] /\ i \in 1 .. Len(s)
<1>1. PICK S : s \in Seq(S)
  BY DEF IsSeq
<1>2. s \in Seq(S \cup {x}) /\ x \in S \cup {x}
  BY <1>1
<1>3. Append(s, x) \in Seq(S \cup {x})
  BY <1>2
<1> QED BY <1>1, <1>2, <1>3 DEF IsSeq

\* Assigning to an element.
LEMMA ExceptIsSeq ==
  ASSUME NEW s, IsSeq(s), NEW n \in DOMAIN s, NEW x
  PROVE  LET t == [s EXCEPT ![n] = x]
         IN  /\ IsSeq(t) /\ Len(t) = Len(s) /\ DOMAIN t = DOMAIN s
             /\ t[n] = x /\ \A i \in DOMAIN s \ {n} : t[i] = s[i]
<1>1. PICK S : s \in Seq(S)
  BY DEF IsSeq
<1>2. s \in Seq(S \cup {x}) /\ x \in S \cup {x}
  BY <1>1
<1>3. [s EXCEPT ![n] = x] \in Seq(S \cup {x})
  BY <1>2
<1> QED BY <1>1, <1>2, <1>3 DEF IsSeq

\* Assigning to an element of a sequence, if there is one.
LEMMA ExceptAny ==
  ASSUME NEW s, IsSeq(s), NEW n, NEW v
  PROVE  LET t == [s EXCEPT ![n] = v]
         IN  /\ IsSeq(t) /\ Len(t) = Len(s) /\ DOMAIN t = DOMAIN s
             /\ \A i \in DOMAIN s : t[i] = IF i = n THEN v ELSE s[i]
<1>1. CASE n \in DOMAIN s
  BY <1>1, ExceptIsSeq
<1>2. CASE n \notin DOMAIN s
  <2>1. PICK S : s \in Seq(S)
    BY DEF IsSeq
  <2>2. [s EXCEPT ![n] = v] = s
    BY <1>2, <2>1
  <2>. QED
    BY <1>2, <2>1, <2>2
<1>. QED
  BY <1>1, <1>2

\* A sequence that is not empty has a last element, and loses it alone.
LEMMA FrontIsSeq ==
  ASSUME NEW s, IsSeq(s), s # <<>>
  PROVE  /\ Len(s) \in Nat /\ Len(s) >= 1 /\ DOMAIN s = 1 .. Len(s)
         /\ Len(s) \in DOMAIN s /\ Last(s) = s[Len(s)]
         /\ IsSeq(Front(s)) /\ Len(Front(s)) = Len(s) - 1
         /\ DOMAIN Front(s) = 1 .. Len(s) - 1
         /\ \A i \in 1 .. Len(s) - 1 : Front(s)[i] = s[i]
<1>1. PICK S : s \in Seq(S)
  BY DEF IsSeq
<1>2. /\ Len(s) \in Nat /\ Len(s) >= 1 /\ DOMAIN s = 1 .. Len(s)
      /\ Len(s) \in DOMAIN s /\ Last(s) = s[Len(s)]
  BY <1>1 DEF Last
<1>3. Front(s) = SubSeq(s, 1, Len(s) - 1)
  BY DEF Front
<1>4. /\ Front(s) \in Seq(S) /\ Len(Front(s)) = Len(s) - 1
      /\ \A i \in 1 .. Len(s) - 1 : Front(s)[i] = s[i]
  BY <1>1, <1>2, <1>3
<1>5. DOMAIN Front(s) = 1 .. Len(s) - 1
  BY <1>4
<1> QED BY <1>2, <1>4, <1>5 DEF IsSeq
-----------------------------------------------------------------------------
\* Of a set of numbers one is the least.
LEMMA LeastElement ==
  ASSUME NEW T, T \subseteq Nat, T # {}
  PROVE  \E m \in T : \A k \in T : m <= k
<1> DEFINE R == OpToRel(<, Nat)
<1>1. IsWellFoundedOn(R, Nat)
  BY NatLessThanWellFounded
<1>2. \A x, y \in Nat : x < y => <<x, y>> \in R
  BY DEF OpToRel
<1> HIDE DEF R
<1>3. PICK m \in T : \A k \in T : ~(<<k, m>> \in R)
  BY <1>1, WFMin
<1>4. ASSUME NEW k \in T PROVE m <= k
  <2>1. k \in Nat /\ m \in Nat /\ ~(<<k, m>> \in R)
    BY <1>3
  <2>2. ~(k < m)
    BY <1>2, <2>1
  <2> QED BY <2>1, <2>2
<1> QED BY <1>4

\* A set of numbers that has 0 and with each number the next one has all.
LEMMA SetInduction ==
  ASSUME NEW S, 0 \in S, \A n \in Nat : n \in S => n + 1 \in S
  PROVE  Nat \subseteq S
<1> DEFINE T == Nat \ S
<1> SUFFICES ASSUME T # {} PROVE FALSE
  OBVIOUS
<1>1. T \subseteq Nat
  OBVIOUS
<1>2. PICK m \in T : \A k \in T : m <= k
  BY <1>1, LeastElement
<1>3. m # 0 /\ m - 1 \in Nat /\ m - 1 \notin T
  BY <1>2
<1> QED BY <1>3

\* A loop over the states S: it goes on in the states of `again', with the next
\* state, and otherwise ends with what `out' says.
IsLoop(f, S, again, next, out) ==
  f = [x \in S |-> IF x \in again THEN f[next[x]] ELSE out[x]]

\* Each turn leads to a smaller state.
Decreases(S, again, next, size) ==
  /\ again \subseteq S
  /\ \A x \in S : size[x] \in Nat
  /\ \A x \in again : next[x] \in S /\ size[next[x]] < size[x]

\* A recursion over the states S: what it makes of a state is what `step' makes of the
\* result for the next one.
Computes(f, S, again, next, step, out) ==
  f = [x \in S |-> IF x \in again THEN step[x][f[next[x]]] ELSE out[x]]

\* What a recursion computes does not depend on the states that it does not reach.
LEMMA RecursionsAgree ==
  ASSUME NEW S, NEW T, NEW again, NEW next, NEW step, NEW out, NEW size, NEW f, NEW g,
         S \subseteq T, Decreases(T, again, next, size),
         \A x \in again : x \in S => next[x] \in S,
         Computes(f, S, again, next, step, out), Computes(g, T, again, next, step, out)
  PROVE  \A x \in S : f[x] = g[x]
<1> DEFINE Bad == { size[x] : x \in { y \in S : f[y] # g[y] } }
<1> SUFFICES ASSUME Bad # {} PROVE FALSE
  OBVIOUS
<1>1. Bad \subseteq Nat
  BY DEF Decreases
<1>2. PICK m \in Bad : \A k \in Bad : m <= k
  BY <1>1, LeastElement
<1>3. PICK x \in S : f[x] # g[x] /\ size[x] = m
  BY <1>2
<1>4. f[x] = IF x \in again THEN step[x][f[next[x]]] ELSE out[x]
  BY DEF Computes
<1>5. g[x] = IF x \in again THEN step[x][g[next[x]]] ELSE out[x]
  BY DEF Computes
<1>6. x \in again /\ f[next[x]] # g[next[x]] /\ next[x] \in S
  BY <1>3, <1>4, <1>5
<1>7. size[next[x]] \in Bad /\ size[next[x]] < m
  BY <1>3, <1>6 DEF Decreases
<1> QED BY <1>1, <1>2, <1>7, SMTT(60)

\* A recursion whose states get smaller comes to an end: there is a function that it
\* computes.
LEMMA RecursionEnds ==
  ASSUME NEW S, NEW again, NEW next, NEW step, NEW out, NEW size, NEW V,
         Decreases(S, again, next, size),
         \A x \in S : IF x \in again THEN \A v \in V : step[x][v] \in V ELSE out[x] \in V
  PROVE  \E f \in [S -> V] : Computes(f, S, again, next, step, out)
<1> DEFINE Below(n) == { x \in S : size[x] < n }
           Done == { n \in Nat :
                       \E f \in [Below(n) -> V] : Computes(f, Below(n), again, next, step, out) }
<1>1. \A n \in Nat, x \in again : x \in Below(n + 1) => next[x] \in Below(n)
  BY DEF Decreases
<1>2. \A n \in Nat : Below(n) \subseteq Below(n + 1) /\ Below(n) \subseteq S
  BY DEF Decreases
<1>3. 0 \in Done
  <2>1. Below(0) = {}
    BY DEF Decreases
  <2> DEFINE g == [x \in {} |-> 0]
  <2>2. Computes(g, Below(0), again, next, step, out) /\ g \in [Below(0) -> V]
    BY <2>1 DEF Computes
  <2> QED BY <2>2
<1>4. ASSUME NEW n \in Nat, n \in Done PROVE n + 1 \in Done
  <2>1. PICK f \in [Below(n) -> V] : Computes(f, Below(n), again, next, step, out)
    BY <1>4
  <2> DEFINE g == [x \in Below(n + 1) |-> IF x \in again THEN step[x][f[next[x]]] ELSE out[x]]
  <2>2. \A x \in Below(n) : g[x] = f[x]
    BY <2>1, <1>2 DEF Computes
  <2>3. \A x \in Below(n + 1) : x \in again => g[next[x]] = f[next[x]] /\ f[next[x]] \in V
    BY <1>1, <2>2
  <2>4. g = [x \in Below(n + 1) |-> IF x \in again THEN step[x][g[next[x]]] ELSE out[x]]
    BY <2>3
  <2>5. g \in [Below(n + 1) -> V]
    BY <2>3, <1>2
  <2> HIDE DEF g
  <2>6. Computes(g, Below(n + 1), again, next, step, out)
    BY <2>4 DEF Computes
  <2>7. n + 1 \in Nat
    OBVIOUS
  <2> HIDE DEF Below
  <2> QED BY <2>5, <2>6, <2>7
<1>5. Nat \subseteq Done
  <2> HIDE DEF Done
  <2> QED BY <1>3, <1>4, SetInduction
<1> DEFINE part == [n \in Nat |-> CHOOSE f :
                      f \in [Below(n) -> V] /\ Computes(f, Below(n), again, next, step, out)]
           f == [x \in S |-> part[size[x] + 1][x]]
<1>6. \A n \in Nat : /\ Computes(part[n], Below(n), again, next, step, out)
                     /\ part[n] \in [Below(n) -> V]
  BY <1>5
<1> HIDE DEF part
<1>7. \A n \in Nat, m \in Nat, x \in S : n <= m /\ size[x] < n => part[n][x] = part[m][x]
  <2> SUFFICES ASSUME NEW n \in Nat, NEW m \in Nat, n <= m
               PROVE  \A x \in Below(n) : part[n][x] = part[m][x]
    OBVIOUS
  <2>1. Below(n) \subseteq Below(m)
    BY DEF Decreases
  <2>2. \A x \in again : x \in Below(n) => next[x] \in Below(n)
    BY DEF Decreases
  <2>3. \A x \in Below(m) : x \in again => next[x] \in Below(m)
    BY DEF Decreases
  <2>4. Decreases(Below(m), again \cap Below(m), next, size)
    BY <2>3 DEF Decreases
  <2>5. Computes(part[n], Below(n), again \cap Below(m), next, step, out)
    BY <1>6, <2>1 DEF Computes
  <2>6. Computes(part[m], Below(m), again \cap Below(m), next, step, out)
    BY <1>6 DEF Computes
  <2> HIDE DEF Below
  <2>7. \A x \in again \cap Below(m) : x \in Below(n) => next[x] \in Below(n)
    BY <2>2
  <2> QED BY <2>1, <2>4, <2>5, <2>6, <2>7, RecursionsAgree
<1>8. ASSUME NEW x \in S
      PROVE  f[x] \in V /\ f[x] = IF x \in again THEN step[x][f[next[x]]] ELSE out[x]
  <2>1. size[x] + 1 \in Nat /\ x \in Below(size[x] + 1)
    BY DEF Decreases
  <2>2. /\ part[size[x] + 1][x] \in V
        /\ part[size[x] + 1][x] =
             IF x \in again THEN step[x][part[size[x] + 1][next[x]]] ELSE out[x]
    <3> DEFINE k == size[x] + 1
    <3>1. /\ part[k] \in [Below(k) -> V] /\ x \in Below(k)
          /\ part[k] = [y \in Below(k) |->
                          IF y \in again THEN step[y][part[k][next[y]]] ELSE out[y]]
      BY <2>1, <1>6 DEF Computes
    <3> HIDE DEF k, Below
    <3>2. /\ part[k][x] \in V
          /\ part[k][x] = IF x \in again THEN step[x][part[k][next[x]]] ELSE out[x]
      BY <3>1
    <3> QED BY <3>2 DEF k
  <2>3. ASSUME x \in again PROVE f[next[x]] = part[size[x] + 1][next[x]]
    <3>1. /\ next[x] \in S /\ size[next[x]] \in Nat
          /\ size[next[x]] + 1 \in Nat /\ size[next[x]] + 1 <= size[x] + 1
          /\ size[next[x]] < size[next[x]] + 1
      BY <2>3 DEF Decreases
    <3> HIDE DEF f
    <3>2. part[size[next[x]] + 1][next[x]] = part[size[x] + 1][next[x]]
      BY <3>1, <2>1, <1>7
    <3>3. f[next[x]] = part[size[next[x]] + 1][next[x]]
      BY <3>1 DEF f
    <3> QED BY <3>2, <3>3
  <2> HIDE DEF f
  <2>4. f[x] = part[size[x] + 1][x]
    BY DEF f
  <2> QED BY <2>2, <2>3, <2>4
<1>9. f = [x \in S |-> IF x \in again THEN step[x][f[next[x]]] ELSE out[x]]
  BY <1>8
<1>10. f \in [S -> V]
  BY <1>8
<1> HIDE DEF f
<1> QED BY <1>9, <1>10 DEF Computes

\* A loop is a recursion that hands on what it gets.
LEMMA LoopEnds ==
  ASSUME NEW S, NEW again, NEW next, NEW out, NEW size, Decreases(S, again, next, size)
  PROVE  \E f : IsLoop(f, S, again, next, out)
<1> DEFINE V == { out[x] : x \in S }
           step == [x \in S |-> [v \in V |-> v]]
<1>1. \A x \in S : IF x \in again THEN \A v \in V : step[x][v] \in V ELSE out[x] \in V
  OBVIOUS
<1>2. PICK f \in [S -> V] : Computes(f, S, again, next, step, out)
  <2> HIDE DEF V, step
  <2> QED BY <1>1, RecursionEnds
<1>3. \A x \in again : x \in S /\ next[x] \in S
  BY DEF Decreases
<1>4. \A x \in again : step[x][f[next[x]]] = f[next[x]]
  BY <1>3
<1> HIDE DEF V, step
<1> QED BY <1>2, <1>3, <1>4, ZenonT(60) DEF Computes, IsLoop

\* In each state that the loop reaches from one of `good' it is in one of them, and
\* it ends with one of `results'.
Keeps(good, results, S, again, next, out) ==
  /\ good \subseteq S
  /\ \A x \in good : IF x \in again THEN next[x] \in good ELSE out[x] \in results

LEMMA LoopKeeps ==
  ASSUME NEW S, NEW again, NEW next, NEW out, NEW size, Decreases(S, again, next, size),
         NEW f, IsLoop(f, S, again, next, out),
         NEW good, NEW results, Keeps(good, results, S, again, next, out)
  PROVE  \A x \in good : f[x] \in results
<1> DEFINE Bad == { size[x] : x \in { y \in good : f[y] \notin results } }
<1> SUFFICES ASSUME Bad # {} PROVE FALSE
  OBVIOUS
<1>1. Bad \subseteq Nat
  BY DEF Decreases, Keeps
<1>2. PICK m \in Bad : \A k \in Bad : m <= k
  BY <1>1, LeastElement
<1>3. PICK x \in good : f[x] \notin results /\ size[x] = m
  BY <1>2
<1>4. f[x] = IF x \in again THEN f[next[x]] ELSE out[x]
  BY DEF IsLoop, Keeps
<1>5. x \in again /\ f[next[x]] \notin results /\ next[x] \in good
  BY <1>3, <1>4 DEF Keeps
<1>6. size[next[x]] \in Bad /\ size[next[x]] < m
  BY <1>3, <1>5 DEF Decreases, Keeps
<1> HIDE DEF Bad
<1>7. m \in Nat /\ size[next[x]] \in Nat /\ m <= size[next[x]]
  BY <1>1, <1>2, <1>6
<1> QED BY <1>6, <1>7
\* What 0 has, and each of the next numbers up to n if the one before has it, all
\* of them have.
LEMMA UpTo ==
  ASSUME NEW n \in Nat, NEW S, 0 \in S, \A i \in 1 .. n : i - 1 \in S => i \in S
  PROVE  0 .. n \subseteq S
<1> DEFINE T == { i \in Nat : i <= n => i \in S }
<1>1. 0 \in T
  OBVIOUS
<1>2. ASSUME NEW i \in Nat, i \in T PROVE i + 1 \in T
  <2> SUFFICES ASSUME i + 1 <= n PROVE i + 1 \in S
    OBVIOUS
  <2>1. i \in S /\ i + 1 \in 1 .. n /\ (i + 1) - 1 = i
    BY <1>2
  <2> QED BY <2>1
<1> HIDE DEF T
<1>3. Nat \subseteq T
  BY <1>1, <1>2, SetInduction
<1> QED BY <1>3 DEF T

\* A loop that counts up to n, from `base' on: with each turn `act' makes the next
\* result of the last one.
Counts(f, n, base, act) == f = [i \in 0 .. n |-> IF i = 0 THEN base ELSE act[i][f[i - 1]]]

LEMMA CountingUp ==
  ASSUME NEW n \in Nat, NEW V, NEW base \in V, NEW act,
         \A i \in 1 .. n : \A v \in V : act[i][v] \in V
  PROVE  \E f \in [0 .. n -> V] : Counts(f, n, base, act)
<1> DEFINE S     == 0 .. n
           again == 1 .. n
           prev  == [i \in 0 .. n |-> i - 1]
           out   == [i \in 0 .. n |-> base]
           size  == [i \in 0 .. n |-> i]
<1>1. Decreases(S, again, prev, size)
  BY DEF Decreases
<1>2. \A i \in S : IF i \in again THEN \A v \in V : act[i][v] \in V ELSE out[i] \in V
  OBVIOUS
<1>3. \A i \in S : (i \in again <=> i # 0) /\ out[i] = base /\ prev[i] = i - 1
  OBVIOUS
<1> HIDE DEF again, prev, out, size
<1>4. PICK f \in [S -> V] : Computes(f, S, again, prev, act, out)
  BY <1>1, <1>2, RecursionEnds
<1>5. f = [i \in S |-> IF i = 0 THEN base ELSE act[i][f[i - 1]]]
  BY <1>3, <1>4 DEF Computes
<1> QED BY <1>4, <1>5 DEF Counts

-----------------------------------------------------------------------------
\* The array starts as a list of every ID.
LEMMA InitialListIntact ==
  /\ IsFreeList(InitialList)
  /\ Intact(InitialList, {})
PROOF
<1>. DEFINE chain == [i \in 1 .. InitialSize - 1 |-> i]
<1>1. IsFreeList(InitialList)
  BY SizesAssumption DEF IsFreeList, InitialList, Uint16
<1>2. chain \in [1 .. InitialSize - 1 -> IDs(InitialList)]
  BY SizesAssumption DEF IDs, InitialList
<1>3. IsFreeChain(chain, InitialList, {})
  <2>1. /\ DOMAIN chain = 1 .. InitialSize - 1
        /\ \A i \in 1 .. InitialSize - 1 : chain[i] = i
    OBVIOUS
  <2>2. /\ InitialList.next[0] = 1
        /\ \A i \in 1 .. InitialSize - 1 :
             InitialList.next[i] = IF i = InitialSize - 1 THEN 0 ELSE i + 1
        /\ IDs(InitialList) = 1 .. InitialSize - 1
    <3>1. \A i \in 0 .. InitialSize - 2 : Uint16(i + 1) = i + 1
      BY SizesAssumption DEF Uint16
    <3>2. \A i \in 0 .. InitialSize - 1 : InitialList.next[i] =
            IF i = InitialSize - 1 THEN 0 ELSE Uint16(i + 1)
      BY DEF InitialList
    <3>3. \A i \in 0 .. InitialSize - 1 : InitialList.next[i] =
            IF i = InitialSize - 1 THEN 0 ELSE i + 1
      BY SizesAssumption, <3>1, <3>2
    <3>4. InitialList.next[0] = 1
      BY SizesAssumption, <3>3
    <3>5. IDs(InitialList) = 1 .. InitialSize - 1
      BY DEF IDs, InitialList
    <3>. QED
      BY SizesAssumption, <3>3, <3>4, <3>5
  <2>3. 1 \in 1 .. InitialSize - 1
    BY SizesAssumption
  <2>. HIDE DEF chain
  <2>4. InitialList.next[0] = IF DOMAIN chain = {} THEN 0 ELSE chain[1]
    BY <2>1, <2>2, <2>3
  <2>5. \A i \in DOMAIN chain :
          InitialList.next[chain[i]] =
            IF i + 1 \in DOMAIN chain THEN chain[i + 1] ELSE 0
    BY SizesAssumption, <2>1, <2>2
  <2>. QED
    BY <2>1, <2>2, <2>4, <2>5 DEF IsFreeChain
<1>4. InitialSize - 1 \in 0 .. InitialList.size - 1
  BY SizesAssumption DEF InitialList
<1>. QED
  BY <1>1, <1>2, <1>3, <1>4 DEF Intact

\* allocThreadID with a free ID: the head of the chain is handed out.
LEMMA AllocFromList ==
  ASSUME NEW list, IsFreeList(list), NEW held, Intact(list, held),
         list.next[0] # 0
  PROVE  /\ AllocatedID(list) \in IDs(list) \ held
         /\ AfterAlloc(list).size = list.size
         /\ IsFreeList(AfterAlloc(list))
         /\ Intact(AfterAlloc(list), held \cup {AllocatedID(list)})
PROOF
<1>. DEFINE id    == list.next[0]
            after == [size |-> list.size,
                      next |-> [list.next EXCEPT ![0] = list.next[id]]]
<1>1. PICK n \in 0 .. list.size - 1 :
        \E chain \in [1 .. n -> IDs(list)] : IsFreeChain(chain, list, held)
  BY DEF Intact
<1>2. PICK chain \in [1 .. n -> IDs(list)] : IsFreeChain(chain, list, held)
  BY <1>1
<1>3. /\ list.size \in Nat /\ list.size >= 2 /\ n \in Nat
      /\ list.next \in [0 .. list.size - 1 -> 0 .. list.size - 1]
  BY SizesAssumption DEF IsFreeList
<1>4. n >= 1 /\ id = chain[1] /\ id \in IDs(list) /\ id \notin held
  BY <1>2, <1>3 DEF IsFreeChain, IDs
<1>5. AllocatedID(list) = id /\ AfterAlloc(list) = after
  BY DEF AllocatedID, AfterAlloc
<1>6. IsFreeList(after)
  BY <1>3, <1>4 DEF IsFreeList, IDs
<1>. DEFINE rest == [i \in 1 .. n - 1 |-> chain[i + 1]]
<1>7. rest \in [1 .. n - 1 -> IDs(after)] /\ n - 1 \in 0 .. after.size - 1
  BY <1>3, <1>4 DEF IDs
<1>8. IsFreeChain(rest, after, held \cup {id})
  <2>1. \A i, j \in DOMAIN rest : rest[i] = rest[j] => i = j
    BY <1>2, <1>3 DEF IsFreeChain
  <2>2. after.next[0] = IF DOMAIN rest = {} THEN 0 ELSE rest[1]
    <3>1. after.next[0] = list.next[chain[1]] /\ 1 \in DOMAIN chain
      BY <1>3, <1>4 DEF IDs
    <3>2. list.next[chain[1]] = IF 2 \in 1 .. n THEN chain[2] ELSE 0
      BY <1>2, <3>1 DEF IsFreeChain
    <3>3. CASE n = 1
      <4>1. DOMAIN rest = {}
        BY <3>3
      <4>. QED
        BY <3>1, <3>2, <3>3, <4>1
    <3>4. CASE n # 1
      <4>1. 1 \in DOMAIN rest /\ 2 \in 1 .. n /\ rest[1] = chain[2]
        BY <1>3, <1>4, <3>4
      <4>. QED
        BY <3>1, <3>2, <4>1
    <3>. QED
      BY <3>3, <3>4
  <2>3. \A i \in DOMAIN rest :
          after.next[rest[i]] = IF i + 1 \in DOMAIN rest THEN rest[i + 1] ELSE 0
    <3>. SUFFICES ASSUME NEW i \in 1 .. n - 1
                  PROVE  after.next[chain[i + 1]] =
                           IF i + 1 \in 1 .. n - 1 THEN chain[i + 2] ELSE 0
      BY <1>3
    <3>1. i + 1 \in 1 .. n /\ (i + 1) + 1 = i + 2
      BY <1>3
    <3>2. list.next[chain[i + 1]] = IF i + 2 \in 1 .. n THEN chain[i + 2] ELSE 0
      BY <1>2, <3>1 DEF IsFreeChain
    <3>3. after.next[chain[i + 1]] = list.next[chain[i + 1]]
      BY <1>3, <3>1 DEF IDs
    <3>. QED
      BY <1>3, <3>2, <3>3
  <2>4. \A x \in IDs(after) :
          (\E i \in DOMAIN rest : rest[i] = x) <=> x \notin held \cup {id}
    <3>. SUFFICES ASSUME NEW x \in IDs(list)
                  PROVE (\E i \in 1 .. n - 1 : chain[i + 1] = x)
                           <=> x \notin held \cup {id}
      BY DEF IDs
    <3>1. (\E i \in 1 .. n : chain[i] = x) <=> x \notin held
      BY <1>2 DEF IsFreeChain
    <3>2. ASSUME x \notin held, x # id
          PROVE  \E i \in 1 .. n - 1 : chain[i + 1] = x
      <4>1. PICK i \in 1 .. n : chain[i] = x
        BY <3>1, <3>2
      <4>2. i - 1 \in 1 .. n - 1 /\ chain[(i - 1) + 1] = x
        BY <1>3, <1>4, <3>2, <4>1
      <4>. QED
        BY <4>2
    <3>3. ASSUME NEW i \in 1 .. n - 1, chain[i + 1] = x
          PROVE  x \notin held /\ x # id
      <4>1. i + 1 \in 1 .. n /\ 1 \in 1 .. n /\ i + 1 # 1
        BY <1>3, <1>4
      <4>. QED
        BY <1>2, <1>4, <3>1, <3>3, <4>1 DEF IsFreeChain
    <3>. QED
      BY <3>2, <3>3
  <2>. QED
    BY <2>1, <2>2, <2>3, <2>4 DEF IsFreeChain
<1>9. Intact(after, held \cup {id})
  BY <1>7, <1>8 DEF Intact
<1>. QED
  BY <1>4, <1>5, <1>6, <1>9

\* Slot 0 holds 0 only when every ID is in use.
LEMMA FullWhenEmpty ==
  ASSUME NEW list, IsFreeList(list), NEW held, Intact(list, held),
         list.next[0] = 0
  PROVE  IDs(list) \subseteq held
PROOF
<1>. DEFINE size == list.size
<1>1. size \in Nat /\ size >= 2
  BY SizesAssumption DEF IsFreeList
<1>2. PICK n \in 0 .. size - 1 :
        \E c \in [1 .. n -> IDs(list)] : IsFreeChain(c, list, held)
  BY DEF Intact
<1>3. PICK c \in [1 .. n -> IDs(list)] : IsFreeChain(c, list, held)
  BY <1>2
<1>4. ~(n >= 1)
  <2>. SUFFICES ASSUME n >= 1 PROVE FALSE
    OBVIOUS
  <2>1. 1 \in DOMAIN c /\ c[1] \in IDs(list)
    BY <1>1
  <2>2. list.next[0] = c[1]
    BY <1>3, <2>1 DEF IsFreeChain
  <2>. QED
    BY <1>1, <2>1, <2>2 DEF IDs
<1>5. DOMAIN c = {}
  BY <1>1, <1>4
<1>6. \A id \in IDs(list) : id \in held
  BY <1>3, <1>5 DEF IsFreeChain
<1>. QED
  BY <1>6

\* allocThreadID without a free ID: the array doubles, the old length is handed
\* out, and the rest of the new half is the chain.
LEMMA AllocGrows ==
  ASSUME NEW list, IsFreeList(list), NEW held, Intact(list, held),
         list.next[0] = 0, CanGrow(list), held \subseteq IDs(list)
  PROVE  /\ AllocatedID(list) = list.size
         /\ AfterAlloc(list).size = 2 * list.size
         /\ IDs(list) \subseteq held
         /\ IsFreeList(AfterAlloc(list))
         /\ Intact(AfterAlloc(list), held \cup {AllocatedID(list)})
PROOF
<1>. DEFINE size  == list.size
            after == AfterAlloc(list)
            chain == [i \in 1 .. size - 1 |-> size + i]
<1>1. /\ size \in Nat /\ size >= 2 /\ 2 * size <= MaxSize /\ MaxSize <= 65536
      /\ MaxSize \in Nat /\ InitialSize \in Nat /\ InitialSize <= size
      /\ list.next \in [0 .. size - 1 -> 0 .. size - 1]
  BY SizesAssumption DEF IsFreeList, CanGrow
<1>2. IDs(list) = held
  BY FullWhenEmpty
<1>3. AllocatedID(list) = size /\ after = Grown(list)
  BY DEF AllocatedID, AfterAlloc
<1>4. \A i \in 0 .. 2 * size - 2 : Uint16(i + 1) = i + 1
  BY <1>1 DEF Uint16
<1>5. /\ after.size = 2 * size
      /\ DOMAIN after.next = 0 .. 2 * size - 1
      /\ IDs(after) = 1 .. 2 * size - 1
  BY <1>3 DEF Grown, IDs
<1>6. \A i \in 0 .. 2 * size - 1 :
        after.next[i] = IF i = 0 THEN Uint16(size + 1)
                        ELSE IF i < size THEN list.next[i]
                        ELSE IF i < 2 * size - 1 THEN Uint16(i + 1) ELSE 0
  BY <1>3 DEF Grown
<1>7. /\ after.next[0] = size + 1
      /\ \A i \in 1 .. size - 1 : after.next[i] = list.next[i]
      /\ \A i \in size .. 2 * size - 2 : after.next[i] = i + 1
      /\ after.next[2 * size - 1] = 0
  <2>1. after.next[0] = size + 1
    BY <1>1, <1>4, <1>6
  <2>2. \A i \in 1 .. size - 1 : after.next[i] = list.next[i]
    BY <1>1, <1>6, SMTT(60)
  <2>3. \A i \in size .. 2 * size - 2 : after.next[i] = i + 1
    <3>. SUFFICES ASSUME NEW i \in size .. 2 * size - 2 PROVE after.next[i] = i + 1
      OBVIOUS
    <3>1. /\ i \in 0 .. 2 * size - 1 /\ i \in 0 .. 2 * size - 2
          /\ i # 0 /\ ~(i < size) /\ i < 2 * size - 1
      BY <1>1
    <3>. QED
      BY <1>4, <1>6, <3>1
  <2>4. after.next[2 * size - 1] = 0
    <3>1. /\ 2 * size - 1 \in 0 .. 2 * size - 1
          /\ 2 * size - 1 # 0 /\ ~(2 * size - 1 < size)
      BY <1>1
    <3>. QED
      BY <1>1, <1>6, <3>1
  <2>. QED
    BY <2>1, <2>2, <2>3, <2>4
<1>. HIDE DEF after
<1>8. IsFreeList(after)
  <2>1. after = [size |-> after.size, next |-> after.next]
    BY <1>3 DEF Grown
  <2>2. \A i \in 0 .. 2 * size - 1 : after.next[i] \in 0 .. 2 * size - 1
    <3>. SUFFICES ASSUME NEW i \in 0 .. 2 * size - 1
                  PROVE  after.next[i] \in 0 .. 2 * size - 1
      OBVIOUS
    <3>1. i = 0 \/ i \in 1 .. size - 1 \/ i \in size .. 2 * size - 2 \/ i = 2 * size - 1
      BY <1>1, SMTT(60)
    <3>2. \A j \in 1 .. size - 1 : list.next[j] \in 0 .. 2 * size - 1
      BY <1>1, SMTT(60)
    <3>. QED
      <4>1. CASE i = 0
        BY <1>1, <1>7, <4>1
      <4>2. CASE i \in 1 .. size - 1
        BY <1>7, <3>2, <4>2
      <4>3. CASE i \in size .. 2 * size - 2
        BY <1>1, <1>7, <4>3
      <4>4. CASE i = 2 * size - 1
        BY <1>1, <1>7, <4>4
      <4>. QED
        BY <3>1, <4>1, <4>2, <4>3, <4>4
  <2>3. after.next = [i \in 0 .. 2 * size - 1 |-> after.next[i]]
    BY <1>3 DEF Grown
  <2>4. after.next \in [0 .. 2 * size - 1 -> 0 .. 2 * size - 1]
    BY <2>2, <2>3
  <2>. QED
    BY <1>1, <1>5, <2>1, <2>4 DEF IsFreeList
<1>9. chain \in [1 .. size - 1 -> IDs(after)] /\ size - 1 \in 0 .. after.size - 1
  BY <1>1, <1>5
<1>10. IsFreeChain(chain, after, held \cup {size})
  <2>1. DOMAIN chain = 1 .. size - 1 /\ \A i \in 1 .. size - 1 : chain[i] = size + i
    OBVIOUS
  <2>. HIDE DEF chain
  <2>2. after.next[0] = IF DOMAIN chain = {} THEN 0 ELSE chain[1]
    BY <1>1, <1>7, <2>1
  <2>3. \A i \in DOMAIN chain :
          after.next[chain[i]] = IF i + 1 \in DOMAIN chain THEN chain[i + 1] ELSE 0
    <3>. SUFFICES ASSUME NEW i \in 1 .. size - 1
                  PROVE  after.next[size + i] =
                           IF i + 1 \in 1 .. size - 1 THEN size + (i + 1) ELSE 0
      <4>1. \A i \in 1 .. size - 1 :
              i + 1 \in 1 .. size - 1 => chain[i + 1] = size + (i + 1)
        BY <2>1
      <4>. QED
        BY <2>1, <4>1
    <3>1. CASE i = size - 1
      <4>1. size + i = 2 * size - 1 /\ i + 1 \notin 1 .. size - 1
        BY <1>1, <3>1
      <4>. QED
        BY <1>7, <4>1
    <3>2. CASE i # size - 1
      <4>1. size + i \in size .. 2 * size - 2 /\ i + 1 \in 1 .. size - 1
        BY <1>1, <3>2
      <4>2. after.next[size + i] = (size + i) + 1
        BY <1>7, <4>1
      <4>3. \A a, b \in Nat : (a + b) + 1 = a + (b + 1)
        OBVIOUS
      <4>4. size \in Nat /\ i \in Nat
        BY <1>1
      <4>. QED
        BY <4>1, <4>2, <4>3, <4>4
    <3>. QED
      BY <3>1, <3>2
  <2>4. \A id \in IDs(after) :
          (\E i \in DOMAIN chain : chain[i] = id) <=> id \notin held \cup {size}
    <3>. SUFFICES ASSUME NEW id \in 1 .. 2 * size - 1
                  PROVE  (\E i \in DOMAIN chain : chain[i] = id)
                            <=> id \notin held \cup {size}
      BY <1>5
    <3>1. id \notin held \cup {size} <=> id > size
      BY <1>1, <1>2 DEF IDs
    <3>2. ASSUME id > size PROVE \E i \in DOMAIN chain : chain[i] = id
      <4>1. id - size \in 1 .. size - 1 /\ size + (id - size) = id
        BY <1>1, <3>2
      <4>. QED
        BY <2>1, <4>1
    <3>3. ASSUME NEW i \in DOMAIN chain, chain[i] = id PROVE id > size
      BY <1>1, <2>1, <3>3
    <3>. QED
      BY <3>1, <3>2, <3>3
  <2>5. \A i, j \in DOMAIN chain : chain[i] = chain[j] => i = j
    BY <1>1, <2>1
  <2>. QED
    BY <2>2, <2>3, <2>4, <2>5 DEF IsFreeChain
<1>11. Intact(after, held \cup {size})
  BY <1>9, <1>10 DEF Intact
<1>. QED
  <2>1. after = AfterAlloc(list)
    BY DEF after
  <2>. QED
    BY <1>2, <1>3, <1>5, <1>8, <1>11, <2>1

\* freeThreadID of an ID in use: it becomes the head of the chain.  That the
\* longer chain still fits the array is the pigeonhole principle.
LEMMA FreeToList ==
  ASSUME NEW list, IsFreeList(list), NEW held, Intact(list, held),
         NEW id \in held, id \in IDs(list)
  PROVE  /\ AfterFree(list, id).size = list.size
         /\ IsFreeList(AfterFree(list, id))
         /\ Intact(AfterFree(list, id), held \ {id})
PROOF
<1>. DEFINE after == [size |-> list.size,
                      next |-> [list.next EXCEPT ![id] = list.next[0], ![0] = id]]
<1>1. PICK n \in 0 .. list.size - 1 :
        \E chain \in [1 .. n -> IDs(list)] : IsFreeChain(chain, list, held)
  BY DEF Intact
<1>2. PICK chain \in [1 .. n -> IDs(list)] : IsFreeChain(chain, list, held)
  BY <1>1
<1>3. /\ list.size \in Nat /\ list.size >= 2 /\ n \in Nat
      /\ list.next \in [0 .. list.size - 1 -> 0 .. list.size - 1]
      /\ id \in 1 .. list.size - 1
  BY SizesAssumption DEF IsFreeList, IDs
<1>4. AfterFree(list, id) = after
  BY DEF AfterFree
<1>5. IsFreeList(after)
  <2>1. after.next \in [0 .. list.size - 1 -> 0 .. list.size - 1]
    <3>1. 0 \in 0 .. list.size - 1 /\ id \in 0 .. list.size - 1
      BY <1>3
    <3>2. list.next[0] \in 0 .. list.size - 1
      BY <1>3, <3>1
    <3>. QED
      BY <1>3, <3>1, <3>2
  <2>. QED
    BY <2>1 DEF IsFreeList
<1>6. \A i \in 1 .. n : chain[i] # id /\ chain[i] \in 1 .. list.size - 1
  BY <1>2, <1>3 DEF IsFreeChain, IDs
<1>. DEFINE longer == [i \in 1 .. n + 1 |-> IF i = 1 THEN id ELSE chain[i - 1]]
<1>7. longer \in [1 .. n + 1 -> IDs(after)]
  BY <1>3, <1>6 DEF IDs
<1>8. \A i, j \in 1 .. n + 1 : longer[i] = longer[j] => i = j
  <2>. SUFFICES ASSUME NEW i \in 1 .. n + 1, NEW j \in 1 .. n + 1,
                       longer[i] = longer[j]
                PROVE  i = j
    OBVIOUS
  <2>1. CASE i = 1 \/ j = 1
    BY <1>3, <1>6, <2>1
  <2>2. CASE i # 1 /\ j # 1
    <3>1. i - 1 \in 1 .. n /\ j - 1 \in 1 .. n /\ chain[i - 1] = chain[j - 1]
      BY <1>3, <2>2
    <3>2. i - 1 = j - 1
      BY <1>2, <3>1 DEF IsFreeChain
    <3>. QED
      BY <1>3, <3>2
  <2>. QED
    BY <2>1, <2>2
<1>9. n + 1 \in 0 .. after.size - 1
  <2>1. longer \in Injection(1 .. n + 1, 1 .. list.size - 1)
    BY <1>7, <1>8 DEF Injection, IsInjective, IDs
  <2>2. Cardinality(1 .. n + 1) <= Cardinality(1 .. list.size - 1)
    <3>1. IsFiniteSet(1 .. list.size - 1)
      BY <1>3, FS_Interval
    <3>. QED
      BY <2>1, <3>1, FS_Injection
  <2>3. Cardinality(1 .. n + 1) = n + 1
    BY <1>3, FS_Interval
  <2>4. Cardinality(1 .. list.size - 1) = list.size - 1
    BY <1>3, FS_Interval
  <2>. QED
    BY <1>3, <2>2, <2>3, <2>4
<1>10. IsFreeChain(longer, after, held \ {id})
  <2>1. after.next[0] = IF DOMAIN longer = {} THEN 0 ELSE longer[1]
    <3>1. 1 \in DOMAIN longer /\ longer[1] = id
      BY <1>3
    <3>2. after.next[0] = id
      BY <1>3
    <3>. QED
      BY <3>1, <3>2
  <2>2. \A i \in DOMAIN longer :
          after.next[longer[i]] = IF i + 1 \in DOMAIN longer THEN longer[i + 1] ELSE 0
    <3>. SUFFICES ASSUME NEW i \in 1 .. n + 1
                  PROVE  after.next[longer[i]] =
                           IF i + 1 \in 1 .. n + 1 THEN chain[i] ELSE 0
      <4>1. \A i \in 1 .. n + 1 :
              i + 1 \in 1 .. n + 1 => longer[i + 1] = chain[i]
        BY <1>3
      <4>. QED
        BY <4>1
    <3>1. CASE i = 1
      <4>1. after.next[longer[i]] = list.next[0]
        BY <1>3, <3>1
      <4>2. list.next[0] = IF 1 .. n = {} THEN 0 ELSE chain[1]
        BY <1>2 DEF IsFreeChain
      <4>3. 1 .. n = {} <=> ~(2 \in 1 .. n + 1)
        BY <1>3
      <4>. QED
        BY <3>1, <4>1, <4>2, <4>3
    <3>2. CASE i # 1
      <4>1. i - 1 \in 1 .. n /\ longer[i] = chain[i - 1] /\ (i - 1) + 1 = i
        BY <1>3, <3>2
      <4>2. list.next[chain[i - 1]] = IF i \in 1 .. n THEN chain[i] ELSE 0
        BY <1>2, <4>1 DEF IsFreeChain
      <4>3. after.next[chain[i - 1]] = list.next[chain[i - 1]]
        BY <1>3, <1>6, <4>1
      <4>. QED
        BY <1>3, <4>1, <4>2, <4>3
    <3>. QED
      BY <3>1, <3>2
  <2>3. \A x \in IDs(after) :
          (\E i \in DOMAIN longer : longer[i] = x) <=> x \notin held \ {id}
    <3>. SUFFICES ASSUME NEW x \in IDs(list)
                  PROVE  (\E i \in 1 .. n + 1 : longer[i] = x)
                            <=> x \notin held \ {id}
      BY DEF IDs
    <3>1. (\E i \in 1 .. n : chain[i] = x) <=> x \notin held
      BY <1>2 DEF IsFreeChain
    <3>2. ASSUME x \notin held \ {id} PROVE \E i \in 1 .. n + 1 : longer[i] = x
      <4>1. CASE x = id
        BY <1>3, <4>1
      <4>2. CASE x # id
        <5>1. PICK i \in 1 .. n : chain[i] = x
          BY <3>1, <3>2, <4>2
        <5>2. i + 1 \in 1 .. n + 1 /\ longer[i + 1] = x
          BY <1>3, <5>1
        <5>. QED
          BY <5>2
      <4>. QED
        BY <4>1, <4>2
    <3>3. ASSUME NEW i \in 1 .. n + 1, longer[i] = x PROVE x \notin held \ {id}
      <4>1. CASE i = 1
        BY <3>3, <4>1
      <4>2. CASE i # 1
        <5>1. i - 1 \in 1 .. n /\ chain[i - 1] = x
          BY <1>3, <3>3, <4>2
        <5>. QED
          BY <3>1, <5>1
      <4>. QED
        BY <4>1, <4>2
    <3>. QED
      BY <3>2, <3>3
  <2>. QED
    BY <1>8, <2>1, <2>2, <2>3 DEF IsFreeChain
<1>11. Intact(after, held \ {id})
  BY <1>7, <1>9, <1>10 DEF Intact
<1>. QED
  BY <1>4, <1>5, <1>11

\* Whether the array grows or not, allocThreadID returns an ID that nobody holds.
LEMMA AllocTakesFree ==
  ASSUME NEW list, IsFreeList(list), NEW held, Intact(list, held),
         held \subseteq IDs(list), CanAlloc(list)
  PROVE  /\ IsFreeList(AfterAlloc(list))
         /\ Intact(AfterAlloc(list), held \cup {AllocatedID(list)})
         /\ AllocatedID(list) \in IDs(AfterAlloc(list)) /\ AllocatedID(list) \notin held
         /\ IDs(list) \subseteq IDs(AfterAlloc(list))
<1>1. list.size \in Nat /\ list.size >= 2
  BY SizesAssumption DEF IsFreeList
<1>2. CASE list.next[0] # 0
  BY <1>2, AllocFromList DEF IDs
<1>3. CASE list.next[0] = 0
  <2>1. CanGrow(list)
    BY <1>3 DEF CanAlloc
  <2>2. /\ AllocatedID(list) = list.size /\ AfterAlloc(list).size = 2 * list.size
        /\ IsFreeList(AfterAlloc(list))
        /\ Intact(AfterAlloc(list), held \cup {AllocatedID(list)})
    BY <1>3, <2>1, AllocGrows
  <2>. QED
    BY <1>1, <2>2 DEF IDs
<1>. QED
  BY <1>2, <1>3
=============================================================================
