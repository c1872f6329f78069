--------------------------- MODULE CallbackProofs ---------------------------
(***************************************************************************)
(* Callbacks of updates: what a render collects of them, until when it is  *)
(* kept, and that they are called once, when their updates are shown.      *)
(* With that, every variable of WorkLoop has its type.                     *)
(* Then the levels: how an update that is still to be applied is marked    *)
(* from its component up to the root, and remains so.                      *)
(***************************************************************************)
EXTENDS WorkLoopProofs

\* The node and its ancestors.
Above ==
  LET above[n \in Node] == IF n = Root THEN {n} ELSE {n} \cup above[Parent[n]]
  IN  above

\* What a render that has got to a node has not completed: the node, what is below or
\* after it, and its ancestors.
Unfinished(n) ==
  { m \in Node : m \in Above[n] \/ \E k \in Above[m] : k = n \/ k \in After[n] }

\* Above, which is defined by recursion, is what it says.
LEMMA AboveNodes ==
  /\ Above[Root] = {Root}
  /\ \A n \in Children : Above[n] = {n} \cup Above[Parent[n]]
  /\ \A n \in Node : n \in Above[n] /\ Above[n] \subseteq Node
<1> DEFINE V == SUBSET Node
           step == [n \in Node |-> [v \in V |-> {n} \cup v]]
           out  == [n \in Node |-> {n}]
           Eq(above) == above = [n \in Node |-> IF n = Root THEN {n}
                                                ELSE {n} \cup above[Parent[n]]]
<1>1. \A n \in Node : IF n \in Children THEN \A v \in V : step[n][v] \in V ELSE out[n] \in V
  BY DEF Children
<1>2. PICK above \in [Node -> V] : Computes(above, Node, Children, Parent, step, out)
  <2>1. Children \subseteq Children
    OBVIOUS
  <2> HIDE DEF step, out, Eq, V
  <2> QED BY <1>1, <2>1, AlongParents
<1>3. \A n \in Children : step[n][above[Parent[n]]] = {n} \cup above[Parent[n]]
  BY TreeParent
<1>4. Eq(above)
  BY <1>2, <1>3 DEF Children, Computes
<1> HIDE DEF step, out, V
<1>5. Above = CHOOSE s : Eq(s)
  BY DEF Above
<1>6. Eq(Above)
  <2> HIDE DEF Eq
  <2> QED BY <1>4, <1>5
<1>7. Above = [n \in Node |-> IF n = Root THEN {n} ELSE {n} \cup Above[Parent[n]]]
  BY <1>6
<1>8. Above[Root] = {Root}
  BY <1>7, TreeAssumption
<1>9. \A n \in Children : Above[n] = {n} \cup Above[Parent[n]]
  BY <1>7, TreeParent DEF Children
<1> DEFINE G == { n \in Node : Above[n] \subseteq Node }
<1>10. Node \subseteq G
  <2>1. Root \in G
    BY <1>8, TreeAssumption
  <2>2. \A n \in Children : Parent[n] \in G => n \in G
    BY <1>9, TreeParent
  <2> HIDE DEF G
  <2> QED BY <2>1, <2>2, TreeInduction
<1>11. \A n \in Node : n \in Above[n]
  BY <1>8, <1>9 DEF Children
<1> QED BY <1>8, <1>9, <1>10, <1>11

\* The ancestors of an ancestor are ancestors, and no node is above its parent.
LEMMA AboveAbove ==
  /\ \A n \in Node : \A m \in Above[n] : Above[m] \subseteq Above[n]
  /\ \A n \in Children : n \notin Above[Parent[n]] /\ Above[Parent[n]] \subseteq Above[n]
<1> DEFINE G == { n \in Node : \A m \in Above[n] : Above[m] \subseteq Above[n] }
<1>1. Node \subseteq G
  <2>1. Root \in G
    BY AboveNodes, TreeAssumption
  <2>2. ASSUME NEW n \in Children, Parent[n] \in G PROVE n \in G
    <3>1. n \in Node /\ Above[n] = {n} \cup Above[Parent[n]]
      BY AboveNodes, TreeParent
    <3> QED BY <2>2, <3>1
  <2> HIDE DEF G
  <2> QED BY <2>1, <2>2, TreeInduction
<1>2. PICK depth \in [Node -> Nat] : \A n \in Children : depth[n] = depth[Parent[n]] + 1
  BY TreeDepth
<1> DEFINE D == { n \in Node : \A m \in Above[n] : depth[m] <= depth[n] }
<1>3. Node \subseteq D
  <2>1. Root \in D
    BY <1>2, AboveNodes, TreeAssumption
  <2>2. ASSUME NEW n \in Children, Parent[n] \in D PROVE n \in D
    <3>1. /\ n \in Node /\ Above[n] = {n} \cup Above[Parent[n]] /\ Above[n] \subseteq Node
          /\ Parent[n] \in Node /\ depth[n] = depth[Parent[n]] + 1
      BY <1>2, AboveNodes, TreeParent
    <3>2. ASSUME NEW m \in Above[n] PROVE depth[m] <= depth[n]
      <4>1. depth[m] \in Nat /\ depth[n] \in Nat /\ depth[Parent[n]] \in Nat
        BY <1>2, <3>1
      <4>2. m # n => depth[m] <= depth[Parent[n]]
        BY <2>2, <3>1
      <4> QED BY <3>1, <4>1, <4>2
    <3> QED BY <3>1, <3>2
  <2> HIDE DEF D
  <2> QED BY <2>1, <2>2, TreeInduction
<1>4. ASSUME NEW n \in Children PROVE n \notin Above[Parent[n]] /\ Above[Parent[n]] \subseteq Above[n]
  <2>1. /\ Parent[n] \in Node /\ n \in Node /\ depth[n] = depth[Parent[n]] + 1
        /\ depth[n] \in Nat /\ depth[Parent[n]] \in Nat
    BY <1>2, TreeParent
  <2>2. \A m \in Above[Parent[n]] : depth[m] <= depth[Parent[n]]
    BY <1>3, <2>1
  <2>3. Above[Parent[n]] \subseteq Above[n]
    BY AboveNodes
  <2> QED BY <2>1, <2>2, <2>3
<1> QED BY <1>1, <1>4

\* What a render gets to later is not above the node that it is at.
LEMMA AboveOrAfter == \A n \in Node : Above[n] \cap After[n] = {}
<1> DEFINE G == { n \in Node : Above[n] \cap After[n] = {} }
<1>1. Node \subseteq G
  <2>1. Root \in G
    BY AfterNodes, TreeAssumption
  <2>2. ASSUME NEW n \in Children, Parent[n] \in G PROVE n \in G
    <3>1. /\ n \in Node /\ Parent[n] \in Node /\ Above[n] = {n} \cup Above[Parent[n]]
          /\ After[n] = Later(n) \cup After[Parent[n]] /\ n \notin After[n]
      BY AboveNodes, AfterNodes, NotAfterItself, TreeParent
    <3>2. \A m \in Later(n) : m \in Children /\ Parent[m] = Parent[n]
      BY <3>1, LaterSiblings, TreeKids
    <3>3. \A m \in Later(n) : m \notin Above[Parent[n]]
      BY <3>2, AboveAbove
    <3> QED BY <2>2, <3>1, <3>3
  <2> HIDE DEF G
  <2> QED BY <2>1, <2>2, TreeInduction
<1> QED BY <1>1

\* completeUnitOfWork goes up, from the node to the last that it completes, once each.
LEMMA CompletingUp ==
  ASSUME NEW n \in Node
  PROVE  /\ IsInjective(Completing[n]) /\ Last(Completing[n]) \in Above[n]
         /\ \A d \in Range(Completing[n]) : d \in Above[n] /\ Last(Completing[n]) \in Above[d]
<1> DEFINE Up(m) == LET done == Completing[m]
                    IN  /\ IsInjective(done) /\ Last(done) \in Above[m]
                        /\ \A d \in Range(done) : d \in Above[m] /\ Last(done) \in Above[d]
           G == { m \in Node : Up(m) }
<1>1. ASSUME NEW m \in Node, Completing[m] = <<m>> PROVE m \in G
  <2> DEFINE done == Completing[m]
  <2>1. Last(done) = m /\ IsInjective(done) /\ Range(done) = {m}
    BY <1>1 DEF Last, IsInjective, Range
  <2> HIDE DEF done
  <2>2. Up(m)
    BY <2>1, AboveNodes DEF done
  <2> QED BY <2>2
<1>2. Node \subseteq G
  <2>1. Root \in G
    BY <1>1, CompletingNodes, TreeAssumption
  <2>2. ASSUME NEW m \in Children, Parent[m] \in G PROVE m \in G
    <3>1. m \in Node /\ m # Root /\ Parent[m] \in Node
      BY TreeParent
    <3>2. CASE ~IsLastChild(m)
      BY <1>1, <3>1, <3>2, CompletingNodes
    <3>3. CASE IsLastChild(m)
      <4> DEFINE s == Completing[Parent[m]]
                 t == Completing[m]
      <4>1. t = <<m>> \o s /\ s \in Seq(Node) /\ s # <<>>
        BY <3>1, <3>3, CompletingNodes
      <4>2. /\ IsInjective(s) /\ Last(s) \in Above[Parent[m]]
            /\ \A d \in Range(s) : d \in Above[Parent[m]] /\ Last(s) \in Above[d]
        BY <2>2
      <4>3. m \in Above[m] /\ m \notin Above[Parent[m]] /\ Above[Parent[m]] \subseteq Above[m]
        BY <3>1, AboveNodes, AboveAbove
      <4> HIDE DEF s, t, G, Up
      <4>4. /\ Len(s) \in Nat /\ Len(s) >= 1 /\ DOMAIN s = 1 .. Len(s) /\ DOMAIN t = 1 .. Len(s) + 1
            /\ t[1] = m /\ \A i \in 1 .. Len(s) : t[i + 1] = s[i]
            /\ Len(t) = Len(s) + 1
        BY <4>1
      <4>5. Last(t) = Last(s)
        BY <4>4 DEF Last
      <4>6. \A i \in DOMAIN t : i # 1 => i - 1 \in 1 .. Len(s) /\ t[i] = s[i - 1]
        BY <4>4
      <4>7. \A i \in 1 .. Len(s) : s[i] \in Range(s) /\ s[i] # m
        BY <4>2, <4>3, <4>4 DEF Range
      <4>8. IsInjective(t)
        <5> SUFFICES ASSUME NEW i \in DOMAIN t, NEW j \in DOMAIN t, t[i] = t[j] PROVE i = j
          BY DEF IsInjective
        <5>1. i = 1 <=> j = 1
          BY <4>4, <4>6, <4>7
        <5>2. CASE i # 1
          <6>1. /\ i - 1 \in DOMAIN s /\ j - 1 \in DOMAIN s /\ s[i - 1] = s[j - 1]
            BY <4>4, <4>6, <5>1, <5>2
          <6>2. i - 1 = j - 1
            BY <4>2, <6>1 DEF IsInjective
          <6> QED BY <4>4, <6>2
        <5> QED BY <5>1, <5>2
      <4>9. Range(t) = {m} \cup Range(s)
        <5>1. ASSUME NEW i \in DOMAIN t PROVE t[i] \in {m} \cup Range(s)
          <6>1. CASE i = 1
            BY <4>4, <6>1
          <6>2. CASE i # 1
            BY <4>6, <4>7, <6>2
          <6> QED BY <6>1, <6>2
        <5>2. m \in Range(t)
          BY <4>4 DEF Range
        <5>3. Range(s) \subseteq Range(t)
          BY <4>4 DEF Range
        <5>4. Range(t) \subseteq {m} \cup Range(s)
          BY <5>1 DEF Range
        <5> QED BY <5>2, <5>3, <5>4
      <4>10. Up(m)
        BY <4>2, <4>3, <4>5, <4>8, <4>9 DEF Up, t
      <4> QED BY <3>1, <4>10 DEF G
    <3> QED BY <3>2, <3>3
  <2> HIDE DEF G
  <2> QED BY <2>1, <2>2, TreeInduction
<1> QED BY <1>2

\* Going down, nothing is left out of what is to be completed, and nothing is added.
LEMMA UnfinishedDown ==
  ASSUME NEW n \in Node, Kids[n] # <<>>
  PROVE  LET k == Head(Kids[n])
         IN  /\ Unfinished(k) \subseteq Unfinished(n)
             /\ n \in Unfinished(n) /\ Range(Kids[n]) \subseteq Unfinished(n)
<1> DEFINE k == Head(Kids[n])
<1>1. k \in Range(Kids[n]) /\ After[k] \subseteq Range(Kids[n]) \cup After[n]
  BY FirstChild
<1> HIDE DEF k
<1>2. ASSUME NEW j \in Range(Kids[n]) PROVE j \in Node /\ Above[j] = {j} \cup Above[n] /\ n \in Above[j]
  BY <1>2, AboveNodes, TreeKids, TreeParent
<1>3. n \in Unfinished(n) /\ Range(Kids[n]) \subseteq Unfinished(n)
  BY <1>2, AboveNodes DEF Unfinished
<1>4. ASSUME NEW m \in Node, m \in Above[k] PROVE m \in Unfinished(n)
  BY <1>1, <1>2, <1>3, <1>4 DEF Unfinished
<1>5. ASSUME NEW m \in Node, NEW j \in Above[m], j = k \/ j \in After[k] PROVE m \in Unfinished(n)
  <2>1. CASE j \in Range(Kids[n])
    <3>1. Above[j] \subseteq Above[m]
      BY <1>5, AboveAbove
    <3>2. n \in Above[m]
      BY <1>2, <2>1, <3>1
    <3> QED BY <3>2 DEF Unfinished
  <2>2. CASE j \in After[n]
    BY <1>5, <2>2 DEF Unfinished
  <2> QED BY <1>1, <1>5, <2>1, <2>2
<1>6. Unfinished(k) \subseteq Unfinished(n)
  BY <1>4, <1>5 DEF Unfinished
<1> QED BY <1>3, <1>6 DEF k

\* Going on to the next node: those that have been completed are no longer among them.
LEMMA UnfinishedNext ==
  ASSUME NEW n \in Node
  PROVE  /\ Range(Completing[n]) \subseteq Unfinished(n)
         /\ FollowedBy(n) # None =>
              /\ Unfinished(FollowedBy(n)) \subseteq Unfinished(n)
              /\ Range(Completing[n]) \cap Unfinished(FollowedBy(n)) = {}
<1> DEFINE last == Last(Completing[n])
           unit == FollowedBy(n)
<1>1. last \in Above[n] /\ \A d \in Range(Completing[n]) : d \in Above[n] /\ last \in Above[d]
  BY CompletingUp
<1>2. Range(Completing[n]) \subseteq Unfinished(n)
  BY <1>1, AboveNodes DEF Unfinished
<1>3. SUFFICES ASSUME unit # None
               PROVE  /\ Unfinished(unit) \subseteq Unfinished(n)
                      /\ Range(Completing[n]) \cap Unfinished(unit) = {}
  BY <1>2
<1>4. /\ unit \in After[n] /\ After[unit] \subseteq After[n]
      /\ last \in Children /\ unit \in Children /\ Parent[unit] = Parent[last]
  BY <1>3, NextUnit
<1> HIDE DEF last, unit
<1>5. /\ Above[unit] = {unit} \cup Above[Parent[last]] /\ last \in Node
      /\ Above[Parent[last]] \subseteq Above[last] /\ last \notin Above[Parent[last]]
  BY <1>4, AboveNodes, AboveAbove, TreeParent
<1>6. Above[last] \subseteq Above[n] /\ Above[n] \subseteq Node /\ Above[n] \cap After[n] = {}
  BY <1>1, AboveNodes, AboveAbove, AboveOrAfter
<1>7. unit \in Node /\ unit \in Above[unit]
  BY <1>4, AboveNodes, TreeParent
<1>8. Unfinished(unit) \subseteq Unfinished(n)
  <2>1. ASSUME NEW m \in Node, m \in Above[unit] PROVE m \in Unfinished(n)
    BY <1>4, <1>5, <1>6, <1>7, <2>1 DEF Unfinished
  <2>2. ASSUME NEW m \in Node, NEW k \in Above[m], k = unit \/ k \in After[unit]
        PROVE  m \in Unfinished(n)
    BY <1>4, <2>2 DEF Unfinished
  <2> QED BY <2>1, <2>2 DEF Unfinished
<1>9. ASSUME NEW d \in Range(Completing[n]), d \in Unfinished(unit) PROVE FALSE
  <2>1. d \in Above[n] /\ last \in Above[d] /\ d \in Node
    BY <1>1, <1>6
  <2>2. CASE d \in Above[unit]
    <3>1. CASE d = unit
      BY <1>4, <1>6, <2>1, <3>1
    <3>2. CASE d \in Above[Parent[last]]
      <4>1. Parent[last] \in Node
        BY <1>4, TreeParent
      <4>2. Above[d] \subseteq Above[Parent[last]]
        BY <3>2, <4>1, AboveAbove
      <4> QED BY <1>5, <2>1, <4>2
    <3> QED BY <1>5, <2>2, <3>1, <3>2
  <2>3. CASE \E k \in Above[d] : k = unit \/ k \in After[unit]
    <3>1. PICK k \in Above[d] : k = unit \/ k \in After[unit]
      BY <2>3
    <3>2. Above[d] \subseteq Above[n]
      BY <2>1, AboveAbove
    <3> QED BY <1>4, <1>6, <3>1, <3>2
  <2> QED BY <1>9, <2>2, <2>3 DEF Unfinished
<1> QED BY <1>8, <1>9

-----------------------------------------------------------------------------
\* The tree that a render makes, or has made.
Live == work.busy \/ root.finishedWork # 0
Own  == SideIn(fiber, Other(current))

\* The node's fiber of that tree is not the one on the screen.
Apart(n) == Own[n] # Side[n]

\* An update whose callback has to be called, once its component's state is shown.
Callable(u, n, state) ==
  called[u] = 0 /\ u \in MadeUpdates /\ Owner(u) = n /\ Counted(u, state)

\* The queue of a fiber has such updates, none twice.
Effective(n, x) ==
  /\ x.queue # 0 /\ IsInjective(queues[n][x.queue].effects)
  /\ \A u \in Range(queues[n][x.queue].effects) : Callable(u, n, x.state)

EffectsOK ==
  Live => \A n \in Node \ Functions :
            Apart(n) /\ fiber[n][Own[n]].effect => Effective(n, fiber[n][Own[n]])

UnitOK == work.busy /\ work.unit # None => Apart(work.unit)

EffectListOK ==
  Live => /\ IsInjective(work.effects)
          /\ \A n \in Range(work.effects) :
               /\ Apart(n) /\ fiber[n][Own[n]].effect
               /\ work.unit # None => n \notin Unfinished(work.unit)

LayoutOK ==
  At("layout") =>
    LET callbacks == Head(stack).callbacks
    IN  /\ ~Live /\ IsInjective(callbacks)
        /\ \A u \in Range(callbacks) :
             called[u] = 0 /\ u \in MadeUpdates /\ Counted(u, Shown[Owner(u)])

CalledOnce ==
  /\ called \in [Update -> 0 .. 1]
  /\ \A u \in Update : level[u] = NotMade => called[u] = 0

PropsMade == \A n \in Node, s \in Sides : Range(fiber[n][s].props) \subseteq MadeUpdates

\* The inductive invariant.  A render collects callbacks of updates that the state it makes
\* has; the fibers it has completed are not touched again, and those of their tree that are
\* not on the screen are its own; when a commit puts the tree there, it takes the callbacks
\* with it, and no render goes on until they are called.
CallbackInv ==
  /\ UpdatesInv
  /\ EffectsOK /\ UnitOK /\ EffectListOK /\ LayoutOK /\ CalledOnce /\ PropsMade

\* The sides of the two trees.
LEMMA TwoTrees ==
  ASSUME ScreenInv
  PROVE  /\ AreFibers(fiber) /\ current \in Sides /\ Other(current) \in Sides
         /\ Wired(fiber, Other(current), Own) /\ Wired(fiber, current, Side)
         /\ \A n \in Node : Own[n] \in Sides /\ Side[n] \in Sides
         /\ \A n \in Node : Apart(n) => Side[n] = Other(Own[n])
<1>1. AreFibers(fiber) /\ current \in Sides
  BY DEF ScreenInv, FinishedInv
<1>2. /\ Other(current) \in Sides
      /\ Wired(fiber, Other(current), Own) /\ Wired(fiber, current, Side)
  BY <1>1, BothSides DEF Own, Side
<1>3. \A n \in Node : Own[n] \in Sides /\ Side[n] \in Sides
  BY <1>2 DEF Wired
<1> QED BY <1>1, <1>2, <1>3, Others DEF Apart

\* Where a node has two fibers, so have its ancestors.
LEMMA ApartAbove ==
  ASSUME ScreenInv
  PROVE  \A n \in Node : Apart(n) => \A m \in Above[n] : Apart(m)
<1>1. /\ \A n \in Children : Own[n] = fiber[Parent[n]][Own[Parent[n]]].kids
      /\ \A n \in Children : Side[n] = fiber[Parent[n]][Side[Parent[n]]].kids
  BY TwoTrees DEF Wired
<1> DEFINE G == { n \in Node : Apart(n) => \A m \in Above[n] : Apart(m) }
<1>2. Root \in G
  BY AboveNodes, TreeAssumption
<1>3. ASSUME NEW n \in Children, Parent[n] \in G PROVE n \in G
  <2>1. n \in Node /\ Above[n] = {n} \cup Above[Parent[n]]
    BY AboveNodes, TreeParent
  <2>2. Apart(n) => Apart(Parent[n])
    BY <1>1 DEF Apart
  <2> QED BY <1>3, <2>1, <2>2
<1> HIDE DEF G
<1>4. Node \subseteq G
  BY <1>2, <1>3, TreeInduction
<1> QED BY <1>4 DEF G

\* The node that a render is at has a fiber of its own.
LEMMA UnitIsApart == ScreenInv /\ ~At("completeUnitOfWork") => UnitOK
BY DEF ScreenInv, CursorUntouched, Untouched, UnitOK, Apart, Own, Side

\* Beginning a component changes no fiber of the two trees but its own and those that it
\* makes its children's, on the tree of the render.
SidesBegun(h, n, side) ==
  /\ Side' = Side /\ Own'[n] = side
  /\ SameLists(fiber'[n][side], h[n][side]) /\ fiber'[n][side].effect = h[n][side].effect
  /\ \A m \in Node : m # n /\ m \notin Range(Kids[n]) =>
       Own'[m] = Own[m] /\ fiber'[m] = fiber[m]
  /\ \/ \A k \in Range(Kids[n]) : Own'[k] = Own[k] /\ fiber'[k] = fiber[k]
     \/ \A k \in Range(Kids[n]) : Own'[k] # Side[k] /\ fiber'[k][Own'[k]].effect = FALSE

LEMMA GrownSides ==
  ASSUME ScreenInv, fiber \in FiberTrees, NEW n \in Node, Untouched(fiber, current, n),
         NEW h \in FiberTrees, \A m \in Node, s \in Sides : m # n => h[m][s] = fiber[m][s],
         \A s \in Sides : h[n][s].kids = fiber[n][s].kids,
         BredOrSame(h, fiber', n, Own[n]), current' = current
  PROVE  SidesBegun(h, n, Own[n])
<1> DEFINE side == Own[n]
           K    == h[n][side].kids
           g    == fiber'
<1>1. /\ AreFibers(fiber) /\ current \in Sides /\ Other(current) \in Sides
      /\ Wired(fiber, Other(current), Own) /\ Wired(fiber, current, Side)
      /\ \A m \in Node : Own[m] \in Sides /\ Side[m] \in Sides
  BY TwoTrees
<1>2. side # Side[n] /\ side \in Sides /\ Side[n] = Other(side)
      /\ fiber[n][Side[n]].kids = K /\ fiber[n][side].kids = K
  BY <1>1, Others DEF Untouched, Own, Side
<1>3. g \in FiberTrees /\ \A s \in Sides : SameLists(g[n][s], h[n][s])
  BY <1>2, GrownTree
<1>4. AreFibers(g) /\ \A m \in Node : m # n => h[m] = fiber[m]
  <2>1. AreFibers(g)
    BY <1>3, TreesAreFibers
  <2>2. ASSUME NEW m \in Node, m # n PROVE h[m] = fiber[m]
    <3>1. h[m] \in [Sides -> FiberSet] /\ fiber[m] \in [Sides -> FiberSet]
      BY DEF FiberTrees
    <3> QED BY <2>2, <3>1
  <2> QED BY <2>1, <2>2
<1>5. Side' = SideIn(g, current) /\ Own' = SideIn(g, Other(current))
  BY DEF Side, Own
<1>6. n \notin Range(Kids[n]) /\ \A k \in Range(Kids[n]) : k \in Children /\ k \in Node /\ Parent[k] = n
  BY NotOwnChild, TreeKids, TreeParent
<1>7. \A k \in Range(Kids[n]) : Side[k] = K /\ Own[k] = K
  BY <1>1, <1>2, <1>6 DEF Wired
<1> HIDE DEF side, K, g
<1>8. CASE g = h
  <2>1. \A m \in Node, s \in Sides : g[m][s].kids = fiber[m][s].kids
    BY <1>4, <1>8
  <2>2. Side' = Side /\ Own' = Own
    BY <1>1, <1>4, <1>5, <2>1, SameSides DEF Side, Own
  <2>3. \A m \in Node : m # n => Own'[m] = Own[m] /\ g[m] = fiber[m]
    BY <1>4, <1>8, <2>2
  <2>4. SameLists(g[n][side], h[n][side]) /\ g[n][side].effect = h[n][side].effect
    BY <1>2, <1>3, <1>8
  <2> QED BY <1>6, <2>2, <2>3, <2>4 DEF SidesBegun, side, g
<1>9. CASE Bred(h, g, n, side)
  <2>1. /\ K \in Sides /\ Other(K) \in Sides /\ Other(K) # K
        /\ g[n][side].effect = h[n][side].effect /\ g[n][side].kids = Other(K)
        /\ g[n][Side[n]] = h[n][Side[n]]
        /\ \A k \in Range(Kids[n]) : /\ g[k][K] = h[k][K]
                                     /\ g[k][Other(K)].kids = h[k][K].kids
                                     /\ g[k][Other(K)].effect = FALSE
        /\ \A m \in Node, s \in Sides : m # n /\ m \notin Range(Kids[n]) => g[m][s] = h[m][s]
    <3>1. K \in Sides
      BY <1>2 DEF FiberTrees, FiberSet, K
    <3> QED BY <1>2, <1>9, <3>1, Others DEF Bred, CopyOf, K
  <2>2. \A m \in Node : g[m][Side[m]].kids = fiber[m][Side[m]].kids
    <3> SUFFICES ASSUME NEW m \in Node PROVE g[m][Side[m]].kids = fiber[m][Side[m]].kids
      OBVIOUS
    <3>1. CASE m = n
      BY <1>1, <2>1, <3>1
    <3>2. CASE m \in Range(Kids[n])
      BY <1>4, <1>6, <1>7, <2>1, <3>2
    <3>3. CASE m # n /\ m \notin Range(Kids[n])
      BY <1>1, <1>4, <2>1, <3>3
    <3> QED BY <3>1, <3>2, <3>3
  <2>3. Side' = Side
    BY <1>1, <1>4, <1>5, <2>2, SameSides DEF Side
  <2> DEFINE W == [m \in Node |-> IF m \in Range(Kids[n]) THEN Other(K) ELSE Own[m]]
  <2>4. W \in [Node -> Sides] /\ \A m \in Node : W[m] = IF m \in Range(Kids[n]) THEN Other(K) ELSE Own[m]
    BY <1>1, <2>1
  <2> HIDE DEF W
  <2>5. W[Root] = Other(current)
    BY <1>1, <1>6, <2>4, TreeAssumption DEF Wired, Children
  <2>6. ASSUME NEW m \in Children PROVE W[m] = g[Parent[m]][W[Parent[m]]].kids
    <3>1. /\ m \in Node /\ Parent[m] \in Node /\ (m \in Range(Kids[n]) <=> Parent[m] = n)
          /\ Own[m] = fiber[Parent[m]][Own[Parent[m]]].kids
      BY <1>1, TreeParent DEF Wired
    <3>2. CASE m \in Range(Kids[n])
      BY <1>6, <2>1, <2>4, <3>1, <3>2 DEF side
    <3>3. CASE m \notin Range(Kids[n]) /\ Parent[m] \in Range(Kids[n])
      BY <1>4, <1>6, <1>7, <2>1, <2>4, <3>1, <3>3
    <3>4. CASE m \notin Range(Kids[n]) /\ Parent[m] \notin Range(Kids[n])
      BY <1>1, <1>4, <2>1, <2>4, <3>1, <3>4
    <3> QED BY <3>2, <3>3, <3>4
  <2>7. Own' = W
    BY <1>1, <1>4, <1>5, <2>4, <2>5, <2>6, WiredIsSides DEF Wired
  <2>8. Own'[n] = side
    BY <1>6, <2>4, <2>7 DEF side
  <2>9. \A m \in Node : m # n /\ m \notin Range(Kids[n]) => Own'[m] = Own[m] /\ g[m] = fiber[m]
    <3> SUFFICES ASSUME NEW m \in Node, m # n, m \notin Range(Kids[n])
                 PROVE  Own'[m] = Own[m] /\ g[m] = fiber[m]
      OBVIOUS
    <3>1. g[m] \in [Sides -> FiberSet] /\ fiber[m] \in [Sides -> FiberSet]
      BY <1>3 DEF FiberTrees
    <3>2. \A s \in Sides : g[m][s] = fiber[m][s]
      BY <1>4, <2>1
    <3> QED BY <2>4, <2>7, <3>1, <3>2
  <2>10. \A k \in Range(Kids[n]) : Own'[k] # Side[k] /\ g[k][Own'[k]].effect = FALSE
    BY <1>6, <1>7, <2>1, <2>4, <2>7
  <2> QED BY <1>3, <2>1, <2>3, <2>8, <2>9, <2>10, <1>2 DEF SidesBegun, side, g
<1> QED BY <1>8, <1>9 DEF BredOrSame, side, g

\* The callbacks that processing a queue collects are of updates that the state has.
LEMMA CollectedAreEffective ==
  ASSUME Lists, NEW n \in Node, NEW x, NEW render, Collected(n, x, render)
  PROVE  LET effects == queues'[n][x.queue].effects
         IN  /\ x.queue # 0 /\ IsInjective(effects)
             /\ \A u \in Range(effects) : Callable(u, n, x.state)
<1> DEFINE effects == queues'[n][x.queue].effects
<1>1. PICK updates \in Seq(Range(History(n))), base \in Seq(Update) :
        /\ x.queue # 0 /\ IsInjective(updates)
        /\ effects = CallbacksIn(updates, render)
        /\ x.state = AppliedSome(base, updates, Due(updates, render))
  BY DEF Collected
<1>2. \A u \in Range(History(n)) : u \in MadeUpdates /\ Owner(u) = n
  BY HistoryElements DEF Lists
<1> DEFINE due  == Due(updates, render)
           some == { u \in due \cap WithCallback : called[u] = 0 }
<1>3. effects = Those(updates, some)
  BY <1>1 DEF CallbacksIn
<1> HIDE DEF effects, some, due
<1>4. IsInjective(effects) /\ Range(effects) = Range(updates) \cap some
  BY <1>1, <1>3, SomeOfList
<1>5. Range(updates) \subseteq Range(History(n)) /\ updates \in Seq(Update)
  <2>1. Range(History(n)) \subseteq Update
    BY <1>2 DEF MadeUpdates
  <2> HIDE DEF Range
  <2>2. updates \in Seq(Update)
    BY <2>1
  <2>3. Range(updates) \subseteq Range(History(n))
    BY DEF Range
  <2> QED BY <2>2, <2>3
<1>6. \A u \in Range(updates) \cap due : Counted(u, x.state)
  BY <1>1, <1>5, AppliedAreCounted DEF due
<1>7. ASSUME NEW u \in Range(effects) PROVE Callable(u, n, x.state)
  <2>1. u \in Range(updates) /\ u \in due /\ called[u] = 0
    BY <1>4 DEF some
  <2> QED BY <1>2, <1>5, <1>6, <2>1 DEF Callable
<1> QED BY <1>1, <1>4, <1>7 DEF effects

\* Beginning a component changes its own fibers, its queue among them, and makes children.
BegunFrom(h, n, side, render) ==
  /\ h \in FiberTrees /\ BredOrSame(h, fiber', n, side)
  /\ \A m \in Node, s \in Sides : m # n => h[m][s] = fiber[m][s]
  /\ \A s \in Sides : h[n][s].kids = fiber[n][s].kids /\ h[n][s].props = fiber[n][s].props
  /\ \A m \in Node \ {n} : queues'[m] = queues[m]
  /\ n \notin Functions =>
       \/ /\ SameLists(h[n][side], fiber[n][side]) /\ queues' = queues
          /\ h[n][side].effect = fiber[n][side].effect
       \/ Collected(n, h[n][side], render)

LEMMA BeginSides ==
  ASSUME Lists, NEW n \in Node, NEW side \in Sides, fiber[n][side].exists, NEW render,
         BeginWork(n, side, render)
  PROVE  \E h \in FiberTrees : BegunFrom(h, n, side, render)
<1>1. CASE BeginBailsOut(n, side, render)
  <2>1. fiber \in FiberTrees
    BY DEF Lists, UpdatesTyped
  <2>2. BredOrSame(fiber, fiber', n, side) /\ queues' = queues
    BY <1>1, <2>1, ChildrenGrow DEF BeginBailsOut
  <2>3. SameLists(fiber[n][side], fiber[n][side])
    BY DEF SameLists
  <2> QED BY <2>1, <2>2, <2>3 DEF BegunFrom
<1>2. CASE BeginQueue(n, side, render)
  <2>1. PICK h \in FiberTrees :
          /\ BredOrSame(h, fiber', n, side)
          /\ \A m \in Node, s \in Sides : (m # n \/ s # side) => h[m][s] = fiber[m][s]
          /\ h[n][side].exists /\ h[n][side].kids = fiber[n][side].kids
          /\ h[n][side].props = fiber[n][side].props
          /\ \A m \in Node \ {n} : queues'[m] = queues[m]
          /\ \/ /\ SameLists(h[n][side], fiber[n][side]) /\ queues' = queues
                /\ h[n][side].effect = fiber[n][side].effect
             \/ Collected(n, h[n][side], render)
    <3> HIDE DEF SameLists, Collected, BredOrSame, FiberTrees
    <3> QED BY <1>2, QueueBegun
  <2>2. \A s \in Sides : h[n][s].kids = fiber[n][s].kids /\ h[n][s].props = fiber[n][s].props
    BY <2>1
  <2>3. \A m \in Node, s \in Sides : m # n => h[m][s] = fiber[m][s]
    BY <2>1
  <2> QED BY <2>1, <2>2, <2>3 DEF BegunFrom
<1>3. CASE BeginFunction(n, side, render)
  <2>1. PICK h \in FiberTrees :
          /\ BredOrSame(h, fiber', n, side)
          /\ \A m \in Node, s \in Sides : m # n => h[m][s] = fiber[m][s]
          /\ \A s \in Sides : /\ h[n][s].exists = fiber[n][s].exists
                              /\ h[n][s].kids = fiber[n][s].kids
                              /\ h[n][s].props = fiber[n][s].props
    BY <1>3, HookBegun
  <2>2. n \in Functions /\ queues' = queues
    BY <1>3 DEF BeginFunction
  <2> QED BY <2>1, <2>2 DEF BegunFrom
<1> QED BY <1>1, <1>2, <1>3 DEF BeginWork

\* States and base states have updates that were made.
StatesMade ==
  \A n \in Node, s \in Sides :
    Range(fiber[n][s].state) \subseteq MadeUpdates /\ Range(fiber[n][s].base) \subseteq MadeUpdates

LEMMA StatesAreMade == Lists => StatesMade
<1> SUFFICES ASSUME Lists, NEW n \in Node, NEW s \in Sides
             PROVE  /\ Range(fiber[n][s].state) \subseteq MadeUpdates
                    /\ Range(fiber[n][s].base) \subseteq MadeUpdates
  BY DEF StatesMade
<1> DEFINE H == History(n)
           x == fiber[n][s]
<1>1. H \in Seq(MadeUpdates) /\ SideOf(n, x) /\ Len(H) \in Nat
  BY ListFound DEF NodeLists
<1>2. \A k \in 0 .. Len(H) : Possible(H)[k] \subseteq Seq(MadeUpdates)
  BY <1>1, PossibleStates
<1>3. x.state \in Possible(H)[Len(H)]
  BY <1>1 DEF SideOf, HookSide, ClassSide
<1>4. x.base = <<>> \/ \E b \in 0 .. Len(H) : x.base \in Possible(H)[b]
  BY <1>1 DEF SideOf, HookSide, ClassSide, HookFrom
<1> HIDE DEF H, x
<1>5. \A y \in Seq(MadeUpdates) : Range(y) \subseteq MadeUpdates
  BY DEF Range
<1>6. <<>> \in Seq(MadeUpdates)
  OBVIOUS
<1>7. x.state \in Seq(MadeUpdates)
  BY <1>1, <1>2, <1>3
<1>8. x.base \in Seq(MadeUpdates)
  BY <1>2, <1>4, <1>6
<1> QED BY <1>5, <1>7, <1>8 DEF x

\* Beginning a component leaves the effects of others, and its own are collected anew.
LEMMA BeginEffects ==
  ASSUME Lists, ScreenInv, EffectsOK, Live, NEW n \in Node, Untouched(fiber, current, n),
         NEW render, NEW h, BegunFrom(h, n, Own[n], render),
         UNCHANGED <<level, called, current>>
  PROVE  EffectsOK' /\ SidesBegun(h, n, Own[n])
<1> DEFINE side == Own[n]
<1>1. SidesBegun(h, n, side) /\ Apart(n)
  <2>1. fiber \in FiberTrees
    BY DEF Lists, UpdatesTyped
  <2>2. Apart(n)
    BY DEF Untouched, Apart, Own, Side
  <2> QED BY <2>1, <2>2, GrownSides DEF BegunFrom
<1>2. MadeUpdates' = MadeUpdates /\ called' = called
  BY DEF MadeUpdates
<1> HIDE DEF side
<1>3. SUFFICES ASSUME NEW m \in Node \ Functions, Apart(m)', fiber'[m][Own'[m]].effect
               PROVE  Effective(m, fiber[m][Own[m]])'
  BY <1>1 DEF EffectsOK, side
<1>4. \A x, u, y : Callable(u, m, x) /\ y = x => Callable(u, m, y)'
  BY <1>2 DEF Callable
<1>5. CASE m = n
  <2> DEFINE x == h[n][side]
             y == fiber'[n][side]
  <2>1. y.queue = x.queue /\ y.state = x.state /\ y.effect = x.effect /\ Own'[n] = side
    BY <1>1 DEF SidesBegun, SameLists
  <2>2. CASE /\ SameLists(x, fiber[n][side]) /\ queues' = queues
             /\ x.effect = fiber[n][side].effect
    <3>1. Effective(n, fiber[n][side])
      BY <1>1, <1>3, <1>5, <2>1, <2>2 DEF EffectsOK, side
    <3>2. y.queue = fiber[n][side].queue /\ y.state = fiber[n][side].state
      BY <2>1, <2>2 DEF SameLists
    <3> QED BY <1>4, <1>5, <2>1, <2>2, <3>1, <3>2 DEF Effective
  <2>3. CASE Collected(n, x, render)
    <3>1. /\ x.queue # 0 /\ IsInjective(queues'[n][x.queue].effects)
          /\ \A u \in Range(queues'[n][x.queue].effects) : Callable(u, n, x.state)
      <4> HIDE DEF x
      <4> QED BY <2>3, CollectedAreEffective
    <3> QED BY <1>4, <1>5, <2>1, <3>1 DEF Effective
  <2> QED BY <1>3, <1>5, <2>2, <2>3 DEF BegunFrom, side
<1>6. CASE m # n
  <2>1. Own'[m] = Own[m] /\ fiber'[m] = fiber[m] /\ Apart(m)
    BY <1>1, <1>3, <1>6 DEF SidesBegun, Apart
  <2>2. Effective(m, fiber[m][Own[m]]) /\ queues'[m] = queues[m]
    BY <1>3, <1>6, <2>1 DEF EffectsOK, BegunFrom
  <2> QED BY <1>4, <2>1, <2>2 DEF Effective
<1> QED BY <1>5, <1>6

\* The props it gives to children are its state.
LEMMA BeginProps ==
  ASSUME Lists, Lists', PropsMade, NEW n \in Node, NEW side \in Sides, NEW render,
         NEW h, BegunFrom(h, n, side, render), UNCHANGED level
  PROVE  PropsMade'
<1>1. /\ h \in FiberTrees /\ BredOrSame(h, fiber', n, side)
      /\ \A m \in Node, s \in Sides : Range(h[m][s].props) \subseteq MadeUpdates
  BY DEF BegunFrom, PropsMade
<1>2. MadeUpdates' = MadeUpdates
  BY DEF MadeUpdates
<1>3. Range(h[n][side].state) \subseteq MadeUpdates
  <2>1. h[n][side].state = fiber'[n][side].state
    BY <1>1, GrownTree DEF SameLists
  <2>2. StatesMade'
    BY StatesAreMade, PTL
  <2> QED BY <1>2, <2>1, <2>2 DEF StatesMade
<1>4. SUFFICES ASSUME NEW m \in Node, NEW s \in Sides
               PROVE  Range(fiber'[m][s].props) \subseteq MadeUpdates
  BY <1>2 DEF PropsMade
<1>5. CASE fiber' = h
  BY <1>1, <1>5
<1>6. CASE Bred(h, fiber', n, side)
  <2> DEFINE K == h[n][side].kids
  <2>1. K \in Sides /\ n \notin Range(Kids[n])
    BY <1>1, NotOwnChild DEF FiberTrees, FiberSet
  <2>2. fiber'[m][s].props \in {h[m][s].props, h[m][K].props, h[n][side].state}
    <3>1. CASE m = n
      BY <1>6, <2>1, <3>1, Others DEF Bred
    <3>2. CASE m \in Range(Kids[n])
      BY <1>6, <2>1, <3>2, Others DEF Bred
    <3>3. CASE m # n /\ m \notin Range(Kids[n])
      BY <1>6, <3>3 DEF Bred
    <3> QED BY <3>1, <3>2, <3>3
  <2> QED BY <1>1, <1>3, <2>1, <2>2
<1> QED BY <1>1, <1>5, <1>6 DEF BredOrSame

-----------------------------------------------------------------------------
\* The trees stay: no fiber gets other children, another state or an effect.
FibersStay ==
  /\ fiber' \in FiberTrees /\ current' = current
  /\ \A n \in Node, s \in Sides :
       /\ fiber'[n][s].kids = fiber[n][s].kids /\ fiber'[n][s].state = fiber[n][s].state
       /\ fiber'[n][s].effect = fiber[n][s].effect

\* Then so do the sides of the two trees.
LEMMA TreesStay ==
  ASSUME ScreenInv, FibersStay
  PROVE  /\ Side' = Side /\ Own' = Own /\ \A n \in Node : Apart(n)' <=> Apart(n)
         /\ \A n \in Node : Own[n] \in Sides
<1>1. AreFibers(fiber) /\ AreFibers(fiber') /\ current \in Sides /\ Other(current) \in Sides
  BY TwoTrees, TreesAreFibers DEF FibersStay
<1>2. \A n \in Node : Own[n] \in Sides /\ Side[n] \in Sides
  BY TwoTrees
<1>3. SideIn(fiber', current) = SideIn(fiber, current)
  BY <1>1, <1>2, SameSides DEF FibersStay, Side
<1>4. SideIn(fiber', Other(current)) = SideIn(fiber, Other(current))
  BY <1>1, <1>2, SameSides DEF FibersStay, Own
<1>5. Side' = Side /\ Own' = Own
  BY <1>3, <1>4 DEF FibersStay, Side, Own
<1> QED BY <1>2, <1>5 DEF Apart

\* Updates that are made stay made, and no callback is called.
NoCalls == called' = called /\ MadeUpdates \subseteq MadeUpdates'

\* A queue that a fiber has keeps what was collected.
EffectsStay ==
  \A n \in Node \ Functions, s \in Sides : fiber[n][s].queue # 0 =>
    /\ fiber'[n][s].queue = fiber[n][s].queue
    /\ queues'[n][fiber[n][s].queue].effects = queues[n][fiber[n][s].queue].effects

\* When the trees stay and no callback is called, those that are to be called stay.
LEMMA TreesKeepEffects ==
  ASSUME ScreenInv, EffectsOK, FibersStay, NoCalls, EffectsStay, Live' => Live
  PROVE  EffectsOK'
<1> SUFFICES ASSUME Live, NEW n \in Node \ Functions, Apart(n)', fiber'[n][Own'[n]].effect
             PROVE  Effective(n, fiber[n][Own[n]])'
  BY DEF EffectsOK
<1> DEFINE x == fiber[n][Own[n]]
           y == fiber'[n][Own[n]]
<1>1. Own' = Own /\ Apart(n) /\ Own[n] \in Sides
  BY TreesStay
<1>2. y.state = x.state /\ x.effect
  BY <1>1 DEF FibersStay
<1>3. Effective(n, x)
  BY <1>1, <1>2 DEF EffectsOK
<1>4. y.queue = x.queue /\ queues'[n][x.queue].effects = queues[n][x.queue].effects
  BY <1>1, <1>3 DEF EffectsStay, Effective
<1> HIDE DEF x, y
<1>5. \A u, z : Callable(u, n, z) => Callable(u, n, z)'
  BY DEF Callable, NoCalls
<1> QED BY <1>1, <1>2, <1>3, <1>4, <1>5 DEF Effective, x, y

\* ... and so does the list of what was completed with an effect.
LEMMA TreesKeepList ==
  ASSUME ScreenInv, EffectListOK, FibersStay, Live' => Live, work'.effects = work.effects,
         work'.unit = work.unit, work.effects \in Seq(Node)
  PROVE  EffectListOK'
<1>1. \A n \in Range(work.effects) : n \in Node
  BY DEF Range
<1>2. Own' = Own /\ \A n \in Node : Own[n] \in Sides /\ (Apart(n)' <=> Apart(n))
  BY TreesStay
<1>3. \A n \in Node : fiber'[n][Own[n]].effect = fiber[n][Own[n]].effect
  BY <1>2 DEF FibersStay
<1> QED BY <1>1, <1>2, <1>3 DEF EffectListOK, Unfinished

\* No callback of an update that is not made has been called.
LEMMA CallsStayOnce ==
  ASSUME CalledOnce, NoCalls, Lists
  PROVE  CalledOnce'
BY DEF CalledOnce, NoCalls, MadeUpdates

-----------------------------------------------------------------------------
\* What changes nothing of the trees and the queues keeps what will be called.
LEMMA UntouchedCalls ==
  ASSUME CallbackInv, UpdatesInv', UNCHANGED treeVars, work' = work,
         root'.finishedWork = root.finishedWork, ~At("layout")'
  PROVE  CallbackInv'
<1>1. fiber' = fiber /\ queues' = queues /\ level' = level /\ called' = called /\ current' = current
  BY DEF treeVars
<1>2. Own' = Own /\ Side' = Side /\ Live' = Live /\ MadeUpdates' = MadeUpdates
  BY <1>1 DEF Own, Side, Live, MadeUpdates
<1>3. /\ \A n : Apart(n)' <=> Apart(n)
      /\ \A u, n, z : Callable(u, n, z)' <=> Callable(u, n, z)
  BY <1>1, <1>2 DEF Apart, Callable
<1>4. EffectsOK' /\ UnitOK' /\ EffectListOK'
  BY <1>1, <1>2, <1>3 DEF CallbackInv, EffectsOK, UnitOK, EffectListOK, Effective, Unfinished
<1>5. LayoutOK'
  BY DEF LayoutOK
<1>6. CalledOnce' /\ PropsMade'
  BY <1>1, <1>2 DEF CallbackInv, CalledOnce, PropsMade
<1> QED BY <1>4, <1>5, <1>6 DEF CallbackInv

\* Calls and returns do not, and neither does the end of a commit.
LEMMA CallsCalls ==
  ASSUME CallbackInv, UpdatesInv',
         \/ \E event \in Events : BeginEvent(event)
         \/ EndEvent \/ BeginFlush \/ FlushNext \/ BeginPassiveEffects
         \/ Yield \/ BeginCommit \/ CommitNothing \/ BeginRenderRoot \/ CommitReturns
         \/ EndCommit
         \/ \E task \in tasks : RunTask(task)
         \/ Tick
  PROVE  CallbackInv'
<1>1. ScreenInv
  BY DEF CallbackInv, UpdatesInv
<1>2. Stays
  BY <1>1, CallsStay, UpdatesStay
<1>3. UNCHANGED treeVars
  BY DEF BeginEvent, EndEvent, BeginFlush, FlushNext, BeginPassiveEffects, Yield, BeginCommit,
         CommitNothing, BeginRenderRoot, CommitReturns, EndCommit, RunTask, Tick
<1>4. ~CallCallback
  BY DEF CallCallback, At, BeginEvent, EndEvent, BeginFlush, FlushNext, BeginPassiveEffects, Yield,
         BeginCommit, CommitNothing, BeginRenderRoot, CommitReturns, EndCommit, RunTask, Tick
<1>5. ~At("layout")'
  BY <1>2, <1>4 DEF Stays
<1> QED BY <1>2, <1>3, <1>5, UntouchedCalls DEF Stays

\* When the render is done nothing is left to complete, and its tree waits for the commit.
LEMMA FinishCalls ==
  ASSUME CallbackInv, UpdatesInv', FinishRender
  PROVE  CallbackInv'
<1>1. ScreenInv /\ At("workLoop") /\ work.busy /\ stack # <<>> /\ CallStack
      /\ {"busy", "unit", "time", "effects"} \subseteq DOMAIN work
  BY DEF CallbackInv, UpdatesInv, ScreenInv, CallStack, FinishRender, At
<1>2. /\ UNCHANGED treeVars /\ work' = [work EXCEPT !.busy = FALSE] /\ work.unit = None
      /\ ReturnContinuation(Commit)
  BY DEF FinishRender
<1>3. ~At("layout")'
  BY <1>1, <1>2, ContinuationIsQuiet, QuietCallStack
<1>4. fiber' = fiber /\ queues' = queues /\ level' = level /\ called' = called /\ current' = current
  BY <1>2 DEF treeVars
<1>5. Own' = Own /\ Side' = Side /\ Live /\ MadeUpdates' = MadeUpdates
  BY <1>1, <1>4 DEF Own, Side, Live, MadeUpdates
<1>6. /\ \A n : Apart(n)' <=> Apart(n)
      /\ \A u, n, z : Callable(u, n, z)' <=> Callable(u, n, z)
  BY <1>4, <1>5 DEF Apart, Callable
<1>7. work'.unit = None /\ work'.effects = work.effects /\ ~work'.busy
  BY <1>1, <1>2
<1>8. EffectsOK' /\ UnitOK' /\ EffectListOK'
  BY <1>2, <1>4, <1>5, <1>6, <1>7 DEF CallbackInv, EffectsOK, UnitOK, EffectListOK, Effective
<1>9. LayoutOK'
  BY <1>3 DEF LayoutOK
<1>10. CalledOnce' /\ PropsMade'
  BY <1>4, <1>5 DEF CallbackInv, CalledOnce, PropsMade
<1> QED BY <1>8, <1>9, <1>10 DEF CallbackInv

\* Two lists without duplicates that have nothing in common, one after the other.
LEMMA JoinedLists ==
  ASSUME NEW U, NEW s \in Seq(U), NEW t \in Seq(U), IsInjective(s), IsInjective(t),
         Range(s) \cap Range(t) = {}
  PROVE  IsInjective(s \o t) /\ Range(s \o t) = Range(s) \cup Range(t)
<1> DEFINE r == s \o t
           m == Len(s)
           n == Len(t)
<1>1. /\ m \in Nat /\ n \in Nat /\ DOMAIN s = 1 .. m /\ DOMAIN t = 1 .. n /\ DOMAIN r = 1 .. m + n
      /\ \A i \in 1 .. m : r[i] = s[i]
      /\ \A i \in m + 1 .. m + n : r[i] = t[i - m]
  OBVIOUS
<1> HIDE DEF r, m, n
<1>2. /\ \A i \in 1 .. m : r[i] \in Range(s)
      /\ \A i \in m + 1 .. m + n : i - m \in 1 .. n /\ r[i] \in Range(t)
  <2>1. \A i \in m + 1 .. m + n : i - m \in 1 .. n
    BY <1>1
  <2> QED BY <1>1, <2>1 DEF Range
<1>3. IsInjective(r)
  <2> SUFFICES ASSUME NEW i \in 1 .. m + n, NEW j \in 1 .. m + n, r[i] = r[j] PROVE i = j
    BY <1>1 DEF IsInjective
  <2>1. CASE i \in 1 .. m /\ j \in 1 .. m
    BY <1>1, <2>1 DEF IsInjective
  <2>2. CASE i \in m + 1 .. m + n /\ j \in m + 1 .. m + n
    <3>1. i - m \in 1 .. n /\ j - m \in 1 .. n /\ t[i - m] = t[j - m]
      BY <1>1, <1>2, <2>2
    <3>2. i - m = j - m
      BY <1>1, <3>1 DEF IsInjective
    <3> QED BY <1>1, <3>2
  <2>3. CASE i \in 1 .. m /\ j \in m + 1 .. m + n
    BY <1>2, <2>3
  <2>4. CASE i \in m + 1 .. m + n /\ j \in 1 .. m
    BY <1>2, <2>4
  <2> QED BY <1>1, <2>1, <2>2, <2>3, <2>4
<1>4. Range(r) = Range(s) \cup Range(t)
  <2>1. Range(r) \subseteq Range(s) \cup Range(t)
    <3>1. \A i \in 1 .. m + n : i \in 1 .. m \/ i \in m + 1 .. m + n
      BY <1>1
    <3> QED BY <1>1, <1>2, <3>1 DEF Range
  <2>2. Range(s) \subseteq Range(r)
    <3>1. \A i \in 1 .. m : i \in 1 .. m + n
      BY <1>1
    <3> QED BY <1>1, <3>1 DEF Range
  <2>3. Range(t) \subseteq Range(r)
    <3>1. \A i \in 1 .. n : m + i \in m + 1 .. m + n /\ m + i \in 1 .. m + n /\ (m + i) - m = i
      BY <1>1
    <3>2. \A i \in 1 .. n : r[m + i] = t[i]
      BY <1>1, <3>1
    <3> QED BY <1>1, <3>1, <3>2 DEF Range
  <2> QED BY <2>1, <2>2, <2>3
<1> QED BY <1>3, <1>4 DEF r

\* Fibers keep the props they have.
LEMMA PropsStay ==
  ASSUME PropsMade, MadeUpdates \subseteq MadeUpdates',
         \A n \in Node, s \in Sides : fiber'[n][s].props = fiber[n][s].props
  PROVE  PropsMade'
BY DEF PropsMade

\* completeUnitOfWork lists what it completes with an effect, none of it for the second time.
LEMMA CompleteCalls ==
  ASSUME CallbackInv, UpdatesInv', CompleteUnitOfWork
  PROVE  CallbackInv'
<1> DEFINE n     == work.unit
           side  == SideIn(fiber, Other(current))
           done  == Completing[n]
           some  == { m \in Node : fiber[m][side[m]].effect }
           unit  == FollowedBy(n)
<1>1. /\ ScreenInv /\ Lists /\ LoopTyped /\ CallStack /\ fiber \in FiberTrees
      /\ At("completeUnitOfWork") /\ work.busy /\ n \in Node /\ n # None
      /\ {"busy", "unit", "time", "effects"} \subseteq DOMAIN work /\ work.effects \in Seq(Node)
  BY DEF CallbackInv, UpdatesInv, ScreenInv, CallStack, CompleteUnitOfWork, Lists, UpdatesTyped,
         LoopTyped
<1>2. /\ fiber' = ChildTimesReset(side, done, work.time)
      /\ work' = [work EXCEPT !.unit = unit, !.effects = @ \o Those(done, some)]
      /\ stack' = <<[Head(stack) EXCEPT !.at = "workLoop"]>> \o Tail(stack)
      /\ UNCHANGED <<level, called, queues, current, root>>
  BY DEF CompleteUnitOfWork, Goto
<1>3. side = Own /\ side \in [Node -> Sides] /\ done \in Seq(Node)
  BY <1>1, TwoTrees, LastCompleted DEF Own, Wired
<1> HIDE DEF side, done, unit
<1>4. FibersStay /\ \A m \in Node, s \in Sides : SameFiber(fiber'[m][s], fiber[m][s])
  <2>1. Steady(fiber, fiber')
    BY <1>1, <1>2, <1>3, ResetsAreSteady
  <2> QED BY <1>2, <2>1 DEF FibersStay, Steady, SameFiber, SameLists
<1>5. /\ Own' = Own /\ \A m \in Node : Own[m] \in Sides /\ (Apart(m)' <=> Apart(m))
      /\ MadeUpdates' = MadeUpdates /\ NoCalls
  BY <1>1, <1>2, <1>4, TreesStay DEF MadeUpdates, NoCalls
<1>6. /\ work'.unit = unit /\ work'.busy /\ work'.effects = work.effects \o Those(done, some)
      /\ Live
  BY <1>1, <1>2 DEF Live
<1>7. EffectsOK'
  <2>1. EffectsStay
    BY <1>2, <1>4 DEF EffectsStay, SameFiber, SameLists
  <2> QED BY <1>1, <1>4, <1>5, <1>6, <2>1, TreesKeepEffects DEF CallbackInv
<1>8. ~At("layout")' /\ ~At("completeUnitOfWork")'
  <2>1. stack # <<>> /\ "at" \in DOMAIN Head(stack) /\ Quiet(Tail(stack))
    BY <1>1 DEF CallStack, At
  <2> DEFINE frame == [Head(stack) EXCEPT !.at = "workLoop"]
  <2>2. frame.at = "workLoop"
    BY <2>1
  <2> HIDE DEF frame
  <2>3. Head(stack') = frame
    BY <1>2, <2>1, OnTop DEF frame
  <2> QED BY <2>2, <2>3 DEF At
<1>9. UnitOK'
  <2>1. ScreenInv'
    BY DEF UpdatesInv
  <2> QED BY <1>8, <2>1, UnitIsApart, PTL
<1>10. EffectListOK'
  <2> DEFINE new == Those(done, some)
             all == work.effects \o new
  <2>1. /\ IsInjective(done)
        /\ \A d \in Range(done) : d \in Above[n] /\ d \in Unfinished(n)
        /\ unit # None => /\ Unfinished(unit) \subseteq Unfinished(n)
                          /\ Range(done) \cap Unfinished(unit) = {}
    BY <1>1, CompletingUp, UnfinishedNext DEF done, unit
  <2>2. new \in Seq(Node) /\ IsInjective(new) /\ Range(new) = Range(done) \cap some
    BY <1>3, <2>1, SomeOfList
  <2>3. /\ IsInjective(work.effects)
        /\ \A m \in Range(work.effects) : /\ Apart(m) /\ fiber[m][Own[m]].effect
                                          /\ m \notin Unfinished(n)
    BY <1>1, <1>6 DEF CallbackInv, EffectListOK
  <2>4. \A m \in Range(new) : Apart(m) /\ fiber[m][Own[m]].effect
    <3>1. Apart(n)
      BY <1>1 DEF CallbackInv, UnitOK
    <3> QED BY <1>1, <1>3, <2>1, <2>2, <3>1, ApartAbove
  <2> HIDE DEF new, some
  <2>5. IsInjective(all) /\ Range(all) = Range(work.effects) \cup Range(new)
    BY <1>1, <2>1, <2>2, <2>3, JoinedLists
  <2> HIDE DEF all
  <2>6. \A m \in Range(all) : m \in Node
    <3>1. Range(work.effects) \subseteq Node /\ Range(new) \subseteq Node
      BY <1>1, <2>2 DEF Range
    <3> QED BY <2>5, <3>1
  <2>7. \A m \in Range(all) : fiber'[m][Own[m]].effect = fiber[m][Own[m]].effect
    BY <1>4, <1>5, <2>6 DEF FibersStay
  <2>8. ASSUME NEW m \in Range(all), unit # None PROVE m \notin Unfinished(unit)
    BY <2>1, <2>2, <2>3, <2>5, <2>8
  <2>9. work'.effects = all
    BY <1>6 DEF all, new
  <2> QED BY <1>5, <1>6, <2>3, <2>4, <2>5, <2>6, <2>7, <2>8, <2>9 DEF EffectListOK, Unfinished
<1>11. LayoutOK'
  BY <1>8 DEF LayoutOK
<1>12. CalledOnce' /\ PropsMade'
  <2>1. PropsMade'
    BY <1>4, <1>5, PropsStay DEF CallbackInv, SameFiber
  <2> QED BY <1>1, <1>5, <2>1, CallsStayOnce DEF CallbackInv
<1> QED BY <1>7, <1>9, <1>10, <1>11, <1>12 DEF CallbackInv

\* A unit of work changes nothing of what has been completed.
LEMMA PerformCalls ==
  ASSUME CallbackInv, UpdatesInv', PerformUnitOfWork
  PROVE  CallbackInv'
<1> DEFINE n      == work.unit
           side   == SideIn(fiber, Other(current))[n]
           spawns == Kids[n] # <<>> /\ fiber'[n][side].kids # fiber[n][side].kids
           frame  == [Head(stack) EXCEPT !.at = "completeUnitOfWork"]
<1>1. /\ ScreenInv /\ Lists /\ LoopTyped /\ Alive(fiber) /\ CallStack /\ fiber \in FiberTrees
      /\ current \in Sides /\ At("workLoop") /\ work.busy /\ n \in Node /\ n # None
      /\ {"busy", "unit", "time", "effects"} \subseteq DOMAIN work /\ work.effects \in Seq(Node)
  BY DEF CallbackInv, UpdatesInv, ScreenInv, CallStack, PerformUnitOfWork, Lists, UpdatesTyped,
         LoopTyped, FinishedInv
<1>2. /\ BeginWork(n, side, work.time) /\ UNCHANGED <<level, called, current, root>>
      /\ IF spawns THEN work' = [work EXCEPT !.unit = Head(Kids[n])] /\ stack' = stack
                   ELSE stack' = <<frame>> \o Tail(stack) /\ work' = work
  BY DEF PerformUnitOfWork, BeginWork, Goto
<1>3. Untouched(fiber, current, n)
  BY <1>1 DEF ScreenInv, CursorUntouched, At
<1>4. side = Own[n] /\ side \in Sides /\ fiber[n][side].exists
  <2>1. \A m \in Node : Own[m] \in Sides /\ fiber[m][Own[m]].exists
    BY <1>1, Others, OwnFibers DEF Own
  <2> QED BY <1>1, <2>1 DEF Own
<1> HIDE DEF n, side, spawns
<1>5. PICK h \in FiberTrees : BegunFrom(h, n, side, work.time)
  BY <1>1, <1>2, <1>4, BeginSides
<1>6. Live /\ MadeUpdates' = MadeUpdates /\ NoCalls
  BY <1>1, <1>2 DEF Live, MadeUpdates, NoCalls
<1>7. EffectsOK' /\ SidesBegun(h, n, side)
  BY <1>1, <1>2, <1>3, <1>4, <1>5, <1>6, BeginEffects DEF CallbackInv
<1>8. PropsMade'
  BY <1>1, <1>2, <1>4, <1>5, BeginProps DEF CallbackInv, UpdatesInv
<1>9. /\ work'.busy /\ work'.effects = work.effects /\ (~spawns => work'.unit = n)
      /\ (spawns => work'.unit = Head(Kids[n]) /\ Kids[n] # <<>>)
  BY <1>1, <1>2 DEF n, spawns
<1>10. EffectListOK'
  <2> SUFFICES ASSUME NEW m \in Range(work.effects)
               PROVE  /\ Own'[m] # Side'[m] /\ fiber'[m][Own'[m]].effect
                      /\ work'.unit # None => m \notin Unfinished(work'.unit)
    BY <1>1, <1>6, <1>9 DEF CallbackInv, EffectListOK, Apart, Unfinished
  <2>1. Apart(m) /\ fiber[m][Own[m]].effect /\ m \notin Unfinished(n) /\ m \in Node
    BY <1>1, <1>6 DEF CallbackInv, EffectListOK, Range, n
  <2>2. m # n /\ m \notin Range(Kids[n])
    <3>1. n \in Unfinished(n)
      BY <1>1, AboveNodes DEF Unfinished
    <3>2. CASE Kids[n] = <<>>
      BY <2>1, <3>1, <3>2 DEF Range
    <3>3. CASE Kids[n] # <<>>
      BY <1>1, <2>1, <3>3, UnfinishedDown
    <3> QED BY <3>2, <3>3
  <2>3. Own'[m] = Own[m] /\ fiber'[m] = fiber[m] /\ Side' = Side
    BY <1>7, <2>1, <2>2 DEF SidesBegun
  <2>4. m \notin Unfinished(work'.unit)
    <3>1. CASE spawns
      BY <1>1, <1>9, <2>1, <3>1, UnfinishedDown
    <3>2. CASE ~spawns
      BY <1>9, <2>1, <3>2
    <3> QED BY <3>1, <3>2
  <2> QED BY <2>1, <2>3, <2>4 DEF Apart
<1>11. stack # <<>> /\ "at" \in DOMAIN Head(stack) /\ Head(stack).at = "workLoop"
  BY <1>1 DEF CallStack, At
<1>12. ~spawns => Head(stack').at = "completeUnitOfWork"
  <2>1. "at" \in DOMAIN frame /\ frame.at = "completeUnitOfWork"
    BY <1>11
  <2>2. Quiet(Tail(stack))
    BY <1>1, <1>11 DEF CallStack
  <2> HIDE DEF frame
  <2> QED BY <1>2, <2>1, <2>2, OnTop
<1>13. LayoutOK'
  BY <1>2, <1>11, <1>12 DEF LayoutOK, At
<1>14. UnitOK'
  <2>1. CASE spawns
    <3>1. ~At("completeUnitOfWork")'
      BY <1>2, <1>11, <2>1 DEF At
    <3>2. ScreenInv'
      BY DEF UpdatesInv
    <3> QED BY <3>1, <3>2, UnitIsApart, PTL
  <2>2. CASE ~spawns
    <3>1. Own'[n] = Own[n] /\ Side' = Side /\ Own[n] # Side[n]
      BY <1>3, <1>4, <1>7 DEF SidesBegun, Untouched, Own, Side
    <3> QED BY <1>9, <2>2, <3>1 DEF UnitOK, Apart
  <2> QED BY <2>1, <2>2
<1>15. CalledOnce'
  BY <1>1, <1>6, CallsStayOnce DEF CallbackInv
<1> QED BY <1>7, <1>8, <1>10, <1>13, <1>14, <1>15 DEF CallbackInv

\* A fresh stack has no fiber of its own but the root's, which has no effect.
LEMMA FreshSides ==
  ASSUME ScreenInv, fiber \in FiberTrees, current' = current,
         fiber' = WorkInProgress(fiber, Root, current)
  PROVE  /\ Side' = Side /\ \A n \in Node : Apart(n)' => n = Root
         /\ ~fiber'[Root][Own'[Root]].effect
         /\ \A n \in Node, s \in Sides : \E t \in Sides : fiber'[n][s].props = fiber[n][t].props
<1> DEFINE g == WorkInProgress(fiber, Root, current)
           W == [n \in Node |-> IF n = Root THEN Other(current) ELSE Side[n]]
<1>1. /\ AreFibers(fiber) /\ current \in Sides /\ Other(current) \in Sides
      /\ Other(current) # current /\ Root \in Node
      /\ Wired(fiber, current, Side) /\ \A m \in Node : Side[m] \in Sides
  BY TwoTrees, TreeAssumption, Others
<1>2. /\ g \in FiberTrees /\ AreFibers(g)
      /\ CopyOf(g[Root][Other(current)], fiber[Root][current])
      /\ g[Root][Other(current)].props = fiber[Root][current].props
      /\ \A m \in Node, s \in Sides : (m # Root \/ s # Other(current)) => g[m][s] = fiber[m][s]
  BY <1>1, CopiedInTree, TreesAreFibers
<1> HIDE DEF g
<1>3. Side' = SideIn(g, current) /\ Own' = SideIn(g, Other(current)) /\ fiber' = g
  BY DEF Side, Own, g
<1>4. SideIn(g, current) = Side
  <2>1. \A m \in Node : g[m][Side[m]] = fiber[m][Side[m]]
    <3>1. Side[Root] = current
      BY <1>1 DEF Wired
    <3> QED BY <1>1, <1>2, <3>1
  <2> QED BY <1>1, <1>2, <2>1, SameSides DEF Side
<1>5. W \in [Node -> Sides] /\ W[Root] = Other(current) /\ \A n \in Children : W[n] = Side[n]
  BY <1>1, TreeParent
<1>6. ASSUME NEW n \in Children PROVE W[n] = g[Parent[n]][W[Parent[n]]].kids
  <2>1. /\ n \in Node /\ Parent[n] \in Node
        /\ Side[n] = fiber[Parent[n]][Side[Parent[n]]].kids
    BY <1>1, TreeParent DEF Wired
  <2>2. CASE Parent[n] = Root
    BY <1>1, <1>2, <1>5, <2>1, <2>2 DEF Wired, CopyOf
  <2>3. CASE Parent[n] # Root
    <3>1. Parent[n] \in Children
      BY <2>1, <2>3 DEF Children
    <3>2. W[Parent[n]] = Side[Parent[n]]
      BY <1>5, <3>1
    <3> HIDE DEF W
    <3> QED BY <1>1, <1>2, <1>5, <2>1, <2>3, <3>2
  <2> QED BY <2>2, <2>3
<1> HIDE DEF W
<1>7. Own' = W
  BY <1>1, <1>2, <1>3, <1>5, <1>6, WiredIsSides DEF Wired
<1>8. \A n \in Node : Apart(n)' => n = Root
  BY <1>3, <1>4, <1>5, <1>7 DEF Apart, Children
<1>9. ~fiber'[Root][Own'[Root]].effect
  BY <1>2, <1>3, <1>5, <1>7 DEF CopyOf
<1>10. \A n \in Node, s \in Sides : \E t \in Sides : fiber'[n][s].props = fiber[n][t].props
  <2> TAKE n \in Node, s \in Sides
  <2>1. CASE n = Root /\ s = Other(current)
    BY <1>1, <1>2, <1>3, <2>1
  <2>2. CASE n # Root \/ s # Other(current)
    BY <1>2, <1>3, <2>2
  <2> QED BY <2>1, <2>2
<1> QED BY <1>3, <1>4, <1>8, <1>9, <1>10

\* A render that goes on keeps its tree; one that begins has collected nothing.
LEMMA PrepareCalls ==
  ASSUME CallbackInv, UpdatesInv', Prepare
  PROVE  CallbackInv'
<1> DEFINE frame == Head(stack)
           loop  == [frame EXCEPT !.at = "workLoop"]
<1>1. /\ ScreenInv /\ Lists /\ FinishedInv /\ CallStack /\ fiber \in FiberTrees
      /\ At("prepare") /\ PrepareStack(frame.todo)
      /\ UNCHANGED <<level, called, queues, current>>
  BY DEF CallbackInv, UpdatesInv, ScreenInv, Lists, UpdatesTyped, Prepare
<1>2. stack # <<>> /\ Quiet(Tail(stack)) /\ "at" \in DOMAIN frame
  BY <1>1, Elsewhere
<1>3. Quiet(stack') \/ stack' = <<loop>> \o Tail(stack)
  <2>1. ReturnContinuation(now) \/ stack' = <<loop>> \o Tail(stack)
    BY DEF Prepare, Goto
  <2> QED BY <2>1, <1>1, <1>2, ContinuationIsQuiet
<1>4. "at" \in DOMAIN loop /\ loop.at = "workLoop"
  BY <1>2
<1> HIDE DEF loop, frame
<1>5. ~At("layout")' /\ ~At("completeUnitOfWork")'
  <2>1. CASE Quiet(stack')
    BY <2>1, QuietCallStack
  <2>2. CASE stack' = <<loop>> \o Tail(stack)
    <3>1. Head(stack') = loop
      BY <2>2, <1>2, OnTop
    <3> QED BY <3>1, <1>4 DEF At
  <2> QED BY <1>3, <2>1, <2>2
<1>6. NoCalls /\ MadeUpdates' = MadeUpdates
  BY <1>1 DEF NoCalls, MadeUpdates
<1>7. UnitOK'
  <2>1. ScreenInv'
    BY DEF UpdatesInv
  <2> QED BY <1>5, <2>1, UnitIsApart, PTL
<1>8. LayoutOK' /\ CalledOnce'
  BY <1>1, <1>5, <1>6, CallsStayOnce DEF CallbackInv, LayoutOK
<1>9. CASE UNCHANGED <<fiber, work, root>>
  <2>1. Own' = Own /\ Side' = Side /\ Live' = Live
    BY <1>1, <1>9 DEF Own, Side, Live
  <2>2. /\ \A n : Apart(n)' <=> Apart(n)
        /\ \A u, n, z : Callable(u, n, z)' <=> Callable(u, n, z)
    BY <1>1, <1>6, <2>1 DEF Apart, Callable
  <2>3. EffectsOK' /\ EffectListOK'
    BY <1>1, <1>9, <2>1, <2>2 DEF CallbackInv, EffectsOK, EffectListOK, Effective, Unfinished
  <2>4. PropsMade'
    BY <1>6, <1>9 DEF CallbackInv, PropsMade
  <2> QED BY <1>7, <1>8, <2>3, <2>4 DEF CallbackInv
<1>10. CASE /\ fiber' = WorkInProgress(fiber, Root, current)
            /\ work' = [busy |-> TRUE, unit |-> Root, time |-> frame.todo, effects |-> <<>>]
  <2>1. /\ \A n \in Node : Apart(n)' => n = Root
        /\ ~fiber'[Root][Own'[Root]].effect
        /\ \A n \in Node, s \in Sides : \E t \in Sides : fiber'[n][s].props = fiber[n][t].props
    BY <1>1, <1>10, FreshSides
  <2>2. EffectsOK'
    BY <2>1 DEF EffectsOK
  <2>3. EffectListOK'
    <3>1. IsInjective(<<>>) /\ Range(<<>>) = {}
      BY DEF IsInjective, Range
    <3> QED BY <1>10, <3>1 DEF EffectListOK
  <2>4. PropsMade'
    BY <1>6, <2>1 DEF CallbackInv, PropsMade
  <2> QED BY <1>7, <1>8, <2>2, <2>3, <2>4 DEF CallbackInv
<1> QED BY <1>1, <1>9, <1>10 DEF PrepareStack

\* Lists without duplicates that have nothing in common, one after the other.
LEMMA FlattenedApart ==
  ASSUME NEW U, NEW seqs \in Seq(Seq(U)),
         \A i \in 1 .. Len(seqs) : IsInjective(seqs[i]),
         \A i, j \in 1 .. Len(seqs) : i # j => Range(seqs[i]) \cap Range(seqs[j]) = {}
  PROVE  /\ FlattenSeq(seqs) \in Seq(U) /\ IsInjective(FlattenSeq(seqs))
         /\ \A u \in Range(FlattenSeq(seqs)) : \E i \in 1 .. Len(seqs) : u \in Range(seqs[i])
<1> DEFINE N == Len(seqs)
<1>1. N \in Nat /\ \A i \in 1 .. N : seqs[i] \in Seq(U)
  OBVIOUS
<1>2. PICK f : /\ InTurn(f, N, <<>>, Seq(U)) /\ f[N] = FlattenSeq(seqs)
               /\ \A i \in 1 .. N : f[i] = f[i - 1] \o seqs[i]
  BY FlattenedInTurn
<1> DEFINE Good == { i \in 0 .. N : /\ IsInjective(f[i])
                                    /\ \A u \in Range(f[i]) : \E j \in 1 .. i : u \in Range(seqs[j]) }
<1>3. 0 \in Good
  <2>1. IsInjective(<<>>) /\ Range(<<>>) = {}
    BY DEF IsInjective, Range
  <2>2. f[0] = <<>> /\ 0 \in 0 .. N
    BY <1>1, <1>2 DEF InTurn
  <2> QED BY <2>1, <2>2
<1>4. ASSUME NEW i \in 1 .. N, i - 1 \in Good PROVE i \in Good
  <2>1. /\ i - 1 \in 0 .. N /\ i \in 0 .. N /\ f[i - 1] \in Seq(U) /\ seqs[i] \in Seq(U)
        /\ f[i] = f[i - 1] \o seqs[i]
        /\ \A j \in 1 .. i - 1 : j \in 1 .. N /\ j \in 1 .. i /\ j # i
    <3>1. /\ i - 1 \in 0 .. N /\ i \in 0 .. N
          /\ \A j \in 1 .. i - 1 : j \in 1 .. N /\ j \in 1 .. i /\ j # i
      BY <1>1
    <3>2. f[i - 1] \in Seq(U)
      BY <1>2, <3>1 DEF InTurn
    <3>3. seqs[i] \in Seq(U) /\ f[i] = f[i - 1] \o seqs[i]
      BY <1>1, <1>2
    <3> QED BY <3>1, <3>2, <3>3
  <2>2. /\ IsInjective(f[i - 1])
        /\ \A u \in Range(f[i - 1]) : \E j \in 1 .. i - 1 : u \in Range(seqs[j])
    BY <1>4
  <2>3. Range(f[i - 1]) \cap Range(seqs[i]) = {}
    BY <2>1, <2>2
  <2>4. IsInjective(f[i]) /\ Range(f[i]) = Range(f[i - 1]) \cup Range(seqs[i])
    <3> DEFINE s == f[i - 1]
               w == seqs[i]
    <3>1. /\ s \in Seq(U) /\ w \in Seq(U) /\ IsInjective(s) /\ IsInjective(w)
          /\ Range(s) \cap Range(w) = {} /\ f[i] = s \o w
      BY <2>1, <2>2, <2>3
    <3> HIDE DEF s, w
    <3>2. IsInjective(s \o w) /\ Range(s \o w) = Range(s) \cup Range(w)
      BY <3>1, JoinedLists
    <3>3. IsInjective(f[i]) /\ Range(f[i]) = Range(s) \cup Range(w)
      BY <3>1, <3>2, Zenon
    <3> QED BY <3>3 DEF s, w
  <2>5. i \in 1 .. i
    BY <1>1
  <2>6. \A u \in Range(f[i]) : \E j \in 1 .. i : u \in Range(seqs[j])
    BY <2>1, <2>2, <2>4, <2>5
  <2> QED BY <2>1, <2>4, <2>6
<1> HIDE DEF Good
<1>5. N \in Good
  <2>1. 0 .. N \subseteq Good
    BY <1>1, <1>3, <1>4, UpTo
  <2>2. N \in 0 .. N
    BY <1>1
  <2> QED BY <2>1, <2>2
<1>6. FlattenSeq(seqs) \in Seq(U)
  BY FlattenedList
<1> QED BY <1>2, <1>5, <1>6 DEF Good

\* A commit takes the callbacks that the render collected; each is of an update that the
\* tree now on the screen has.
LEMMA CommitCalls ==
  ASSUME CallbackInv, UpdatesInv', CommitTree
  PROVE  CallbackInv'
<1> DEFINE N     == Len(work.effects)
           side  == SideIn(fiber, root.finishedWork)
           lists == [i \in DOMAIN work.effects |->
                       CallbacksOf(work.effects[i], side[work.effects[i]])]
           callbacks == FlattenSeq(lists)
           effects   == Those(work.effects, Functions)
           frame == [Head(stack) EXCEPT !.at = "layout", !.callbacks = callbacks,
                                        !.effects = effects]
<1>1. /\ ScreenInv /\ Lists /\ LoopTyped /\ UpdatesTyped /\ FinishedInv /\ fiber \in FiberTrees
      /\ At("commit") /\ stack # <<>> /\ root.finishedWork = Other(current)
      /\ root.finishedWork # 0 /\ work.effects \in Seq(Node) /\ Framed(stack)
  BY DEF CallbackInv, UpdatesInv, ScreenInv, FinishedInv, Lists, UpdatesTyped, LoopTyped,
         CommitTree, At
<1>2. side = Own /\ \A n \in Node : Own[n] \in Sides
  BY <1>1, TwoTrees DEF Own
<1>3. /\ stack' = <<frame>> \o Tail(stack)
      /\ work' = [busy |-> FALSE, unit |-> None, effects |-> <<>>,
                  time |-> IF work.busy THEN NoWork ELSE work.time]
      /\ root'.finishedWork = 0 /\ current' = root.finishedWork
      /\ UNCHANGED <<level, called, fiber>>
  BY DEF CommitTree, Goto, RootCommitted
<1>4. ~Live' /\ Side' = Own /\ NoCalls /\ MadeUpdates' = MadeUpdates
  BY <1>1, <1>3 DEF Live, Side, Own, NoCalls, MadeUpdates
<1>5. \A i \in 1 .. N : work.effects[i] \in Node
  BY <1>1
<1>6. N \in Nat /\ DOMAIN work.effects = 1 .. N
  BY <1>1
<1>7. ASSUME NEW i \in 1 .. N
      PROVE  LET n == work.effects[i]
             IN  /\ CallbacksOf(n, side[n]) \in Seq(Update) /\ IsInjective(CallbacksOf(n, side[n]))
                 /\ \A u \in Range(CallbacksOf(n, side[n])) : Callable(u, n, fiber[n][Own[n]].state)
  <2> DEFINE n == work.effects[i]
  <2>1. n \in Node /\ n \in Range(work.effects)
    BY <1>5, <1>6 DEF Range
  <2> HIDE DEF n, side
  <2>2. Apart(n) /\ fiber[n][Own[n]].effect
    BY <1>1, <2>1 DEF CallbackInv, EffectListOK, Live
  <2>3. IsInjective(<<>>) /\ Range(<<>>) = {}
    BY DEF IsInjective, Range
  <2>4. CASE n \in Functions \/ fiber[n][side[n]].queue = 0
    <3>1. CallbacksOf(n, side[n]) = <<>>
      BY <2>4 DEF CallbacksOf
    <3>2. <<>> \in Seq(Update)
      OBVIOUS
    <3> QED BY <2>3, <3>1, <3>2 DEF n
  <2>5. CASE n \notin Functions /\ fiber[n][side[n]].queue # 0
    <3>1. Effective(n, fiber[n][Own[n]])
      BY <1>1, <2>1, <2>2, <2>5 DEF CallbackInv, EffectsOK, Live
    <3>2. CallbacksOf(n, side[n]) = queues[n][fiber[n][Own[n]].queue].effects
      BY <1>2, <2>5 DEF CallbacksOf
    <3>3. CallbacksOf(n, side[n]) \in Seq(Update)
      BY <1>1, <1>2, <2>1, CallbacksAreUpdates
    <3> QED BY <3>1, <3>2, <3>3 DEF Effective, n
  <2> QED BY <2>4, <2>5
<1> HIDE DEF side
<1>8. /\ lists \in Seq(Seq(Update)) /\ Len(lists) = N
      /\ \A i \in 1 .. N : lists[i] = CallbacksOf(work.effects[i], side[work.effects[i]])
  <2>1. \A i \in 1 .. N : lists[i] = CallbacksOf(work.effects[i], side[work.effects[i]])
    BY <1>6
  <2>2. lists \in [1 .. N -> Seq(Update)]
    BY <1>6, <1>7, Zenon
  <2> HIDE DEF lists
  <2> QED BY <1>6, <2>1, <2>2
<1> HIDE DEF lists, N
<1>9. \A i \in 1 .. N : /\ IsInjective(lists[i])
                        /\ \A u \in Range(lists[i]) :
                             Callable(u, work.effects[i], fiber[work.effects[i]][Own[work.effects[i]]].state)
  BY <1>7, <1>8
<1>10. \A i, j \in 1 .. N : i # j => Range(lists[i]) \cap Range(lists[j]) = {}
  <2> SUFFICES ASSUME NEW i \in 1 .. N, NEW j \in 1 .. N, NEW u \in Range(lists[i]),
                      u \in Range(lists[j])
               PROVE  i = j
    OBVIOUS
  <2>1. work.effects[i] = work.effects[j]
    BY <1>9 DEF Callable
  <2>2. IsInjective(work.effects)
    BY <1>1 DEF CallbackInv, EffectListOK, Live
  <2> QED BY <1>6, <2>1, <2>2 DEF IsInjective
<1>11. /\ callbacks \in Seq(Update) /\ IsInjective(callbacks)
       /\ \A u \in Range(callbacks) : \E i \in 1 .. N : u \in Range(lists[i])
  BY <1>8, <1>9, <1>10, FlattenedApart
<1> HIDE DEF callbacks, effects
<1>12. Head(stack') = frame /\ frame.callbacks = callbacks
  <2>1. "callbacks" \in DOMAIN Head(stack) /\ Quiet(Tail(stack))
    <3>1. FrameTyped(Head(stack)) /\ Head(stack).at = "commit"
      BY <1>1, FrameOnTop DEF RootPlaces
    <3>2. Quiet(Tail(stack))
      BY <1>1, Elsewhere DEF ScreenInv
    <3> QED BY <3>1, <3>2 DEF FrameTyped, RootPlaces
  <2>2. frame.callbacks = callbacks
    BY <2>1
  <2> HIDE DEF frame
  <2> QED BY <1>3, <2>1, <2>2, OnTop
<1> HIDE DEF frame
<1>13. ASSUME NEW u \in Range(callbacks)
       PROVE  called[u] = 0 /\ u \in MadeUpdates /\ Counted(u, Shown'[Owner(u)])
  <2>1. PICK i \in 1 .. N : u \in Range(lists[i])
    BY <1>11
  <2> DEFINE n == work.effects[i]
  <2>2. Callable(u, n, fiber[n][Own[n]].state) /\ n \in Node
    BY <1>5, <1>9, <2>1 DEF N
  <2>3. Shown'[n] = fiber[n][Own[n]].state
    BY <1>3, <1>4, <2>2 DEF Shown
  <2> HIDE DEF n
  <2> QED BY <2>2, <2>3 DEF Callable
<1>14. LayoutOK'
  BY <1>3, <1>4, <1>11, <1>12, <1>13 DEF LayoutOK
<1>15. EffectsOK' /\ UnitOK' /\ EffectListOK'
  BY <1>3, <1>4 DEF EffectsOK, UnitOK, EffectListOK
<1>16. CalledOnce' /\ PropsMade'
  BY <1>1, <1>3, <1>4, CallsStayOnce DEF CallbackInv, PropsMade
<1> QED BY <1>14, <1>15, <1>16 DEF CallbackInv

-----------------------------------------------------------------------------
\* enqueueUpdate keeps what was collected in the queues that it appends to.
LEMMA EffectsKept ==
  ASSUME Lists, NEW n \in Node \ Functions, NEW side \in Sides, NEW u \in Update,
         EnqueuedOnQueue(n, side, u), NEW s \in Sides, fiber[n][s].queue # 0
  PROVE  LET q == fiber[n][s].queue
         IN  QueueOf(n, s) = q /\ queues'[n][q].effects = queues[n][q].effects
<1> DEFINE q == fiber[n][s].queue
           given == [t \in Sides |-> IF fiber[n][t].queue # 0 THEN queues[n][QueueOf(n, t)]
                                    ELSE NewQueue(fiber[n][t].state)]
           P(t) == WithUpdate(given[t], u)
<1>1. queues' = [queues EXCEPT ![n] = [i \in Sides |->
        IF \E t \in Living(n) : QueueOf(n, t) = i
          THEN P(CHOOSE t \in Living(n) : QueueOf(n, t) = i) ELSE @[i]]]
  BY Zenon DEF EnqueuedOnQueue
<1>2. /\ queues \in [Node -> [Sides -> QueueSet]] /\ fiber \in FiberTrees /\ n \in Node
      /\ NodeLists(n)
  BY DEF Lists, UpdatesTyped
<1>3. q \in Sides /\ QueueOf(n, s) = q
  BY <1>2 DEF FiberTrees, FiberSet, QueueOf
<1>4. \A t \in Living(n) : t \in Sides /\ fiber[n][t].queue # 0
  <2>1. \A t \in Sides : fiber[n][t].queue = 0 <=> (History(n) = <<>> \/ ~fiber[n][t].exists)
    BY <1>2 DEF NodeLists, SideOf, ClassSide
  <2> QED BY <2>1 DEF Living
<1>5. \A t \in Living(n) : QueueOf(n, t) = q => P(t).effects = queues[n][q].effects
  <2> SUFFICES ASSUME NEW t \in Living(n), QueueOf(n, t) = q
               PROVE  P(t).effects = queues[n][q].effects
    OBVIOUS
  <2>1. given[t] = queues[n][q]
    BY <1>4
  <2>2. queues[n][q] \in QueueSet
    BY <1>2, <1>3
  <2> HIDE DEF given, q
  <2> QED BY <2>1, <2>2 DEF WithUpdate, QueueSet
<1> HIDE DEF P, q
<1>6. queues'[n][q] = IF \E t \in Living(n) : QueueOf(n, t) = q
                        THEN P(CHOOSE t \in Living(n) : QueueOf(n, t) = q) ELSE queues[n][q]
  BY <1>1, <1>2, <1>3
<1>7. queues'[n][q].effects = queues[n][q].effects
  <2>1. CASE \E t \in Living(n) : QueueOf(n, t) = q
    <3> DEFINE c == CHOOSE t \in Living(n) : QueueOf(n, t) = q
    <3>1. c \in Living(n) /\ QueueOf(n, c) = q
      BY <2>1
    <3>2. queues'[n][q] = P(c)
      BY <1>6, <2>1
    <3> HIDE DEF c
    <3> QED BY <1>5, <3>1, <3>2
  <2>2. CASE ~\E t \in Living(n) : QueueOf(n, t) = q
    BY <1>6, <2>2
  <2> QED BY <2>1, <2>2
<1> QED BY <1>3, <1>7 DEF q

\* An update that is made leaves what the trees show, and what was collected.
LEMMA UpdatesLeave ==
  ASSUME Lists, Alive(fiber), current \in Sides, current' = current, NEW u \in Update,
         NEW priority, NEW isInsideReact, NEW isDiscrete,
         ComputedExpiration(RequestedTime(isInsideReact), priority) \in Levels,
         MakeUpdate(u, priority, isInsideReact, isDiscrete)
  PROVE  /\ FibersStay /\ EffectsStay
         /\ \A n \in Node, s \in Sides : fiber'[n][s].props = fiber[n][s].props
         /\ MadeUpdates \subseteq MadeUpdates' /\ u \notin MadeUpdates
<1> DEFINE n          == Target[u]
           expiration == ComputedExpiration(RequestedTime(isInsideReact), priority)
           g          == IF n \in Functions THEN fiber ELSE WithQueues(n)
           side       == IF n = Root THEN current ELSE 1
<1>1. n \in Node /\ side \in Sides /\ expiration \in Levels
  BY WorkLoopAssumption DEF Sides
<1>2. UpdatesTyped /\ fiber \in FiberTrees
  BY DEF Lists, UpdatesTyped
<1>3. /\ level[u] = NotMade /\ level' = [level EXCEPT ![u] = expiration]
      /\ IF n \in Functions THEN EnqueuedOnHook(n, u) ELSE EnqueuedOnQueue(n, side, u)
  BY DEF MakeUpdate
<1>4. (fiber' = fiber /\ n \in Functions) \/ fiber' = Marked(g, n, expiration)
  BY DEF MakeUpdate, EagerlySame, ScheduleUpdate
<1> HIDE DEF n, expiration, side
<1>5. g \in FiberTrees /\ Steady(g, fiber')
  <2>1. g \in FiberTrees
    BY <1>1, <1>2, QueuesAreReferred
  <2> HIDE DEF g
  <2>2. CASE fiber' = Marked(g, n, expiration)
    BY <1>1, <2>1, <2>2, MarkedIsSteady
  <2>3. CASE fiber' = fiber /\ n \in Functions
    BY <2>1, <2>3, SteadyItself DEF g
  <2> QED BY <1>4, <2>1, <2>2, <2>3
<1>6. \A m \in Node, s \in Sides :
        LET x == fiber[m][s]
            y == g[m][s]
        IN  /\ y.kids = x.kids /\ y.state = x.state /\ y.effect = x.effect /\ y.props = x.props
            /\ (y.queue = x.queue \/ (m = n /\ y.queue = QueueOf(n, s)))
  <2>1. CASE n \in Functions
    BY <2>1
  <2>2. CASE n \notin Functions
    <3>1. \A m \in Node, s \in Sides : m # n => g[m][s] = fiber[m][s]
      BY <1>1, <1>2, <2>2, QueuesAreReferred
    <3>2. \A s \in Sides :
            LET x == fiber[n][s]
                y == g[n][s]
            IN  /\ y.kids = x.kids /\ y.state = x.state /\ y.effect = x.effect /\ y.props = x.props
                /\ (y.queue = x.queue \/ y.queue = QueueOf(n, s))
      BY <1>1, <1>2, <2>2, QueuesAreReferred
    <3> HIDE DEF g
    <3> QED BY <3>1, <3>2
  <2> QED BY <2>1, <2>2
<1> HIDE DEF g
<1>7. fiber' \in FiberTrees /\ \A m \in Node, s \in Sides : SameFiber(fiber'[m][s], g[m][s])
  BY <1>5 DEF Steady
<1>8. FibersStay /\ \A m \in Node, s \in Sides : fiber'[m][s].props = fiber[m][s].props
  BY <1>6, <1>7 DEF FibersStay, SameFiber, SameLists
<1>9. EffectsStay
  <2> SUFFICES ASSUME NEW m \in Node \ Functions, NEW s \in Sides, fiber[m][s].queue # 0
               PROVE  /\ fiber'[m][s].queue = fiber[m][s].queue
                      /\ queues'[m][fiber[m][s].queue].effects = queues[m][fiber[m][s].queue].effects
    BY DEF EffectsStay
  <2>1. fiber'[m][s].queue = g[m][s].queue
    BY <1>7 DEF SameFiber, SameLists
  <2>2. CASE m = n
    <3>1. /\ QueueOf(n, s) = fiber[n][s].queue
          /\ queues'[n][fiber[n][s].queue].effects = queues[n][fiber[n][s].queue].effects
      BY <1>1, <1>3, <2>2, EffectsKept
    <3> QED BY <1>6, <2>1, <2>2, <3>1
  <2>3. CASE m # n
    <3>1. queues'[m] = queues[m]
      <4>1. CASE n \in Functions
        BY <1>3, <4>1 DEF EnqueuedOnHook
      <4>2. CASE n \notin Functions
        BY <1>2, <1>3, <2>3, <4>2, Zenon DEF EnqueuedOnQueue, UpdatesTyped
      <4> QED BY <4>1, <4>2
    <3> QED BY <1>6, <2>1, <2>3, <3>1
  <2> QED BY <2>2, <2>3
<1>10. MadeUpdates \subseteq MadeUpdates' /\ u \notin MadeUpdates
  BY <1>2, <1>3 DEF MadeUpdates, UpdatesTyped
<1> QED BY <1>8, <1>9, <1>10

\* An update that an event or a passive effect makes.
LEMMA UpdateCalls ==
  ASSUME CallbackInv, UpdatesInv', Stays, ~At("layout")', called' = called,
         NEW u, NEW priority, NEW isInsideReact, NEW isDiscrete,
         MakesUpdate(u, priority, isInsideReact, isDiscrete)
  PROVE  CallbackInv'
<1>1. /\ ScreenInv /\ Lists /\ LoopTyped /\ Alive(fiber) /\ FinishedInv /\ current \in Sides
      /\ DOMAIN root = RootFields /\ work.effects \in Seq(Node)
  BY DEF CallbackInv, UpdatesInv, ScreenInv, FinishedInv, LoopTyped
<1>2. /\ current' = current /\ work' = work /\ root'.finishedWork = root.finishedWork
      /\ ~At("completeUnitOfWork")'
  BY DEF Stays
<1>3. /\ FibersStay /\ EffectsStay
      /\ \A n \in Node, s \in Sides : fiber'[n][s].props = fiber[n][s].props
      /\ NoCalls
  <2>1. u \in Update /\ priority \in Priorities /\ MakeUpdate(u, priority, isInsideReact, isDiscrete)
    BY DEF MakesUpdate
  <2>2. ComputedExpiration(RequestedTime(isInsideReact), priority) \in Levels
    BY <1>1, <2>1, UpdateTyped
  <2> QED BY <1>1, <1>2, <2>1, <2>2, UpdatesLeave DEF NoCalls
<1>4. Live' => Live
  BY <1>2 DEF Live
<1>5. EffectsOK' /\ EffectListOK'
  BY <1>1, <1>2, <1>3, <1>4, TreesKeepEffects, TreesKeepList DEF CallbackInv
<1>6. UnitOK'
  <2>1. ScreenInv'
    BY DEF UpdatesInv
  <2> QED BY <1>2, <2>1, UnitIsApart, PTL
<1>7. LayoutOK' /\ CalledOnce' /\ PropsMade'
  BY <1>1, <1>3, CallsStayOnce, PropsStay DEF CallbackInv, LayoutOK, NoCalls
<1> QED BY <1>5, <1>6, <1>7 DEF CallbackInv

\* Events and passive effects.
LEMMA MakingCalls ==
  ASSUME CallbackInv, UpdatesInv', (\E u \in Update : EventUpdate(u)) \/ RunPassiveEffect
  PROVE  CallbackInv'
<1>1. /\ ScreenInv /\ Lists /\ LoopTyped /\ fiber \in FiberTrees /\ current \in Sides
  BY DEF CallbackInv, UpdatesInv, ScreenInv, FinishedInv, Lists, UpdatesTyped
<1>2. Stays
  BY <1>1, UpdatesStay
<1>3. ~At("layout")'
  <2>1. ~CallCallback
    BY DEF EventUpdate, RunPassiveEffect, CallCallback, At
  <2> QED BY <1>2, <2>1 DEF Stays
<1>4. CASE \E u \in Update : EventUpdate(u)
  <2>1. PICK u \in Update : EventUpdate(u)
    BY <1>4
  <2>2. called' = called
    BY <2>1 DEF EventUpdate
  <2>3. MakesUpdate(u, PriorityIn(Event[u]), FALSE, Event[u] = "discrete")
    BY <1>1, <2>1, EventUpdateMakes
  <2> QED BY <1>2, <1>3, <2>2, <2>3, UpdateCalls
<1>5. CASE RunPassiveEffect
  <2>1. \/ \E u \in Update, priority \in Priorities : MakesUpdate(u, priority, TRUE, FALSE)
        \/ UNCHANGED <<treeVars, root, tasks, syncQueue, discrete, currentEventTime, made>>
    BY <1>1, <1>5, PassiveEffectMakes
  <2>2. CASE \E u \in Update, priority \in Priorities : MakesUpdate(u, priority, TRUE, FALSE)
    <3>1. called' = called
      BY <1>5 DEF RunPassiveEffect, treeVars
    <3> QED BY <1>2, <1>3, <2>2, <3>1, UpdateCalls
  <2>3. CASE UNCHANGED <<treeVars, root, tasks, syncQueue, discrete, currentEventTime, made>>
    BY <1>2, <1>3, <2>3, UntouchedCalls DEF Stays
  <2> QED BY <2>1, <2>2, <2>3
<1> QED BY <1>4, <1>5

\* What is left of a list without duplicates when its first has been taken.
LEMMA RestOfList ==
  ASSUME NEW U, NEW s \in Seq(U), s # <<>>, IsInjective(s)
  PROVE  /\ IsInjective(Tail(s)) /\ Head(s) \in Range(s) /\ Head(s) \in U
         /\ \A x \in Range(Tail(s)) : x \in Range(s) /\ x # Head(s)
<1> DEFINE t == Tail(s)
<1>1. /\ Len(s) \in Nat /\ Len(s) >= 1 /\ DOMAIN s = 1 .. Len(s) /\ DOMAIN t = 1 .. Len(s) - 1
      /\ \A i \in 1 .. Len(s) - 1 : t[i] = s[i + 1]
      /\ Head(s) = s[1] /\ Head(s) \in U
  OBVIOUS
<1> HIDE DEF t
<1>2. \A i \in 1 .. Len(s) - 1 : i + 1 \in 1 .. Len(s) /\ i + 1 # 1
  BY <1>1
<1>3. IsInjective(t)
  <2> SUFFICES ASSUME NEW i \in 1 .. Len(s) - 1, NEW j \in 1 .. Len(s) - 1, t[i] = t[j]
               PROVE  i = j
    BY <1>1 DEF IsInjective
  <2>1. i + 1 = j + 1
    BY <1>1, <1>2 DEF IsInjective
  <2> QED BY <1>1, <2>1
<1>4. 1 \in DOMAIN s
  BY <1>1
<1>5. \A i \in 1 .. Len(s) - 1 : t[i] \in Range(s) /\ t[i] # s[1]
  BY <1>1, <1>2, <1>4 DEF IsInjective, Range
<1>6. s[1] \in Range(s)
  BY <1>4 DEF Range
<1> QED BY <1>1, <1>3, <1>5, <1>6 DEF Range, t

\* A callback is called; what it makes is not among those that are to be called.
LEMMA CallbackCalls ==
  ASSUME CallbackInv, UpdatesInv', CallCallback
  PROVE  CallbackInv'
<1> DEFINE callbacks == Head(stack).callbacks
           u     == Head(callbacks)
           frame == [Head(stack) EXCEPT !.callbacks = Tail(callbacks)]
<1>1. /\ ScreenInv /\ Lists /\ LoopTyped /\ Alive(fiber) /\ FinishedInv /\ current \in Sides
      /\ DOMAIN root = RootFields /\ fiber \in FiberTrees /\ called \in [Update -> 0 .. 1]
      /\ At("layout") /\ callbacks # <<>> /\ stack # <<>>
  BY DEF CallbackInv, UpdatesInv, ScreenInv, FinishedInv, Lists, UpdatesTyped, CalledOnce,
         CallCallback, At
<1>2. FrameTyped(Head(stack)) /\ callbacks \in Seq(Update) /\ "callbacks" \in DOMAIN Head(stack)
  BY <1>1, FrameOnTop DEF LoopTyped, FrameTyped, RootPlaces
<1>3. /\ ~Live /\ IsInjective(callbacks)
      /\ \A v \in Range(callbacks) :
           called[v] = 0 /\ v \in MadeUpdates /\ Counted(v, Shown[Owner(v)])
  BY <1>1 DEF CallbackInv, LayoutOK
<1> HIDE DEF callbacks
<1>4. /\ IsInjective(Tail(callbacks)) /\ u \in Range(callbacks) /\ u \in Update
      /\ \A v \in Range(Tail(callbacks)) : v \in Range(callbacks) /\ v # u
  BY <1>1, <1>2, <1>3, RestOfList
<1>5. /\ called' = [called EXCEPT ![u] = @ + 1] /\ stack' = <<frame>> \o Tail(stack)
      /\ current' = current /\ work' = work
  BY DEF CallCallback, Goto, callbacks
<1> HIDE DEF u
<1>6. Stays /\ Shown' = Shown
  BY <1>1, UpdatesStay, ShownStays
<1>7. /\ MadeUpdates \subseteq MadeUpdates'
      /\ \A n \in Node, s \in Sides : fiber'[n][s].props = fiber[n][s].props
  <2>1. \/ \E v \in Update : MakesUpdate(v, "immediate", TRUE, FALSE)
        \/ UNCHANGED <<level, next, eager, fiber, queues, hooks, root, tasks,
                       syncQueue, discrete, currentEventTime, made>>
    BY <1>1, CallbackMakes
  <2>2. CASE \E v \in Update : MakesUpdate(v, "immediate", TRUE, FALSE)
    <3>1. PICK v \in Update : MakesUpdate(v, "immediate", TRUE, FALSE)
      BY <2>2
    <3>2. "immediate" \in Priorities /\ MakeUpdate(v, "immediate", TRUE, FALSE)
      BY <3>1 DEF MakesUpdate
    <3>3. ComputedExpiration(RequestedTime(TRUE), "immediate") \in Levels
      BY <1>1, <3>2, UpdateTyped
    <3> QED BY <1>1, <1>5, <3>2, <3>3, UpdatesLeave
  <2>3. CASE UNCHANGED <<level, fiber>>
    BY <2>3 DEF MadeUpdates
  <2> QED BY <2>1, <2>2, <2>3
<1>8. ~Live'
  BY <1>3, <1>6 DEF Live, Stays
<1>9. EffectsOK' /\ UnitOK' /\ EffectListOK'
  BY <1>8 DEF EffectsOK, UnitOK, EffectListOK, Live
<1>10. PropsMade'
  BY <1>7, PropsStay DEF CallbackInv
<1>11. called[u] = 0 /\ u \in MadeUpdates
  BY <1>3, <1>4
<1>12. called' \in [Update -> 0 .. 1] /\ \A v \in Update : v # u => called'[v] = called[v]
  BY <1>1, <1>4, <1>5, <1>11
<1>13. CalledOnce'
  BY <1>7, <1>11, <1>12 DEF CallbackInv, CalledOnce, MadeUpdates
<1>14. LayoutOK'
  <2>1. Quiet(Tail(stack)) /\ frame.callbacks = Tail(callbacks)
    BY <1>1, <1>2, Elsewhere DEF ScreenInv
  <2> HIDE DEF frame
  <2>2. Head(stack') = frame
    BY <1>5, <2>1, OnTop
  <2>3. \A v \in Range(Tail(callbacks)) :
          called'[v] = 0 /\ v \in MadeUpdates' /\ Counted(v, Shown'[Owner(v)])
    <3>1. Range(callbacks) \subseteq Update
      BY <1>2 DEF Range
    <3> QED BY <1>3, <1>4, <1>6, <1>7, <1>12, <3>1
  <2> QED BY <1>4, <1>8, <2>1, <2>2, <2>3 DEF LayoutOK
<1> QED BY <1>9, <1>10, <1>13, <1>14 DEF CallbackInv

-----------------------------------------------------------------------------
\* Every step.
LEMMA CallbackStep == CallbackInv /\ [Next]_vars => CallbackInv'
<1> SUFFICES ASSUME CallbackInv, [Next]_vars PROVE CallbackInv'
  OBVIOUS
<1>1. UpdatesInv'
  BY UpdatesStep DEF CallbackInv
<1>2. CASE UNCHANGED vars
  <2>1. UNCHANGED treeVars /\ work' = work /\ root' = root /\ stack' = stack
    BY <1>2 DEF vars, loopVars
  <2>2. Own' = Own /\ Side' = Side /\ Live' = Live /\ MadeUpdates' = MadeUpdates /\ Shown' = Shown
    BY <2>1 DEF treeVars, Own, Side, Live, MadeUpdates, Shown
  <2>3. /\ \A n : Apart(n)' <=> Apart(n)
        /\ \A u, n, z : Callable(u, n, z)' <=> Callable(u, n, z)
    BY <2>1, <2>2 DEF treeVars, Apart, Callable
  <2>4. EffectsOK' /\ UnitOK' /\ EffectListOK'
    BY <2>1, <2>2, <2>3
       DEF treeVars, CallbackInv, EffectsOK, UnitOK, EffectListOK, Effective, Unfinished
  <2>5. LayoutOK' /\ CalledOnce' /\ PropsMade'
    BY <2>1, <2>2 DEF treeVars, CallbackInv, LayoutOK, At, CalledOnce, PropsMade
  <2> QED BY <1>1, <2>4, <2>5 DEF CallbackInv
<1>3. CASE Next
  BY <1>1, <1>3, CallsCalls, MakingCalls, PrepareCalls, PerformCalls, CompleteCalls, FinishCalls,
     CommitCalls, CallbackCalls DEF Next, Step
<1> QED BY <1>2, <1>3

\* Nothing has been rendered and no callback has been called.
LEMMA InitCalls == Init => CallbackInv
<1> SUFFICES ASSUME Init PROVE CallbackInv
  OBVIOUS
<1>1. UpdatesInv
  BY InitUpdates
<1>2. ~work.busy /\ root.finishedWork = 0 /\ stack = <<>>
  BY DEF Init
<1>3. called = [u \in Update |-> 0]
  BY DEF Init, TreeInit
<1>4. EffectsOK /\ UnitOK /\ EffectListOK /\ LayoutOK
  BY <1>2 DEF EffectsOK, UnitOK, EffectListOK, LayoutOK, Live, At
<1>5. CalledOnce
  BY <1>3 DEF CalledOnce
<1>6. PropsMade
  <2> SUFFICES ASSUME NEW n \in Node, NEW s \in Sides
               PROVE  Range(fiber[n][s].props) \subseteq MadeUpdates
    BY DEF PropsMade
  <2>1. fiber[n][s].props = <<>>
    <3>1. fiber = [m \in Node |-> [t \in Sides |->
                    IF m = Root THEN [Mounted EXCEPT !.queue = t]
                    ELSE IF t = 1 THEN Mounted ELSE NoFiber]]
      BY DEF Init, TreeInit
    <3>2. /\ NoFiber.props = <<>> /\ Mounted.props = <<>>
          /\ [Mounted EXCEPT !.queue = s].props = <<>>
      BY DEF NoFiber, Mounted
    <3>3. fiber[n][s] \in {NoFiber, Mounted, [Mounted EXCEPT !.queue = s]}
      BY <3>1
    <3> QED BY <3>2, <3>3
  <2> QED BY <2>1 DEF Range
<1> QED BY <1>1, <1>4, <1>5, <1>6 DEF CallbackInv

-----------------------------------------------------------------------------
\* The two queues of a component end in the same update, the last that was made.
LEMMA TailsAreShared == Lists => TailIsShared
<1> SUFFICES ASSUME Lists, NEW n \in Node \ Functions
             PROVE  LET last == { queues[n][fiber[n][s].queue].last :
                                    s \in { t \in Sides : fiber[n][t].queue # 0 } }
                    IN  Cardinality(last \ {None}) <= 1
  BY DEF TailIsShared
<1> DEFINE H    == History(n)
           last == { queues[n][fiber[n][s].queue].last :
                       s \in { t \in Sides : fiber[n][t].queue # 0 } }
           some == last \ {None}
<1>1. ASSUME NEW s \in Sides, fiber[n][s].queue # 0
      PROVE  queues[n][fiber[n][s].queue].last \in {None, H[Len(H)]}
  <2>1. QueueOver(queues[n][fiber[n][s].queue], H)
    BY <1>1 DEF Lists, NodeLists, SideOf, ClassSide
  <2> QED BY <2>1 DEF QueueOver, QueueFrom
<1>2. some \subseteq {H[Len(H)]}
  BY <1>1
<1>3. some = {} \/ some = {H[Len(H)]}
  <2> HIDE DEF some, H
  <2> QED BY <1>2
<1>4. Cardinality(some) = 0 \/ Cardinality(some) = 1
  <2> HIDE DEF some, H
  <2> QED BY <1>3, FS_EmptySet, FS_Singleton
<1> HIDE DEF some, H
<1>5. Cardinality(some) <= 1
  BY <1>4
<1> QED BY <1>5 DEF some

\* The invariant has every variable typed.
LEMMA CallbackInvTyped == CallbackInv => TypeOK
<1> SUFFICES ASSUME CallbackInv PROVE TypeOK
  OBVIOUS
<1>1. /\ ScreenInv /\ FinishedInv /\ Lists /\ UpdatesTyped /\ LoopTyped /\ RootTyped(root)
      /\ PropsMade /\ CalledOnce
  BY DEF CallbackInv, UpdatesInv, ScreenInv, Lists, LoopTyped
<1>2. /\ level \in [Update -> Levels \cup {NotMade}] /\ next \in [Update -> Update \cup {None}]
      /\ called \in [Update -> 0 .. 1] /\ current \in Sides
  BY <1>1 DEF UpdatesTyped, CalledOnce, FinishedInv
<1>3. ASSUME NEW n \in Node, NEW s \in Sides
      PROVE  LET f == fiber[n][s]
             IN  /\ {f.time, f.childTime} \subseteq Levels
                 /\ f.kids \in Sides /\ f.queue \in {0} \cup Sides
                 /\ Range(f.state) \cup Range(f.props) \cup Range(f.base) \subseteq MadeUpdates
  <2>1. fiber[n][s] \in FiberSet
    BY <1>1 DEF UpdatesTyped, FiberTrees
  <2>2. /\ Range(fiber[n][s].state) \subseteq MadeUpdates
        /\ Range(fiber[n][s].props) \subseteq MadeUpdates
        /\ Range(fiber[n][s].base) \subseteq MadeUpdates
    BY <1>1, StatesAreMade DEF StatesMade, PropsMade
  <2> QED BY <2>1, <2>2 DEF FiberSet
<1>4. {root.firstPendingTime, root.callbackExpirationTime, root.finishedExpirationTime} \subseteq Levels
  BY <1>1 DEF RootTyped
<1>5. root.finishedWork \in {0} \cup Sides
  BY <1>1, Others DEF FinishedInv
<1>6. work.unit \in Node \cup {None} /\ work.time \in Levels
  BY <1>1 DEF ScreenInv, LoopTyped
<1>7. TailIsShared
  BY <1>1, TailsAreShared
<1> QED BY <1>2, <1>3, <1>4, <1>5, <1>6, <1>7 DEF TypeOK

\* Types: every variable has its type, no callback is called twice, and the two queues of a
\* component end in the same update.
THEOREM TypesHold == Spec => []TypeOK
<1>1. Init => CallbackInv
  BY InitCalls
<1>2. CallbackInv /\ [Next]_vars => CallbackInv'
  BY CallbackStep
<1>3. CallbackInv => TypeOK
  BY CallbackInvTyped
<1> QED BY <1>1, <1>2, <1>3, PTL DEF Spec

\* What calls a callback calls it for the first time, of an update that is on the screen.
LEMMA CalledWhenShown ==
  CallbackInv /\ [Next]_vars =>
    [\A u \in WithCallback : called'[u] # called[u] => called[u] = 0 /\ IsShown(u)]_vars
<1> SUFFICES ASSUME CallbackInv, Next, NEW u \in WithCallback, called'[u] # called[u]
             PROVE  called[u] = 0 /\ IsShown(u)
  OBVIOUS
<1>1. CallCallback
  <2>1. CASE \/ \E v \in Update : EventUpdate(v)
             \/ EndEvent \/ BeginFlush \/ FlushNext \/ BeginPassiveEffects \/ RunPassiveEffect
             \/ BeginRenderRoot \/ Prepare \/ CompleteUnitOfWork \/ FinishRender
    BY <2>1 DEF EventUpdate, EndEvent, BeginFlush, FlushNext, BeginPassiveEffects, treeVars,
       RunPassiveEffect, BeginRenderRoot, Prepare, CompleteUnitOfWork, FinishRender
  <2>2. CASE \/ BeginCommit \/ CommitTree \/ CommitNothing \/ EndCommit \/ CommitReturns
             \/ \E event \in Events : BeginEvent(event)
             \/ PerformUnitOfWork \/ Yield \/ Tick
             \/ \E task \in tasks : RunTask(task)
    BY <2>2 DEF BeginCommit, CommitTree, CommitNothing, EndCommit, CommitReturns, BeginEvent,
       PerformUnitOfWork, BeginWork, Yield, Tick, RunTask, treeVars
  <2> QED BY <2>1, <2>2 DEF Next, Step
<1> DEFINE callbacks == Head(stack).callbacks
           v == Head(callbacks)
<1>2. /\ At("layout") /\ callbacks # <<>> /\ called' = [called EXCEPT ![v] = @ + 1]
      /\ called \in [Update -> 0 .. 1] /\ u \in Update
  BY <1>1, UpdateAssumption DEF CallCallback, CallbackInv, CalledOnce
<1>3. callbacks \in Seq(Update)
  BY <1>2, FrameOnTop DEF CallbackInv, UpdatesInv, LoopTyped, FrameTyped, RootPlaces
<1>4. /\ IsInjective(callbacks)
      /\ \A x \in Range(callbacks) :
           called[x] = 0 /\ x \in MadeUpdates /\ Counted(x, Shown[Owner(x)])
  BY <1>2 DEF CallbackInv, LayoutOK
<1> HIDE DEF callbacks
<1>5. v \in Range(callbacks)
  BY <1>2, <1>3, <1>4, RestOfList
<1>6. u = v
  <2> HIDE DEF v
  <2> QED BY <1>2
<1>7. called[u] = 0 /\ Counted(u, Shown[Owner(u)])
  BY <1>4, <1>5, <1>6
<1> QED BY <1>7, TreeAssumption DEF Counted, IsShown, Owner

\* Callbacks: one is called when its update is on the screen, and not again when the update
\* is rebased (commitUpdateQueue, effectTag Callback).
THEOREM CallbacksFollowCommits == Spec => CallbackAfterCommit
<1>1. Init => CallbackInv
  BY InitCalls
<1>2. CallbackInv /\ [Next]_vars => CallbackInv'
  BY CallbackStep
<1>3. CallbackInv /\ [Next]_vars =>
        [\A u \in WithCallback : called'[u] # called[u] => called[u] = 0 /\ IsShown(u)]_vars
  BY CalledWhenShown
<1> QED BY <1>1, <1>2, <1>3, PTL DEF Spec, CallbackAfterCommit

-----------------------------------------------------------------------------
\* Marks.  From here on it is about how what is still to be applied is found again.

\* A hook's update always changes the state: none leaves it alone, and none
\* replaces it, so that it could become what it was.
HooksAdd == \A u \in Update : Target[u] \in Functions => u \notin Noops \cup Replacing

\* No update has been made at the idle level or below it.
NoneIdle == \A u \in MadeUpdates : level[u] > Never

\* A state that some of the first k updates can make has none of the later ones.
LEMMA PossibleHas ==
  ASSUME NEW h \in Seq(Update), NEW k \in 0 .. Len(h), NEW x \in Possible(h)[k],
         NEW u \in Range(x)
  PROVE  \E j \in 1 .. k : u = h[j]
<1> DEFINE n == Len(h)
           Good == { i \in 0 .. n : \A y \in Possible(h)[i] : \A v \in Range(y) :
                                      \E j \in 1 .. i : v = h[j] }
<1>1. n \in Nat
  OBVIOUS
<1>2. 0 \in Good
  <2>1. Possible(h)[0] = {<<>>} /\ Range(<<>>) = {}
    BY PossibleStates DEF Range
  <2> QED BY <1>1, <2>1
<1>3. \A i \in 1 .. n : i - 1 \in Good => i \in Good
  <2> SUFFICES ASSUME NEW i \in 1 .. n, i - 1 \in Good, NEW y \in Possible(h)[i],
                      NEW v \in Range(y)
               PROVE  \E j \in 1 .. i : v = h[j]
    BY <1>1
  <2>1. Possible(h)[i] = Possible(h)[i - 1] \cup { Applied(z, h[i]) : z \in Possible(h)[i - 1] }
    BY PossibleStates
  <2>2. \A z \in Possible(h)[i - 1] : z \in Seq(Update) /\ \A w \in Range(z) : \E j \in 1 .. i : w = h[j]
    <3> SUFFICES ASSUME NEW z \in Possible(h)[i - 1]
                 PROVE  z \in Seq(Update) /\ \A w \in Range(z) : \E j \in 1 .. i : w = h[j]
      OBVIOUS
    <3>1. i - 1 \in 0 .. n
      OBVIOUS
    <3>2. z \in Seq(Update)
      BY <3>1, PossibleStates
    <3>3. \A w \in Range(z) : \E j \in 1 .. i - 1 : w = h[j]
      OBVIOUS
    <3> QED BY <3>2, <3>3
  <2>3. CASE y \in Possible(h)[i - 1]
    BY <2>2, <2>3
  <2>4. ASSUME NEW z \in Possible(h)[i - 1], y = Applied(z, h[i])
        PROVE  \E j \in 1 .. i : v = h[j]
    <3>1. y = z \/ y = <<h[i]>> \/ y = Append(z, h[i])
      BY <2>4 DEF Applied
    <3>2. z \in Seq(Update) /\ h[i] \in Update
      BY <2>2
    <3>3. v \in Range(z) \/ v = h[i]
      <4>1. CASE y = z
        BY <4>1
      <4>2. CASE y = <<h[i]>>
        BY <4>2 DEF Range
      <4>3. CASE y = Append(z, h[i])
        BY <3>2, <4>3 DEF Range
      <4> QED BY <3>1, <4>1, <4>2, <4>3
    <3> QED BY <2>2, <3>3
  <2> QED BY <2>1, <2>3, <2>4
<1> HIDE DEF Good
<1>4. 0 .. n \subseteq Good
  BY <1>1, <1>2, <1>3, UpTo
<1> QED BY <1>4 DEF Good

\* What remains is the highest of the levels that are skipped.
LEMMA RemainingIs ==
  ASSUME NEW updates, \A u \in Range(updates) : level[u] \in Levels, NEW render
  PROVE  LET remaining == Remaining(updates, render)
         IN  /\ \A u \in Range(updates) : ~Sufficient(u, render) => level[u] <= remaining
             /\ remaining # NoWork =>
                  \E u \in Range(updates) : ~Sufficient(u, render) /\ level[u] = remaining
<1> DEFINE T == {NoWork} \cup { level[u] : u \in { v \in Range(updates) : ~Sufficient(v, render) } }
<1>1. T \subseteq 0 .. Sync /\ T # {} /\ Sync \in Nat
  BY ConstantTypes DEF Levels, NoWork, Sync
<1>2. Max(T) \in T /\ \A t \in T : t <= Max(T)
  BY <1>1, GreatestOf
<1>3. Remaining(updates, render) = Max(T)
  BY DEF Remaining
<1> HIDE DEF T
<1>4. \A u \in Range(updates) : ~Sufficient(u, render) => level[u] \in T
  BY DEF T
<1>5. \A t \in T : t # NoWork => \E u \in Range(updates) : ~Sufficient(u, render) /\ level[u] = t
  BY DEF T
<1> QED BY <1>2, <1>3, <1>4, <1>5

\* The first update that is not done with is skipped, and none before it.
LEMMA SettledIs ==
  ASSUME NEW U, NEW updates \in Seq(U), NEW render
  PROVE  LET settled == Settled(updates, render)
         IN  /\ settled < Len(updates) => ~Sufficient(updates[settled + 1], render)
             /\ \A i \in 1 .. Len(updates) : ~Sufficient(updates[i], render) => i >= settled + 1
<1> DEFINE skipped == { i \in DOMAIN updates : ~Sufficient(updates[i], render) }
<1>1. skipped \subseteq 1 .. Len(updates) /\ Len(updates) \in Nat
  OBVIOUS
<1>2. CASE skipped = {}
  BY <1>1, <1>2 DEF Settled
<1>3. CASE skipped # {}
  <2>1. Settled(updates, render) = Min(skipped) - 1
    BY <1>3 DEF Settled
  <2>2. \A i \in 1 .. Len(updates) : i \in skipped <=> ~Sufficient(updates[i], render)
    OBVIOUS
  <2> HIDE DEF skipped
  <2>3. skipped \subseteq Nat
    BY <1>1
  <2>4. Min(skipped) \in skipped /\ \A i \in skipped : Min(skipped) <= i
    BY <1>3, <2>3, LeastOf
  <2>5. Min(skipped) \in 1 .. Len(updates)
    BY <1>1, <2>4
  <2>6. (Min(skipped) - 1) + 1 = Min(skipped)
    BY <2>5
  <2> QED BY <1>1, <2>1, <2>2, <2>4, <2>5, <2>6
<1> QED BY <1>2, <1>3

\* What is added to a state is in it, and nothing else is new.
LEMMA AddedToState ==
  ASSUME NEW x \in Seq(Update), NEW u \in Update, u \notin Noops \cup Replacing
  PROVE  Range(Applied(x, u)) = Range(x) \cup {u} /\ Applied(x, u) # x
<1>1. Applied(x, u) = Append(x, u)
  BY DEF Applied
<1>2. Len(Append(x, u)) = Len(x) + 1 /\ Len(x) \in Nat
  OBVIOUS
<1>3. Range(Append(x, u)) = Range(x) \cup {u}
  <2> DEFINE y == Append(x, u)
  <2>1. /\ DOMAIN x = 1 .. Len(x) /\ DOMAIN y = 1 .. Len(x) + 1
        /\ y[Len(x) + 1] = u /\ \A i \in 1 .. Len(x) : y[i] = x[i]
    OBVIOUS
  <2> HIDE DEF y
  <2>2. \A i \in 1 .. Len(x) + 1 : i \in 1 .. Len(x) \/ i = Len(x) + 1
    BY <1>2
  <2>3. Range(y) \subseteq Range(x) \cup {u}
    BY <2>1, <2>2 DEF Range
  <2>4. Range(x) \cup {u} \subseteq Range(y)
    BY <1>2, <2>1 DEF Range
  <2> QED BY <2>3, <2>4 DEF y
<1> QED BY <1>1, <1>2, <1>3

\* The base state of a fiber has the first b updates.
BaseAt(x, h, b) == x.baseUpdate = IF b = 0 THEN None ELSE h[b]

LEMMA BaseIsOne ==
  ASSUME NEW h \in Seq(Update), IsInjective(h), NEW x, NEW b \in 0 .. Len(h), BaseAt(x, h, b),
         NEW c \in 0 .. Len(h), BaseAt(x, h, c)
  PROVE  b = c
<1>1. None \notin Update /\ Len(h) \in Nat /\ \A i \in 1 .. Len(h) : h[i] \in Update
  BY UpdateAssumption
<1>2. \A i, j \in 1 .. Len(h) : h[i] = h[j] => i = j
  BY DEF IsInjective
<1> QED BY <1>1, <1>2 DEF BaseAt

\* A state that was computed eagerly has its update, and with it all before: they are in
\* the base state.
EagerAt(h, b) ==
  \A i \in 1 .. Len(h) : eager[h[i]] # <<>> => h[i] \in Range(eager[h[i]][1]) /\ b >= i - 1

\* The states that a hook's updates make one after the other.
EagerIsPossible(h) ==
  \A i \in 1 .. Len(h) : eager[h[i]] = <<>> \/ eager[h[i]][1] \in Possible(h)[i]
Turns(f, base, updates, some, h, b) ==
  /\ f[0] = base /\ f[Len(updates)] = HookAppliedSome(base, updates, some)
  /\ \A i \in 0 .. Len(updates) : f[i] \in Possible(h)[b + i]
  /\ \A i \in 1 .. Len(updates) :
       f[i] = IF updates[i] \in some THEN HookApplied(f[i - 1], updates[i]) ELSE f[i - 1]

LEMMA HookTurns ==
  ASSUME NEW h \in Seq(Update), IsInjective(h), NEW b, NEW updates, Rest(updates, h, b),
         EagerIsPossible(h), NEW base \in Possible(h)[b], NEW some
  PROVE  \E f : Turns(f, base, updates, some, h, b)
BY RestHookInTurn DEF EagerIsPossible, Turns

\* So the state that a hook's updates make has those of them that are applied, and no other.
LEMMA HookContains ==
  ASSUME NEW h \in Seq(Update), IsInjective(h), NEW b, NEW updates, Rest(updates, h, b),
         \A i \in 1 .. Len(h) : eager[h[i]] = <<>> \/ eager[h[i]][1] \in Possible(h)[i],
         NEW base \in Possible(h)[b], NEW some,
         \A i \in 1 .. Len(h) : h[i] \notin Noops \cup Replacing, EagerAt(h, b)
  PROVE  \A u \in Range(updates) : u \in some <=> u \in Range(HookAppliedSome(base, updates, some))
<1> DEFINE n == Len(updates)
<1>1. /\ n \in Nat /\ b \in Nat /\ Len(h) \in Nat /\ Len(h) = b + n
      /\ \A i \in 1 .. n : updates[i] = h[b + i] /\ b + i \in 1 .. Len(h) /\ updates[i] \in Update
      /\ DOMAIN updates = 1 .. n
  <2>1. updates \in Seq(Update) /\ n \in Nat /\ Len(h) \in Nat /\ b \in 0 .. Len(h) /\ n = Len(h) - b
        /\ \A i \in 1 .. n : updates[i] = h[b + i]
    BY RestHas
  <2> HIDE DEF n
  <2>2. n = Len(updates)
    BY DEF n
  <2>3. Len(h) = b + n /\ b \in Nat
    BY <2>1
  <2>4. \A i \in 1 .. n : b + i \in 1 .. Len(h)
    BY <2>1, <2>3
  <2>5. DOMAIN updates = 1 .. n /\ \A i \in 1 .. n : updates[i] \in Update
    BY <2>1, <2>2
  <2> QED BY <2>1, <2>3, <2>4, <2>5
<1>2. PICK f : /\ f[0] = base /\ f[n] = HookAppliedSome(base, updates, some)
               /\ \A i \in 0 .. n : f[i] \in Possible(h)[b + i]
               /\ \A i \in 1 .. n : f[i] = IF updates[i] \in some
                                            THEN HookApplied(f[i - 1], updates[i]) ELSE f[i - 1]
  <2>1. EagerIsPossible(h)
    BY Zenon DEF EagerIsPossible
  <2>2. PICK f : Turns(f, base, updates, some, h, b)
    BY <2>1, HookTurns
  <2> QED BY <2>2, Zenon DEF Turns
<1> HIDE DEF n
<1>3. \A i, j \in 1 .. Len(h) : h[i] = h[j] => i = j
  BY DEF IsInjective
<1>4. \A i \in 1 .. n : f[i - 1] \in Seq(Update) /\ updates[i] \notin Range(f[i - 1])
  <2> SUFFICES ASSUME NEW i \in 1 .. n
               PROVE  f[i - 1] \in Seq(Update) /\ updates[i] \notin Range(f[i - 1])
    OBVIOUS
  <2>1. i - 1 \in 0 .. n /\ b + (i - 1) \in 0 .. Len(h)
    BY <1>1
  <2>2. f[i - 1] \in Possible(h)[b + (i - 1)]
    BY <1>2, <2>1
  <2>3. \A u \in Range(f[i - 1]) : \E j \in 1 .. b + (i - 1) : u = h[j]
    BY <2>1, <2>2, PossibleHas
  <2>4. \A j \in 1 .. b + (i - 1) : h[j] # h[b + i]
    BY <1>1, <1>3
  <2>5. f[i - 1] \in Seq(Update)
    BY <2>1, <2>2, PossibleStates
  <2> QED BY <1>1, <2>3, <2>4, <2>5
<1> DEFINE Good == { i \in 0 .. n : \A j \in 1 .. i : updates[j] \in some <=> updates[j] \in Range(f[i]) }
<1>5. 0 \in Good
  BY <1>1
<1>6. \A i \in 1 .. n : i - 1 \in Good => i \in Good
  <2> SUFFICES ASSUME NEW i \in 1 .. n, i - 1 \in Good, NEW j \in 1 .. i
               PROVE  updates[j] \in some <=> updates[j] \in Range(f[i])
    BY <1>1
  <2>1. j < i => (updates[j] \in some <=> updates[j] \in Range(f[i - 1]))
    BY <1>1
  <2>2. CASE updates[i] \notin some
    <3>1. f[i] = f[i - 1]
      BY <1>2, <2>2
    <3>2. CASE j = i
      BY <1>4, <2>2, <3>1, <3>2
    <3>3. CASE j < i
      BY <2>1, <3>1, <3>3
    <3> QED BY <1>1, <3>2, <3>3
  <2>3. CASE updates[i] \in some /\ eager[updates[i]] # <<>>
    <3>1. updates[i] = h[b + i] /\ b + i \in 1 .. Len(h)
      BY <1>1
    <3>2. updates[i] \in Range(eager[updates[i]][1]) /\ b >= (b + i) - 1
      BY <2>3, <3>1 DEF EagerAt
    <3>3. f[i] = eager[updates[i]][1]
      BY <1>2, <2>3 DEF HookApplied
    <3>4. i = 1 /\ j = 1
      BY <1>1, <3>2
    <3> QED BY <2>3, <3>2, <3>3, <3>4
  <2>4. CASE updates[i] \in some /\ eager[updates[i]] = <<>>
    <3>1. f[i] = Applied(f[i - 1], updates[i])
      BY <1>2, <2>4 DEF HookApplied
    <3>2. Range(f[i]) = Range(f[i - 1]) \cup {updates[i]}
      BY <1>1, <1>4, <3>1, AddedToState
    <3>3. CASE j = i
      BY <2>4, <3>2, <3>3
    <3>4. CASE j < i
      <4>1. updates[j] # updates[i]
        BY <1>1, <1>3, <3>4
      <4> QED BY <2>1, <3>2, <3>4, <4>1
    <3> QED BY <1>1, <3>3, <3>4
  <2> QED BY <2>2, <2>3, <2>4
<1> HIDE DEF Good
<1>7. n \in Good
  <2>1. 0 .. n \subseteq Good
    BY <1>1, <1>5, <1>6, UpTo
  <2> QED BY <1>1, <2>1
<1>8. \A j \in 1 .. n : updates[j] \in some <=> updates[j] \in Range(f[n])
  BY <1>7 DEF Good
<1> QED BY <1>1, <1>2, <1>8 DEF Range

-----------------------------------------------------------------------------
\* Fibers with the same levels and the same base state.
SameMarks(x, y) ==
  /\ x.time = y.time /\ x.childTime = y.childTime
  /\ x.base = y.base /\ x.baseUpdate = y.baseUpdate

\* The copies of children have the marks of those that they are copied from.
CopiedMarks(f, g, n, side) ==
  LET kids == f[n][side].kids
  IN  /\ SameMarks(g[n][side], f[n][side])
      /\ g # f => \A k \in Range(Kids[n]) : SameMarks(g[k][Other(kids)], f[k][kids])

\* createWorkInProgress
LEMMA MarksCopied ==
  ASSUME NEW f \in FiberTrees, NEW n \in Node, NEW side \in Sides
  PROVE  SameMarks(WorkInProgress(f, n, side)[n][Other(side)], f[n][side])
<1> DEFINE x == f[n][side]
           y == [x EXCEPT !.fresh = FALSE, !.effect = FALSE]
<1>1. x \in FiberSet /\ Other(side) \in Sides
  BY Others DEF FiberTrees
<1>2. SameMarks(y, x)
  <2> HIDE DEF x
  <2> QED BY <1>1 DEF FiberSet, SameMarks
<1>3. WorkInProgress(f, n, side) = [f EXCEPT ![n][Other(side)] = y]
  BY DEF WorkInProgress
<1> HIDE DEF y, x
<1>4. [f EXCEPT ![n][Other(side)] = y][n][Other(side)] = y
  BY <1>1 DEF FiberTrees
<1> QED BY <1>2, <1>3, <1>4 DEF x

\* bailoutOnAlreadyFinishedWork and reconcileChildren
LEMMA ChildrenMarks ==
  ASSUME NEW f \in FiberTrees, NEW n \in Node, NEW side \in Sides, NEW render
  PROVE  /\ CopiedMarks(f, BailedOut(f, n, side, render), n, side)
         /\ CopiedMarks(f, ChildrenReconciled(f, n, side), n, side)
<1> DEFINE kids == f[n][side].kids
           c    == ChildrenCloned(f, n, side)
           r    == ChildrenReconciled(f, n, side)
           o    == [f EXCEPT ![n][side].kids = Other(kids)]
<1>1. /\ kids \in Sides /\ Other(kids) \in Sides /\ f[n][side] \in FiberSet
      /\ f[n][side].state \in Seq(Update)
  BY Others DEF FiberTrees, FiberSet
<1>2. Range(Kids[n]) \subseteq Node /\ n \notin Range(Kids[n])
  BY TreeKids, NotOwnChild DEF Children
<1>3. c \in FiberTrees
  BY ClonedAreBred DEF Bred
<1>4. c = [m \in Node |-> IF m \in Range(Kids[n]) THEN WorkInProgress(f, m, kids)[m] ELSE o[m]]
  BY DEF ChildrenCloned
<1>5. r = [m \in Node |-> IF m \in Range(Kids[n])
                          THEN [c[m] EXCEPT ![Other(kids)].fresh = TRUE,
                                            ![Other(kids)].props = f[n][side].state]
                          ELSE c[m]]
  BY DEF ChildrenReconciled
<1>6. SameMarks(o[n][side], f[n][side])
  <2> HIDE DEF kids
  <2> QED BY <1>1 DEF FiberTrees, FiberSet, SameMarks
<1> HIDE DEF kids, c, r, o
<1>7. SameMarks(c[n][side], f[n][side]) /\ r[n] = c[n]
  BY <1>2, <1>4, <1>5, <1>6
<1>8. ASSUME NEW k \in Range(Kids[n])
      PROVE  /\ SameMarks(c[k][Other(kids)], f[k][kids])
             /\ SameMarks(r[k][Other(kids)], f[k][kids])
  <2>1. k \in Node /\ c[k] = WorkInProgress(f, k, kids)[k]
    BY <1>2, <1>4
  <2>2. SameMarks(c[k][Other(kids)], f[k][kids])
    BY <1>1, <2>1, MarksCopied
  <2>3. c[k] \in [Sides -> FiberSet] /\ c[k][Other(kids)] \in FiberSet
    BY <1>1, <1>3, <2>1 DEF FiberTrees
  <2> DEFINE x == c[k][Other(kids)]
             y == [x EXCEPT !.fresh = TRUE, !.props = f[n][side].state]
  <2>4. SameMarks(y, x)
    <3> HIDE DEF x
    <3> QED BY <2>3 DEF x, FiberSet, SameMarks
  <2>5. r[k] = [c[k] EXCEPT ![Other(kids)].fresh = TRUE, ![Other(kids)].props = f[n][side].state]
    BY <1>5, <2>1
  <2>6. r[k][Other(kids)] = y
    BY <1>1, <2>3, <2>5
  <2> QED BY <2>2, <2>4, <2>6 DEF SameMarks
<1>9. CopiedMarks(f, c, n, side) /\ CopiedMarks(f, r, n, side)
  BY <1>7, <1>8 DEF CopiedMarks, kids
<1>10. CopiedMarks(f, f, n, side)
  BY DEF CopiedMarks, SameMarks
<1> QED BY <1>9, <1>10 DEF BailedOut, c, r

-----------------------------------------------------------------------------
\* The level of a fiber is as high as the one of the first update that is not in its
\* base state.
HookCovered(n, x) ==
  \A b \in 0 .. Len(History(n)) :
    BaseAt(x, History(n), b) /\ b < Len(History(n)) => x.time >= level[History(n)[b + 1]]
ClassCovered(n, x) ==
  x.queue # 0 /\ queues[n][x.queue].first # None => x.time >= level[queues[n][x.queue].first]

\* A fiber has a level because of an update of that level or a higher one which it does
\* not show and which is not in its base state.
Waits(n, x) ==
  x.time # NoWork =>
    \E i \in 1 .. Len(History(n)) :
      /\ History(n)[i] \notin Range(x.state) /\ level[History(n)[i]] >= x.time
      /\ \A b \in 0 .. Len(History(n)) : BaseAt(x, History(n), b) => i > b

HookMarked(n, x) ==
  /\ HookCovered(n, x) /\ Waits(n, x)
  /\ x.exists => \A b \in 0 .. Len(History(n)) : BaseAt(x, History(n), b) => EagerAt(History(n), b)

\* As long as a fiber has no base update the list is a circle.
HookClosed(n) ==
  History(n) # <<>> /\ (\E s \in Sides : fiber[n][s].exists /\ fiber[n][s].baseUpdate = None) =>
    next[History(n)[Len(History(n))]] = History(n)[1]

\* Then what updateReducer finds is the updates that are not in the base state.
LEMMA HookRestIsFound ==
  ASSUME Lists, NEW n \in Functions, HookClosed(n), NEW s \in Sides, fiber[n][s].exists,
         NEW b \in 0 .. Len(History(n)), BaseAt(fiber[n][s], History(n), b)
  PROVE  LET x     == fiber[n][s]
             links == HookOpened(next, hooks[n], x.baseUpdate)
             first == HookFirst(links, hooks[n], x.baseUpdate)
         IN  /\ first = IF b = Len(History(n)) THEN None ELSE History(n)[b + 1]
             /\ Rest(Listed(links, first), History(n), b)
<1> DEFINE h     == History(n)
           x     == fiber[n][s]
           links == HookOpened(next, hooks[n], x.baseUpdate)
           first == HookFirst(links, hooks[n], x.baseUpdate)
           queue == hooks[n]
<1>1. /\ IsFiniteSet(MadeUpdates) /\ h \in Seq(Update) /\ h \in Seq(MadeUpdates) /\ IsInjective(h)
      /\ Len(h) \in Nat /\ next \in [Update -> Update \cup {None}] /\ n \in Node
  <2>1. n \in Node
    BY TreeAssumption DEF Children
  <2> QED BY <2>1, ListFound
<1>2. HookList(n)
  BY <1>1 DEF Lists, NodeLists, ListOf
<1>3. CircleOf(next, h) /\ queue.last = LastOf(h)
  BY <1>2 DEF HookList
<1>4. x.baseUpdate = IF b = 0 THEN None ELSE h[b]
  BY DEF BaseAt
<1> HIDE DEF queue
<1>5. /\ links \in [Update -> Update \cup {None}] /\ CircleOf(links, h)
      /\ h # <<>> /\ b # 0 => links[h[Len(h)]] = None
  <2>1. b \in 0 .. Len(h)
    OBVIOUS
  <2> HIDE DEF h, x
  <2> QED BY <1>1, <1>3, <1>4, <2>1, OpenedLinks DEF queue
<1>6. None \notin Update /\ \A i \in 1 .. Len(h) : h[i] \in Update
  BY <1>1, UpdateAssumption
<1>7. first = IF b = Len(h) THEN None ELSE h[b + 1]
  <2>1. CASE b = 0
    <3>1. x.baseUpdate = None /\ links = next
      BY <1>4, <2>1 DEF HookOpened
    <3>2. first = IF queue.last = None THEN None ELSE next[queue.last]
      BY <3>1 DEF HookFirst, queue
    <3>3. CASE h = <<>>
      BY <1>3, <2>1, <3>2, <3>3 DEF LastOf
    <3>4. CASE h # <<>>
      <4>1. next[h[Len(h)]] = h[1]
        BY <3>1, <3>4 DEF HookClosed
      <4>2. Len(h) \in 1 .. Len(h) /\ queue.last = h[Len(h)] /\ queue.last # None
        BY <1>1, <1>3, <1>6, <3>4 DEF LastOf
      <4> HIDE DEF h, first
      <4> QED BY <2>1, <3>2, <4>1, <4>2
    <3> QED BY <3>3, <3>4
  <2>2. CASE b # 0
    <3>1. x.baseUpdate = h[b] /\ h[b] # None
      BY <1>4, <1>6, <2>2
    <3>2. first = links[h[b]]
      BY <3>1 DEF HookFirst
    <3> HIDE DEF first, links, h
    <3>3. CASE b = Len(h)
      BY <1>1, <1>5, <2>2, <3>2, <3>3
    <3>4. CASE b # Len(h)
      <4>1. b \in 1 .. Len(h) - 1
        BY <1>1, <2>2, <3>4 DEF h
      <4> QED BY <1>5, <3>2, <3>4, <4>1 DEF CircleOf
    <3> QED BY <3>3, <3>4
  <2> QED BY <2>1, <2>2
<1>8. Rest(Listed(links, first), h, b)
  <2>1. b \in 0 .. Len(h)
    OBVIOUS
  <2> HIDE DEF h, first, links
  <2>2. CASE b = Len(h)
    <3>1. Listed(links, first) = <<>>
      BY <1>7, <2>2 DEF Listed
    <3>2. <<>> \in Seq(Range(h)) /\ Len(<<>>) = 0
      OBVIOUS
    <3> QED BY <1>1, <2>1, <2>2, <3>1, <3>2 DEF Rest
  <2>3. CASE b # Len(h)
    <3>1. b \in 0 .. Len(h) - 1 /\ h # <<>>
      BY <1>1, <2>1, <2>3
    <3>2. \A i \in b + 1 .. Len(h) - 1 : links[h[i]] = h[i + 1]
      <4>1. \A i \in b + 1 .. Len(h) - 1 : i \in 1 .. Len(h) - 1
        BY <1>1, <3>1
      <4> QED BY <1>5, <4>1 DEF CircleOf
    <3>3. links[h[Len(h)]] \in {None, h[b + 1]}
      BY <1>5, <3>1 DEF CircleOf
    <3>4. Rest(Listed(links, h[b + 1]), h, b)
      BY <1>1, <1>5, <3>1, <3>2, <3>3, LinkedAreListed
    <3> QED BY <1>7, <2>3, <3>4
  <2> QED BY <2>2, <2>3
<1> QED BY <1>7, <1>8

\* What updateReducer makes of the fiber of a hook.
HookUpdated(mine, result) ==
  IF result.empty THEN [mine EXCEPT !.time = NoWork]
  ELSE [mine EXCEPT !.time = result.remaining, !.state = result.state,
                    !.base = result.base, !.baseUpdate = result.baseUpdate]

\* It has the level of what it has skipped, and it is not what it was if there was work.
LEMMA HookRendered ==
  ASSUME HooksAdd, Lists, NEW n \in Functions, NEW side \in Sides, HookClosed(n),
         HookMarked(n, fiber[n][Other(side)]), fiber[n][Other(side)].exists,
         SameMarks(fiber[n][side], fiber[n][Other(side)]), NEW render \in Levels
  PROVE  LET old     == fiber[n][Other(side)]
             result  == HookProcessed(hooks[n], old.base, old.baseUpdate, render)
             updated == HookUpdated(fiber[n][side], result)
         IN  /\ HookMarked(n, updated) /\ updated.childTime = fiber[n][side].childTime
             /\ updated.time = NoWork \/ \E u \in MadeUpdates : updated.time = level[u]
             /\ old.baseUpdate # None => updated.baseUpdate # None
             /\ old.time >= render /\ old.time # NoWork => updated.state # old.state
<1> DEFINE h       == History(n)
           mine    == fiber[n][side]
           old     == fiber[n][Other(side)]
           links   == HookOpened(next, hooks[n], old.baseUpdate)
           updates == Listed(links, HookFirst(links, hooks[n], old.baseUpdate))
           settled == Settled(updates, render)
           due     == Due(updates, render)
           front   == Range(SubSeq(updates, 1, settled))
           result  == HookProcessed(hooks[n], old.base, old.baseUpdate, render)
           updated == HookUpdated(mine, result)
<1>1. /\ IsFiniteSet(MadeUpdates) /\ h \in Seq(Update) /\ h \in Seq(MadeUpdates) /\ IsInjective(h)
      /\ Len(h) \in Nat /\ n \in Node /\ n # Root
      /\ level \in [Update -> Levels \cup {NotMade}]
  <2>1. n \in Node /\ n # Root
    BY TreeAssumption DEF Children
  <2> QED BY <2>1, ListFound
<1>2. HookList(n) /\ HookSide(n, old) /\ Other(side) \in Sides /\ mine \in FiberSet /\ old \in FiberSet
  <2>1. NodeLists(n) /\ Other(side) \in Sides /\ fiber \in FiberTrees
    BY <1>1, Others DEF Lists, UpdatesTyped
  <2> QED BY <1>1, <2>1 DEF NodeLists, ListOf, SideOf, FiberTrees
<1>3. PICK b \in 0 .. Len(h) : HookFrom(old.base, old.baseUpdate, h, b)
  BY <1>2 DEF HookSide
<1>4. BaseAt(old, h, b) /\ old.base \in Possible(h)[b]
  BY <1>3 DEF BaseAt, HookFrom
<1>5. Rest(updates, h, b)
  <2> HIDE DEF h
  <2> QED BY <1>2, <1>4, HookRestIsFound DEF h
<1>6. \A i \in 1 .. Len(h) : /\ h[i] \in MadeUpdates /\ level[h[i]] \in Levels
                             /\ h[i] \notin Noops \cup Replacing
  <2>1. \A i \in 1 .. Len(h) : Owner(h[i]) = n /\ h[i] \in Update /\ h[i] \in MadeUpdates
    BY <1>1, Histories DEF Lists
  <2>2. \A i \in 1 .. Len(h) : Target[h[i]] = n
    BY <1>1, <2>1 DEF Owner
  <2> QED BY <1>1, <2>1, <2>2 DEF HooksAdd, MadeUpdates
<1>7. EagerAt(h, b) /\ HookCovered(n, old) /\ Waits(n, old)
  BY <1>4 DEF HookMarked
<1>8. /\ updates \in Seq(Update) /\ Range(updates) \subseteq Range(h) /\ Len(updates) \in Nat
      /\ b \in Nat /\ Len(updates) = Len(h) - b /\ \A i \in 1 .. Len(updates) : updates[i] = h[b + i]
  <2> HIDE DEF updates, h
  <2> QED BY <1>1, <1>5, RestHas
<1>9. result = [ base       |-> HookAppliedSome(old.base, updates, front),
                 baseUpdate |-> IF settled = 0 THEN old.baseUpdate ELSE updates[settled],
                 state      |-> HookAppliedSome(old.base, updates, due),
                 remaining  |-> Remaining(updates, render),
                 empty      |-> updates = <<>> ]
  <2> HIDE DEF old
  <2> QED BY <1>8, ProcessedHookList
<1>10. \A u \in Range(updates) : level[u] \in Levels /\ u \in MadeUpdates
  <2> HIDE DEF updates, h
  <2>1. \A u \in Range(h) : \E i \in 1 .. Len(h) : u = h[i]
    BY <1>1 DEF Range
  <2> QED BY <1>6, <1>8, <2>1
<1>11. \A i \in 1 .. Len(h) : eager[h[i]] = <<>> \/ eager[h[i]][1] \in Possible(h)[i]
  BY <1>2 DEF HookList
<1> HIDE DEF h, links, updates, result
<1>12. CASE updates = <<>>
  <2>1. result.empty /\ b = Len(h)
    <3>1. Len(updates) = 0
      BY <1>12
    <3> HIDE DEF old, due, front, settled
    <3>2. result.empty
      BY <1>9, <1>12
    <3> QED BY <1>1, <1>8, <3>1, <3>2
  <2>2. /\ updated.time = NoWork /\ updated.baseUpdate = old.baseUpdate
        /\ updated.childTime = mine.childTime
    <3>1. old.baseUpdate = mine.baseUpdate
      BY DEF SameMarks
    <3> HIDE DEF mine, old
    <3> QED BY <1>2, <2>1, <3>1 DEF HookUpdated, FiberSet
  <2> HIDE DEF updated
  <2>3. \A c \in 0 .. Len(h) : BaseAt(updated, h, c) => c = b
    <3> SUFFICES ASSUME NEW c \in 0 .. Len(h), BaseAt(updated, h, c) PROVE c = b
      OBVIOUS
    <3>1. BaseAt(old, h, c)
      BY <2>2 DEF BaseAt
    <3> HIDE DEF old
    <3> QED BY <1>1, <1>4, <3>1, BaseIsOne
  <2>4. HookCovered(n, updated)
    BY <1>1, <2>1, <2>3 DEF HookCovered, h
  <2>5. Waits(n, updated)
    BY <2>2 DEF Waits
  <2>6. \A c \in 0 .. Len(h) : BaseAt(updated, h, c) => EagerAt(h, c)
    BY <1>7, <2>3
  <2>7. old.time = NoWork
    <3> SUFFICES ASSUME old.time # NoWork PROVE FALSE
      OBVIOUS
    <3>1. PICK i \in 1 .. Len(h) : \A c \in 0 .. Len(h) : BaseAt(old, h, c) => i > c
      BY <1>7 DEF Waits, h
    <3> QED BY <1>1, <1>4, <2>1, <3>1
  <2> QED BY <2>2, <2>4, <2>5, <2>6, <2>7 DEF HookMarked, h, updated, result
<1>13. CASE updates # <<>>
  <2> DEFINE c == b + settled
  <2>1. settled \in 0 .. Len(updates) /\ c \in 0 .. Len(h) /\ c \in Nat /\ b <= c
    <3>1. settled \in 0 .. Len(updates)
      BY <1>8, SettledBounds
    <3> HIDE DEF settled
    <3> QED BY <1>1, <1>8, <3>1
  <2>2. /\ updated.time = Remaining(updates, render) /\ updated.childTime = mine.childTime
        /\ updated.state = HookAppliedSome(old.base, updates, due)
        /\ updated.baseUpdate = IF settled = 0 THEN old.baseUpdate ELSE updates[settled]
    <3> HIDE DEF mine, old, settled, due, front
    <3> QED BY <1>2, <1>9, <1>13 DEF HookUpdated, FiberSet
  <2> HIDE DEF updated
  <2>3. BaseAt(updated, h, c)
    <3>1. CASE settled = 0
      BY <1>4, <1>8, <2>2, <3>1 DEF BaseAt
    <3>2. CASE settled # 0
      <4>1. settled \in 1 .. Len(updates) /\ c # 0
        BY <1>8, <2>1, <3>2
      <4> HIDE DEF settled
      <4> QED BY <1>8, <2>2, <3>2, <4>1 DEF BaseAt
    <3> QED BY <3>1, <3>2
  <2>4. \A d \in 0 .. Len(h) : BaseAt(updated, h, d) => d = c
    <3> HIDE DEF c
    <3> QED BY <1>1, <2>1, <2>3, BaseIsOne
  <2>5. /\ settled < Len(updates) => ~Sufficient(updates[settled + 1], render)
        /\ \A i \in 1 .. Len(updates) : ~Sufficient(updates[i], render) => i >= settled + 1
    BY <1>8, SettledIs
  <2>6. /\ \A u \in Range(updates) : ~Sufficient(u, render) => level[u] <= updated.time
        /\ updated.time # NoWork =>
             \E u \in Range(updates) : ~Sufficient(u, render) /\ level[u] = updated.time
    BY <1>10, <2>2, RemainingIs
  <2>7. \A u \in Range(updates) : u \in due <=> u \in Range(updated.state)
    <3> HIDE DEF due, old
    <3> QED BY <1>1, <1>4, <1>5, <1>6, <1>7, <1>11, <2>2, HookContains
  <2>8. \A u \in Range(updates) : u \in due <=> Sufficient(u, render)
    BY DEF Due
  <2> HIDE DEF due, settled
  <2>9. updated.time \in Levels
    <3>1. Remaining(updates, render) \in Levels
      BY <1>10, RemainingLevel
    <3> QED BY <2>2, <3>1
  <2>10. HookCovered(n, updated)
    <3> SUFFICES ASSUME c < Len(h) PROVE updated.time >= level[h[c + 1]]
      BY <2>4 DEF HookCovered, h
    <3>1. settled + 1 \in 1 .. Len(updates) /\ h[c + 1] = updates[settled + 1] /\ settled < Len(updates)
      <4>1. settled + 1 \in 1 .. Len(updates) /\ b + (settled + 1) = c + 1 /\ settled < Len(updates)
        BY <1>1, <1>8, <2>1
      <4> QED BY <1>8, <4>1
    <3>2. updates[settled + 1] \in Range(updates)
      BY <1>8, <3>1 DEF Range
    <3>3. level[updates[settled + 1]] \in Levels
      BY <1>10, <3>2
    <3> QED BY <2>5, <2>6, <2>9, <3>1, <3>2, <3>3, LevelFacts
  <2>11. Waits(n, updated)
    <3> SUFFICES ASSUME updated.time # NoWork
                 PROVE  \E i \in 1 .. Len(h) :
                          /\ h[i] \notin Range(updated.state) /\ level[h[i]] >= updated.time
                          /\ \A d \in 0 .. Len(h) : BaseAt(updated, h, d) => i > d
      BY DEF Waits, h
    <3>1. PICK u \in Range(updates) : ~Sufficient(u, render) /\ level[u] = updated.time
      BY <2>6
    <3>2. PICK j \in 1 .. Len(updates) : u = updates[j]
      BY <1>8, <3>1 DEF Range
    <3>3. j >= settled + 1 /\ h[b + j] = u
      BY <1>8, <2>5, <3>1, <3>2
    <3>4. b + j \in 1 .. Len(h) /\ b + j > c
      BY <1>1, <1>8, <2>1, <3>2, <3>3
    <3>5. u \notin Range(updated.state)
      BY <2>7, <2>8, <3>1
    <3>6. level[u] >= updated.time
      <4>1. updated.time \in Nat
        BY <2>9, LevelFacts
      <4> QED BY <3>1, <4>1
    <3> QED BY <2>4, <3>3, <3>4, <3>5, <3>6
  <2>12. \A d \in 0 .. Len(h) : BaseAt(updated, h, d) => EagerAt(h, d)
    <3> SUFFICES EagerAt(h, c)
      BY <2>4
    <3> QED BY <1>1, <1>7, <1>8, <2>1 DEF EagerAt
  <2>13. old.baseUpdate # None => updated.baseUpdate # None
    <3>1. None \notin Update
      BY UpdateAssumption
    <3>2. settled # 0 => updates[settled] \in Update
      BY <1>8, <2>1
    <3> QED BY <2>2, <3>1, <3>2
  <2>14. old.time >= render /\ old.time # NoWork => updated.state # old.state
    <3> SUFFICES ASSUME old.time >= render, old.time # NoWork PROVE updated.state # old.state
      OBVIOUS
    <3>1. PICK i \in 1 .. Len(h) : /\ h[i] \notin Range(old.state) /\ level[h[i]] >= old.time
                                   /\ \A d \in 0 .. Len(h) : BaseAt(old, h, d) => i > d
      BY <1>7 DEF Waits, h
    <3>2. i > b
      BY <1>4, <3>1
    <3>3. i - b \in 1 .. Len(updates) /\ b + (i - b) = i
      BY <1>1, <1>8, <3>2
    <3>4. h[i] = updates[i - b] /\ h[i] \in Range(updates)
      BY <1>8, <3>3 DEF Range
    <3>5. Sufficient(h[i], render)
      <4>1. level[h[i]] \in Levels /\ old.time \in Levels
        BY <1>2, <1>6 DEF FiberSet
      <4> HIDE DEF old
      <4> QED BY <3>1, <4>1, LevelFacts DEF Sufficient
    <3> QED BY <2>7, <2>8, <3>1, <3>4, <3>5
  <2>15. updated.time = NoWork \/ \E u \in MadeUpdates : updated.time = level[u]
    BY <1>10, <2>6
  <2> QED BY <2>2, <2>10, <2>11, <2>12, <2>13, <2>14, <2>15 DEF HookMarked, h, updated, result
<1> QED BY <1>12, <1>13

\* The same for the queue of a component: what stays on it has a level as low as remains.
LEMMA ClassRendered ==
  ASSUME Lists, NEW n \in Node \ Functions, NEW id \in Sides, QueueOver(queues[n][id], History(n)),
         NEW render
  PROVE  LET result == Processed(CloneOf(queues[n][id]), render)
         IN  /\ result.remaining \in Levels
             /\ result.remaining = NoWork \/ \E u \in MadeUpdates : result.remaining = level[u]
             /\ result.queue.first # None => result.remaining >= level[result.queue.first]
<1> DEFINE h       == History(n)
           queue   == CloneOf(queues[n][id])
           updates == Listed(next, queue.first)
           result  == Processed(queue, render)
           settled == Settled(updates, render)
<1>1. PICK b \in 0 .. Len(h) : QueueFrom(queues[n][id], h, b)
  BY DEF QueueOver
<1>2. /\ MadeOnce /\ IsFiniteSet(MadeUpdates) /\ h \in Seq(Update) /\ h \in Seq(MadeUpdates)
      /\ IsInjective(h) /\ next \in [Update -> Update \cup {None}] /\ NodeLists(n)
      /\ level \in [Update -> Levels \cup {NotMade}] /\ Len(h) \in Nat
  BY ListFound
<1>3. h # <<>> => next[h[Len(h)]] = None
  BY <1>2 DEF NodeLists, ListOf, ClassList
<1>4. queues[n][id] \in QueueSet
  BY DEF Lists, UpdatesTyped
<1>5. queue.first = queues[n][id].first
  BY <1>4, QueueIsCloned
<1> HIDE DEF h, queue
<1>6. Rest(updates, h, b)
  BY <1>1, <1>2, <1>3, <1>5, QueueIsListed
<1>7. updates \in Seq(Update) /\ Range(updates) \subseteq Range(h) /\ Len(updates) \in Nat
  <2> HIDE DEF updates
  <2> QED BY <1>2, <1>6, RestHas
<1>8. \A u \in Range(updates) : level[u] \in Levels /\ u \in MadeUpdates
  <2> HIDE DEF updates
  <2>1. \A u \in Range(h) : u \in MadeUpdates
    BY <1>2, ListOfItsOwn
  <2> QED BY <1>2, <1>7, <2>1 DEF MadeUpdates
<1>9. /\ result.remaining = Remaining(updates, render)
      /\ result.queue.first = IF settled = Len(updates) THEN None ELSE updates[settled + 1]
  <2> DEFINE due     == Due(updates, render)
             newBase == NewBase(queue.base, updates, render)
             effects == queue.effects \o CallbacksIn(updates, render)
             last    == IF settled = Len(updates) THEN None ELSE queue.last
  <2>1. Listed(next, queue.first) \in Seq(Update)
    BY <1>7
  <2>2. result = [ queue |-> [ base    |-> newBase,
                               first   |-> IF settled = Len(updates) THEN None
                                           ELSE updates[settled + 1],
                               last    |-> last, effects |-> effects ],
                   state |-> AppliedSome(queue.base, updates, due),
                   remaining |-> Remaining(updates, render), changed |-> due \ Noops # {} ]
    <3> HIDE DEF result
    <3>1. result = Processed(queue, render)
      BY DEF result
    <3> QED BY <2>1, <3>1, ProcessedList
  <2> HIDE DEF updates, settled, due, newBase, effects, last, result
  <2> QED BY <2>2
<1> HIDE DEF updates, result
<1>10. settled \in 0 .. Len(updates)
  BY <1>7, SettledBounds
<1>11. /\ settled < Len(updates) => ~Sufficient(updates[settled + 1], render)
       /\ \A u \in Range(updates) : ~Sufficient(u, render) => level[u] <= Remaining(updates, render)
       /\ Remaining(updates, render) # NoWork =>
            \E u \in Range(updates) : level[u] = Remaining(updates, render)
       /\ Remaining(updates, render) \in Levels
  BY <1>7, <1>8, SettledIs, RemainingIs, RemainingLevel
<1> HIDE DEF settled
<1>12. ASSUME result.queue.first # None
       PROVE  result.remaining >= level[result.queue.first]
  <2>1. settled < Len(updates) /\ settled + 1 \in 1 .. Len(updates)
        /\ result.queue.first = updates[settled + 1]
    BY <1>7, <1>9, <1>10, <1>12
  <2>2. updates[settled + 1] \in Range(updates)
    BY <1>7, <2>1 DEF Range
  <2>3. level[updates[settled + 1]] <= Remaining(updates, render)
    BY <1>11, <2>1, <2>2
  <2>4. level[updates[settled + 1]] \in Nat /\ Remaining(updates, render) \in Nat
    BY <1>8, <1>11, <2>2, LevelFacts
  <2> QED BY <1>9, <2>1, <2>3, <2>4
<1> QED BY <1>8, <1>9, <1>11, <1>12 DEF result, queue

\* What beginWork does to the marks of a fiber, before it copies children: the fiber has a
\* level that fits what it has left, and no other fiber is changed.
BegunMarks(h, n, side) ==
  /\ BredOrSame(h, fiber', n, side) /\ CopiedMarks(h, fiber', n, side)
  /\ \A m \in Node, s \in Sides : (m # n \/ s # side) => h[m][s] = fiber[m][s]
  /\ LET x == h[n][side]
         y == fiber[n][side]
         z == fiber[n][Other(side)]
     IN  /\ x.kids = y.kids /\ x.exists = y.exists /\ x.childTime = y.childTime
         /\ x.time \in {NoWork, y.time} \/ \E u \in MadeUpdates : x.time = level[u]
         /\ n \in Functions => /\ HookMarked(n, x)
                               /\ IF z.baseUpdate = None THEN next' = next
                                  ELSE x.baseUpdate # None /\ \A u \in Update \ Range(History(n)) :
                                                                next'[u] = next[u]
         /\ n \notin Functions =>
              /\ next' = next
              /\ ClassCovered(n, y) =>
                   (x.queue # 0 /\ queues'[n][x.queue].first # None =>
                      x.time >= level[queues'[n][x.queue].first])
              /\ z.queue # 0 => queues'[n][z.queue].first = queues[n][z.queue].first
  /\ \A m \in Node \ {n} : queues'[m] = queues[m]

LEMMA BailedMarks ==
  ASSUME Lists, NEW n \in Node, NEW side \in Sides, NEW render,
         n \in Functions => HookMarked(n, fiber[n][side]),
         SameMarks(fiber[n][side], fiber[n][Other(side)]), BeginBailsOut(n, side, render)
  PROVE  \E h \in FiberTrees : BegunMarks(h, n, side)
<1>1. fiber \in FiberTrees
  BY DEF Lists, UpdatesTyped
<1>2. BredOrSame(fiber, fiber', n, side) /\ CopiedMarks(fiber, fiber', n, side)
  BY <1>1, ChildrenGrow, ChildrenMarks DEF BeginBailsOut
<1>3. next' = next /\ queues' = queues
  BY DEF BeginBailsOut
<1>4. BegunMarks(fiber, n, side)
  <2> HIDE DEF HookMarked, BredOrSame, CopiedMarks
  <2> QED BY <1>2, <1>3 DEF BegunMarks, SameMarks, ClassCovered
<1> QED BY <1>1, <1>4

LEMMA QueueMarks ==
  ASSUME Lists, NEW n \in Node, NEW side \in Sides, NEW render, BeginQueue(n, side, render)
  PROVE  \E h \in FiberTrees : BegunMarks(h, n, side)
<1> DEFINE H       == History(n)
           mine    == fiber[n][side]
           other   == fiber[n][Other(side)]
           id      == IF mine.queue # other.queue THEN mine.queue ELSE Other(mine.queue)
           result  == Processed(CloneOf(queues[n][mine.queue]), render)
           updated == IF mine.queue = 0 THEN [mine EXCEPT !.time = NoWork]
                      ELSE [mine EXCEPT !.time = result.remaining, !.state = result.state,
                                        !.queue = id, !.effect = result.queue.effects # <<>>]
           h       == [fiber EXCEPT ![n][side] = updated]
<1>1. n \in Node \ Functions
  BY DEF BeginQueue
<1>2. fiber \in FiberTrees /\ mine \in FiberSet /\ Other(side) \in Sides /\ Other(side) # side
      /\ queues \in [Node -> [Sides -> QueueSet]]
  BY Others DEF Lists, UpdatesTyped, FiberTrees
<1>3. \A s \in Sides : ClassSide(n, fiber[n][s])
  BY <1>1 DEF Lists, NodeLists, SideOf
<1>4. queues' = (IF mine.queue = 0 THEN queues ELSE [queues EXCEPT ![n][id] = result.queue])
      /\ next' = next
  BY DEF BeginQueue
<1>5. fiber' = BailedOut(h, n, side, render) \/ fiber' = ChildrenReconciled(h, n, side)
  BY DEF BeginQueue
<1>6. mine.queue \in {0} \cup Sides /\ other.queue \in {0} \cup Sides
  BY <1>2 DEF FiberTrees, FiberSet
<1>7. mine.queue # 0 => /\ QueueOver(queues[n][mine.queue], H)
                        /\ mine.queue \in Sides /\ id \in Sides /\ id # other.queue
  BY <1>3, <1>6, Others DEF ClassSide
<1>8. mine.queue # 0 =>
        /\ result.queue \in QueueSet /\ result.state \in Seq(Update) /\ result.remaining \in Levels
        /\ result.remaining = NoWork \/ \E u \in MadeUpdates : result.remaining = level[u]
        /\ result.queue.first # None => result.remaining >= level[result.queue.first]
  BY <1>1, <1>7, ClassProcessed, ClassRendered, ZenonT(60)
<1> HIDE DEF result
<1>9. NoWork \in Levels
  BY ConstantTypes DEF Levels, NoWork, Sync
<1>10. /\ updated \in FiberSet /\ updated.exists = mine.exists /\ updated.kids = mine.kids
       /\ updated.childTime = mine.childTime
       /\ mine.queue = 0 => updated.time = NoWork /\ updated.queue = 0
       /\ mine.queue # 0 => updated.time = result.remaining /\ updated.queue = id
  <2>1. CASE mine.queue = 0
    <3> HIDE DEF mine
    <3> QED BY <1>2, <1>9, <2>1 DEF FiberSet
  <2>2. CASE mine.queue # 0
    <3>1. id \in Sides /\ result.remaining \in Levels /\ result.state \in Seq(Update)
      BY <1>7, <1>8, <2>2
    <3> HIDE DEF mine, id
    <3> QED BY <1>2, <2>2, <3>1 DEF FiberSet
  <2> QED BY <2>1, <2>2
<1>11. /\ h \in FiberTrees
       /\ \A m \in Node, s \in Sides : h[m][s] = IF m = n /\ s = side THEN updated ELSE fiber[m][s]
  <2>1. updated \in FiberSet
    BY <1>10
  <2> HIDE DEF updated
  <2> QED BY <1>2, <2>1 DEF FiberTrees
<1> HIDE DEF updated, h
<1>12. BredOrSame(h, fiber', n, side) /\ CopiedMarks(h, fiber', n, side)
  BY <1>5, <1>11, ChildrenGrow, ChildrenMarks
<1>13. /\ \A m \in Node \ {n} : queues'[m] = queues[m]
       /\ \A i \in Sides : queues'[n][i] = IF mine.queue # 0 /\ i = id THEN result.queue
                                           ELSE queues[n][i]
  <2>1. CASE mine.queue = 0
    BY <1>2, <1>4, <2>1
  <2>2. CASE mine.queue # 0
    <3>1. id \in Sides /\ result.queue \in QueueSet /\ queues' = [queues EXCEPT ![n][id] = result.queue]
      BY <1>4, <1>7, <1>8, <2>2
    <3> HIDE DEF id, mine
    <3> QED BY <1>2, <2>2, <3>1
  <2> QED BY <2>1, <2>2
<1> HIDE DEF id
<1>14. other.queue # 0 => queues'[n][other.queue].first = queues[n][other.queue].first
  BY <1>6, <1>7, <1>13
<1>15. h[n][side] = updated
  BY <1>11
<1>16. updated.time = NoWork \/ \E u \in MadeUpdates : updated.time = level[u]
  BY <1>8, <1>10
<1>17. updated.queue # 0 /\ queues'[n][updated.queue].first # None =>
         updated.time >= level[queues'[n][updated.queue].first]
  BY <1>7, <1>8, <1>10, <1>13
<1>18. BegunMarks(h, n, side)
  <2> HIDE DEF BredOrSame, CopiedMarks
  <2> QED BY <1>1, <1>4, <1>10, <1>11, <1>12, <1>13, <1>14, <1>15, <1>16, <1>17 DEF BegunMarks
<1> QED BY <1>11, <1>18

LEMMA HookMarks ==
  ASSUME HooksAdd, Lists, NEW n \in Node, NEW side \in Sides, NEW render \in Levels,
         HookClosed(n), HookMarked(n, fiber[n][Other(side)]), fiber[n][Other(side)].exists,
         SameMarks(fiber[n][side], fiber[n][Other(side)]), BeginFunction(n, side, render)
  PROVE  \E h \in FiberTrees : BegunMarks(h, n, side)
<1> DEFINE H       == History(n)
           mine    == fiber[n][side]
           old     == fiber[n][Other(side)]
           result  == HookProcessed(hooks[n], old.base, old.baseUpdate, render)
           updated == HookUpdated(mine, result)
           same    == ~mine.fresh /\ updated.state = old.state
           first   == [updated EXCEPT !.effect = ~same]
           h       == [fiber EXCEPT ![n][side] = first]
<1>1. n \in Functions /\ ~NothingToDo(n, side, render)
  BY DEF BeginFunction
<1>2. /\ fiber \in FiberTrees /\ mine \in FiberSet /\ old \in FiberSet
      /\ Other(side) \in Sides /\ Other(side) # side
  BY Others DEF Lists, UpdatesTyped, FiberTrees
<1>3. HookList(n) /\ \A s \in Sides : HookSide(n, fiber[n][s])
  BY <1>1 DEF Lists, NodeLists, ListOf, SideOf
<1>4. /\ IsFiniteSet(MadeUpdates) /\ H \in Seq(Update) /\ H \in Seq(MadeUpdates) /\ IsInjective(H)
      /\ Len(H) \in Nat /\ next \in [Update -> Update \cup {None}]
      /\ level \in [Update -> Levels \cup {NotMade}]
  BY ListFound
<1>5. next' = HookOpened(next, hooks[n], old.baseUpdate) /\ queues' = queues
  BY DEF BeginFunction
<1>6. /\ HookMarked(n, updated) /\ updated.childTime = mine.childTime
      /\ updated.time = NoWork \/ \E u \in MadeUpdates : updated.time = level[u]
      /\ old.baseUpdate # None => updated.baseUpdate # None
      /\ old.time >= render /\ old.time # NoWork => updated.state # old.state
  <2> HIDE DEF HookMarked, SameMarks
  <2> QED BY <1>1, HookRendered
<1>7. PICK b \in 0 .. Len(H) : HookFrom(old.base, old.baseUpdate, H, b)
  BY <1>2, <1>3 DEF HookSide
<1>8. /\ CircleOf(next, H) /\ hooks[n].last = LastOf(H)
      /\ \A i \in 1 .. Len(H) : eager[H[i]] = <<>> \/ eager[H[i]][1] \in Possible(H)[i]
  BY <1>3 DEF HookList
<1>9. /\ result.state \in Seq(Update) /\ result.base \in Seq(Update)
      /\ result.baseUpdate \in Update \cup {None} /\ result.remaining \in Levels
  <2> HIDE DEF H
  <2>1. /\ result.state \in Possible(H)[Len(H)] /\ result.remaining \in Levels
        /\ \E c \in 0 .. Len(H) : HookFrom(result.base, result.baseUpdate, H, c)
    <3> HIDE DEF old
    <3> QED BY <1>4, <1>7, <1>8, HookIsProcessed
  <2> HIDE DEF result
  <2>2. result.state \in Seq(Update)
    BY <1>4, <2>1, PossibleStates
  <2>3. PICK c \in 0 .. Len(H) : HookFrom(result.base, result.baseUpdate, H, c)
    BY <2>1
  <2>4. result.base \in Seq(Update)
    BY <1>4, <2>3, PossibleStates DEF HookFrom
  <2>5. result.baseUpdate \in Update \cup {None}
    BY <1>4, <2>3 DEF HookFrom
  <2> QED BY <2>1, <2>2, <2>4, <2>5
<1> HIDE DEF result
<1>10. NoWork \in Levels /\ mine.time \in Levels /\ old.time \in Levels
  BY <1>2, ConstantTypes DEF Levels, NoWork, Sync, FiberSet
<1>11. updated \in FiberSet /\ updated.exists = mine.exists /\ updated.kids = mine.kids
  <2> HIDE DEF mine
  <2> QED BY <1>2, <1>9, <1>10 DEF FiberSet, HookUpdated
<1>12. /\ first \in FiberSet /\ first.exists = mine.exists /\ first.kids = mine.kids
       /\ first.time = updated.time /\ first.childTime = updated.childTime
       /\ first.state = updated.state /\ first.baseUpdate = updated.baseUpdate
  <2>1. (~same) \in BOOLEAN
    OBVIOUS
  <2> HIDE DEF updated, same, mine
  <2> QED BY <1>11, <2>1 DEF FiberSet
<1>13. (IF same /\ old.time <= render THEN NoWork ELSE old.time) = old.time
  <2> SUFFICES ASSUME same, old.time <= render PROVE old.time = NoWork
    OBVIOUS
  <2>1. ~(mine.time < render) /\ mine.time = old.time
    BY <1>1 DEF NothingToDo, SameMarks
  <2>2. old.time >= render
    <3> HIDE DEF old, mine
    <3>1. old.time \in Nat /\ render \in Nat
      BY <1>10, LevelFacts
    <3> QED BY <2>1, <3>1
  <2> HIDE DEF updated, mine, old
  <2> QED BY <1>6, <2>2
<1>14. /\ h \in FiberTrees
       /\ \A m \in Node, s \in Sides : h[m][s] = IF m = n /\ s = side THEN first ELSE fiber[m][s]
  <2> HIDE DEF first
  <2> QED BY <1>2, <1>12 DEF FiberTrees
<1>15. fiber' = BailedOut(h, n, side, render) \/ fiber' = ChildrenReconciled(h, n, side)
  <2> DEFINE g == [fiber EXCEPT ![n][side] = first,
                                ![n][Other(side)].time = IF same /\ @ <= render THEN NoWork ELSE @]
  <2>1. fiber' = BailedOut(g, n, side, render) \/ fiber' = ChildrenReconciled(g, n, side)
    BY DEF BeginFunction, HookUpdated, result
  <2>2. g = [h EXCEPT ![n][Other(side)].time = IF same /\ @ <= render THEN NoWork ELSE @]
    BY <1>2
  <2>3. h[n][Other(side)] = old
    BY <1>2, <1>14
  <2> HIDE DEF g, h, first, same, updated
  <2>4. g = [h EXCEPT ![n][Other(side)].time = old.time]
    <3>1. h \in [Node -> [Sides -> FiberSet]] /\ h[n][Other(side)].time = old.time
      BY <1>14, <2>3 DEF FiberTrees
    <3> DEFINE t == IF same /\ h[n][Other(side)].time <= render THEN NoWork ELSE h[n][Other(side)].time
    <3>2. t = old.time
      BY <1>13, <3>1
    <3>3. g = [h EXCEPT ![n][Other(side)].time = t]
      BY <2>2
    <3> QED BY <3>2, <3>3
  <2>5. [h EXCEPT ![n][Other(side)].time = old.time] = h
    <3>1. [old EXCEPT !.time = old.time] = old
      <4> HIDE DEF old
      <4> QED BY <1>2 DEF FiberSet
    <3>2. [h EXCEPT ![n][Other(side)].time = old.time] = [h EXCEPT ![n][Other(side)] = old]
      <4> HIDE DEF old
      <4> QED BY <2>3, <3>1
    <3> HIDE DEF old
    <3> QED BY <1>2, <1>14, <2>3, <3>2 DEF FiberTrees
  <2> QED BY <2>1, <2>4, <2>5
<1> HIDE DEF h, first
<1>16. BredOrSame(h, fiber', n, side) /\ CopiedMarks(h, fiber', n, side)
  BY <1>14, <1>15, ChildrenGrow, ChildrenMarks
<1>17. HookMarked(n, first)
  BY <1>6, <1>11, <1>12 DEF HookMarked, HookCovered, Waits, BaseAt
<1>18. IF old.baseUpdate = None THEN next' = next
       ELSE first.baseUpdate # None /\ \A u \in Update \ Range(H) : next'[u] = next[u]
  <2>1. old.baseUpdate = None => next' = next
    BY <1>5 DEF HookOpened
  <2>2. old.baseUpdate = IF b = 0 THEN None ELSE H[b]
    BY <1>7 DEF HookFrom
  <2> HIDE DEF old, H, updated
  <2>3. \A u \in Update \ Range(H) : next'[u] = next[u]
    BY <1>4, <1>5, <1>8, <2>2, OpenedLinks
  <2> QED BY <1>6, <1>12, <2>1, <2>3
<1>19. h[n][side] = first /\ \A m \in Node, s \in Sides : (m # n \/ s # side) => h[m][s] = fiber[m][s]
  BY <1>14
<1>20. first.time = NoWork \/ \E u \in MadeUpdates : first.time = level[u]
  BY <1>6, <1>12
<1>21. BegunMarks(h, n, side)
  <2> HIDE DEF BredOrSame, CopiedMarks, HookMarked, updated
  <2> QED BY <1>1, <1>5, <1>6, <1>12, <1>16, <1>17, <1>18, <1>19, <1>20 DEF BegunMarks
<1> QED BY <1>14, <1>21

LEMMA BeginMarks ==
  ASSUME HooksAdd, Lists, NEW n \in Node, NEW side \in Sides, NEW render \in Levels,
         n \in Functions => HookClosed(n) /\ \A s \in Sides : HookMarked(n, fiber[n][s]),
         fiber[n][Other(side)].exists, SameMarks(fiber[n][side], fiber[n][Other(side)]),
         BeginWork(n, side, render)
  PROVE  \E h \in FiberTrees : BegunMarks(h, n, side)
<1>1. Other(side) \in Sides
  BY Others
<1>2. CASE BeginBailsOut(n, side, render)
  BY <1>2, BailedMarks
<1>3. CASE BeginQueue(n, side, render)
  BY <1>3, QueueMarks
<1>4. CASE BeginFunction(n, side, render)
  BY <1>1, <1>4, HookMarks DEF BeginFunction
<1> QED BY <1>2, <1>3, <1>4 DEF BeginWork
-----------------------------------------------------------------------------
\* The invariant of the marks.  Every fiber that may be copied or committed has a level that
\* fits its list ...
NodeMarked(n) == HookClosed(n) /\ \A s \in Sides : HookMarked(n, fiber[n][s])
InUse(n, s) == n # Root \/ s = current \/ Live

HooksMarked   == \A n \in Functions : NodeMarked(n)
QueuesCovered ==
  \A n \in Node \ Functions, s \in Sides : InUse(n, s) => ClassCovered(n, fiber[n][s])

\* ... and in the tree of `side' a parent has it too, but for those that are open.
Raised(k, p) == p.childTime >= k.time /\ p.childTime >= k.childTime
Bubbled(side, open) ==
  \A k \in Children : Parent[k] \notin open =>
    Raised(fiber[k][side[k]], fiber[Parent[k]][side[Parent[k]]])

\* So it is on the screen, and in the tree of a render below what it still has to complete.
ScreenBubbled == Bubbled(Side, {})
OwnBubbled    == Live => Bubbled(Own, IF work.unit = None THEN {} ELSE Above[work.unit])
RootMarked    == Raised(fiber[Root][current], [childTime |-> root.firstPendingTime])

\* What a render still has to get to is as marked as what it is copied from.
Reached == After[work.unit] \cup (IF At("completeUnitOfWork") THEN {} ELSE {work.unit})
Copies ==
  work.busy /\ work.unit # None =>
    \A n \in Reached : SameMarks(fiber[n][Own[n]], fiber[n][Side[n]])

\* A tree that waits for its commit is the only one, and no level is the idle one.
Alone     == root.finishedWork # 0 => ~work.busy /\ work.unit = None
NoneNever == \A n \in Node, s \in Sides : fiber[n][s].time # Never /\ fiber[n][s].childTime # Never

MarksInv ==
  /\ CallbackInv /\ Alone /\ NoneNever
  /\ HooksMarked /\ QueuesCovered
  /\ Copies /\ ScreenBubbled /\ OwnBubbled /\ RootMarked

\* A component whose fibers are ones that it had before, with the same list, is as marked.
LEMMA MarkedAsBefore ==
  ASSUME MadeOnce, NEW n \in Node, NodeMarked(n), History(n)' = History(n),
         \A u \in Range(History(n)) : level'[u] = level[u] /\ eager'[u] = eager[u]
                                      /\ next'[u] = next[u],
         \A s \in Sides : \E t \in Sides : /\ SameLists(fiber'[n][s], fiber[n][t])
                                           /\ fiber'[n][s].time = fiber[n][t].time
  PROVE  NodeMarked(n)'
<1> DEFINE h == History(n)
<1>1. h' = h /\ Len(h) \in Nat /\ \A i \in 1 .. Len(h) : h[i] \in Range(h)
  BY Histories DEF Range
<1>2. \A i \in 1 .. Len(h) : /\ level'[h[i]] = level[h[i]] /\ eager'[h[i]] = eager[h[i]]
                             /\ next'[h[i]] = next[h[i]]
  BY <1>1
<1> HIDE DEF h
<1>3. ASSUME NEW s \in Sides
      PROVE  HookMarked(n, fiber[n][s])'
  <2>1. PICK t \in Sides : /\ SameLists(fiber'[n][s], fiber[n][t])
                           /\ fiber'[n][s].time = fiber[n][t].time
    OBVIOUS
  <2> DEFINE x == fiber[n][t]
             y == fiber'[n][s]
  <2>2. /\ y.time = x.time /\ y.state = x.state /\ y.exists = x.exists
        /\ \A b : BaseAt(y, h, b) <=> BaseAt(x, h, b)
    BY <2>1 DEF SameLists, BaseAt
  <2>3. HookCovered(n, x) /\ Waits(n, x)
        /\ (x.exists => \A b \in 0 .. Len(h) : BaseAt(x, h, b) => EagerAt(h, b))
    BY DEF NodeMarked, HookMarked, h
  <2> HIDE DEF x, y
  <2>4. HookCovered(n, fiber[n][s])'
    <3> SUFFICES ASSUME NEW b \in 0 .. Len(h), BaseAt(y, h, b), b < Len(h)
                 PROVE  y.time >= level'[h[b + 1]]
      BY <1>1 DEF HookCovered, BaseAt, h, y
    <3>1. x.time >= level[h[b + 1]]
      BY <2>2, <2>3 DEF HookCovered, h
    <3>2. b + 1 \in 1 .. Len(h)
      BY <1>1
    <3> QED BY <1>2, <2>2, <3>1, <3>2
  <2>5. Waits(n, fiber[n][s])'
    <3> SUFFICES ASSUME y.time # NoWork
                 PROVE  \E i \in 1 .. Len(h) :
                          /\ h[i] \notin Range(y.state) /\ level'[h[i]] >= y.time
                          /\ \A b \in 0 .. Len(h) : BaseAt(y, h, b) => i > b
      BY <1>1 DEF Waits, BaseAt, h, y
    <3>1. PICK i \in 1 .. Len(h) : /\ h[i] \notin Range(x.state) /\ level[h[i]] >= x.time
                                   /\ \A b \in 0 .. Len(h) : BaseAt(x, h, b) => i > b
      BY <2>2, <2>3 DEF Waits, h
    <3> QED BY <1>2, <2>2, <3>1
  <2>6. y.exists => \A b \in 0 .. Len(h) : BaseAt(y, h, b) => EagerAt(h, b)'
    <3>1. \A b : EagerAt(h, b)' <=> EagerAt(h, b)
      BY <1>1, <1>2 DEF EagerAt
    <3> QED BY <2>2, <2>3, <3>1
  <2>7. (fiber[n][s].exists => \A b \in 0 .. Len(h) : BaseAt(fiber[n][s], h, b) => EagerAt(h, b))'
    BY <1>1, <2>6 DEF BaseAt, y
  <2> QED BY <2>4, <2>5, <2>7 DEF HookMarked, h
<1>4. HookClosed(n)'
  <2> SUFFICES ASSUME h # <<>>, NEW s \in Sides, fiber'[n][s].exists, fiber'[n][s].baseUpdate = None
               PROVE  next'[h[Len(h)]] = h[1]
    BY <1>1 DEF HookClosed, h
  <2>1. \E t \in Sides : fiber[n][t].exists /\ fiber[n][t].baseUpdate = None
    BY DEF SameLists
  <2>2. next[h[Len(h)]] = h[1]
    BY <2>1 DEF NodeMarked, HookClosed, h
  <2>3. Len(h) \in 1 .. Len(h)
    <3>1. h \in Seq(Update)
      BY Histories DEF h
    <3> QED BY <1>1, <3>1
  <2> QED BY <1>2, <2>2, <2>3
<1> QED BY <1>3, <1>4 DEF NodeMarked

\* Beginning a component keeps the marks of the two trees, but for what it has done itself.
MarksBegun(h, n, side) ==
  /\ \A m \in Node : SameMarks(fiber'[m][Side'[m]], fiber[m][Side[m]])
  /\ \A m \in Node : m # n => SameMarks(fiber'[m][Own'[m]], fiber[m][Own[m]])
  /\ SameMarks(fiber'[n][side], h[n][side]) /\ SameLists(fiber'[n][side], h[n][side])
  /\ fiber'[n][Other(side)] = fiber[n][Other(side)]
  /\ \A m \in Node \ {n}, s \in Sides :
       \E t \in Sides : /\ SameLists(fiber'[m][s], fiber[m][t])
                        /\ SameMarks(fiber'[m][s], fiber[m][t])

LEMMA TreesBegun ==
  ASSUME ScreenInv, fiber \in FiberTrees, NEW n \in Node, Untouched(fiber, current, n),
         NEW h \in FiberTrees, BegunMarks(h, n, Own[n]), SidesBegun(h, n, Own[n]),
         current' = current
  PROVE  MarksBegun(h, n, Own[n])
<1> DEFINE side == Own[n]
           K    == h[n][side].kids
           g    == fiber'
<1>1. /\ \A m \in Node : Own[m] \in Sides /\ Side[m] \in Sides
      /\ Wired(fiber, Other(current), Own) /\ Wired(fiber, current, Side)
  BY TwoTrees
<1>2. side # Side[n] /\ side \in Sides /\ Side[n] = Other(side) /\ Other(side) # side
      /\ Other(side) \in Sides /\ fiber[n][Side[n]].kids = fiber[n][side].kids
  BY <1>1, Others DEF Untouched, Own, Side
<1>3. /\ BredOrSame(h, g, n, side) /\ CopiedMarks(h, g, n, side)
      /\ \A m \in Node, s \in Sides : (m # n \/ s # side) => h[m][s] = fiber[m][s]
      /\ K = fiber[n][side].kids
  BY DEF BegunMarks
<1>4. \A x : SameMarks(x, x) /\ SameLists(x, x)
  BY DEF SameMarks, SameLists
<1>5. n \notin Range(Kids[n]) /\ \A k \in Range(Kids[n]) : k \in Children /\ k \in Node /\ Parent[k] = n
  BY NotOwnChild, TreeKids, TreeParent
<1>6. \A k \in Range(Kids[n]) : Side[k] = K /\ Own[k] = K
  BY <1>1, <1>2, <1>3, <1>5 DEF Wired
<1>7. /\ Side' = Side /\ Own'[n] = side /\ SameLists(g[n][side], h[n][side])
      /\ \A m \in Node : m # n /\ m \notin Range(Kids[n]) => Own'[m] = Own[m] /\ g[m] = fiber[m]
      /\ \/ \A k \in Range(Kids[n]) : Own'[k] = Own[k] /\ g[k] = fiber[k]
         \/ \A k \in Range(Kids[n]) : Own'[k] # Side[k]
  BY DEF SidesBegun
<1>8. SameMarks(g[n][side], h[n][side])
  BY <1>3 DEF CopiedMarks
<1>9. K \in Sides /\ Other(K) \in Sides /\ Other(K) # K /\ g \in FiberTrees
  <2>1. K \in Sides
    BY <1>2 DEF FiberTrees, FiberSet
  <2>2. g \in FiberTrees
    BY <1>2, <1>3, GrownTree
  <2> QED BY <2>1, <2>2, Others
<1>10. g[n][Other(side)] = fiber[n][Other(side)]
  <2>1. CASE g = h
    BY <1>2, <1>3, <2>1
  <2>2. CASE Bred(h, g, n, side)
    BY <1>2, <1>3, <2>2 DEF Bred
  <2> QED BY <1>3, <2>1, <2>2 DEF BredOrSame
<1>11. g # h => \A k \in Range(Kids[n]) : /\ g[k][K] = fiber[k][K]
                                          /\ SameLists(g[k][Other(K)], fiber[k][K])
                                          /\ SameMarks(g[k][Other(K)], fiber[k][K])
  <2> SUFFICES ASSUME g # h, NEW k \in Range(Kids[n])
               PROVE  /\ g[k][K] = fiber[k][K] /\ SameLists(g[k][Other(K)], fiber[k][K])
                      /\ SameMarks(g[k][Other(K)], fiber[k][K])
    OBVIOUS
  <2>1. h[k][K] = fiber[k][K] /\ Bred(h, g, n, side)
    BY <1>3, <1>5, <1>9 DEF BredOrSame
  <2>2. g[k][K] = h[k][K] /\ SameLists(g[k][Other(K)], h[k][K])
    BY <2>1 DEF Bred, CopyOf
  <2>3. SameMarks(g[k][Other(K)], h[k][K])
    BY <1>3 DEF CopiedMarks
  <2> QED BY <2>1, <2>2, <2>3
<1>12. g = h => \A k \in Range(Kids[n]), s \in Sides : g[k][s] = fiber[k][s]
  BY <1>3, <1>5
<1> HIDE DEF g, K, side
<1>13. \A m \in Node : SameMarks(g[m][Side'[m]], fiber[m][Side[m]])
  <2> SUFFICES ASSUME NEW m \in Node PROVE SameMarks(g[m][Side[m]], fiber[m][Side[m]])
    BY <1>7
  <2>1. CASE m = n
    BY <1>2, <1>4, <1>10, <2>1
  <2>2. CASE m \in Range(Kids[n])
    BY <1>4, <1>6, <1>9, <1>11, <1>12, <2>2
  <2>3. CASE m # n /\ m \notin Range(Kids[n])
    BY <1>4, <1>7, <2>3
  <2> QED BY <2>1, <2>2, <2>3
<1>14. ASSUME NEW m \in Node, m # n PROVE SameMarks(g[m][Own'[m]], fiber[m][Own[m]])
  <2>1. CASE m \in Range(Kids[n])
    <3>1. CASE Own'[m] = Own[m] /\ g[m] = fiber[m]
      BY <1>4, <3>1
    <3>2. CASE Own'[m] # Side[m]
      <4>1. Own'[m] \in Sides /\ Own'[m] = g[n][side].kids
        <5>1. Other(current) \in Sides /\ AreFibers(g) /\ Own' = SideIn(g, Other(current))
          BY <1>9, TwoTrees, TreesAreFibers DEF Own, g
        <5> QED BY <1>5, <1>7, <2>1, <5>1, SidesAreWired DEF Wired
      <4>2. g # h
        BY <1>6, <2>1, <3>2, <4>1 DEF K
      <4>3. Own'[m] = Other(K)
        BY <1>6, <1>9, <2>1, <3>2, <4>1, Others
      <4> QED BY <1>6, <1>11, <2>1, <4>2, <4>3
    <3> QED BY <1>7, <2>1, <3>1, <3>2
  <2>2. CASE m \notin Range(Kids[n])
    BY <1>4, <1>7, <1>14, <2>2
  <2> QED BY <2>1, <2>2
<1>15. ASSUME NEW m \in Node \ {n}, NEW s \in Sides
       PROVE  \E t \in Sides : SameLists(g[m][s], fiber[m][t]) /\ SameMarks(g[m][s], fiber[m][t])
  <2>1. CASE m \in Range(Kids[n]) /\ g # h
    <3>1. s = K \/ s = Other(K)
      BY <1>9, Others
    <3> QED BY <1>4, <1>9, <1>11, <2>1, <3>1
  <2>2. CASE m \in Range(Kids[n]) /\ g = h
    BY <1>4, <1>12, <2>2
  <2>3. CASE m \notin Range(Kids[n])
    BY <1>4, <1>7, <2>3
  <2> QED BY <2>1, <2>2, <2>3
<1> QED BY <1>7, <1>8, <1>10, <1>13, <1>14, <1>15 DEF MarksBegun, g, side

\* Updates in the list of one component are not in that of another.
LEMMA OtherHistory ==
  ASSUME MadeOnce, NEW n \in Node, NEW m \in Node \ {n}
  PROVE  Range(History(m)) \subseteq Update \ Range(History(n))
BY HistoryElements DEF MadeUpdates

\* A unit of work keeps the marks.
LEMMA PerformMarks ==
  ASSUME HooksAdd, NoneIdle, MarksInv, CallbackInv', PerformUnitOfWork
  PROVE  MarksInv'
<1> DEFINE n      == work.unit
           side   == SideIn(fiber, Other(current))[n]
           spawns == Kids[n] # <<>> /\ fiber'[n][side].kids # fiber[n][side].kids
           frame  == [Head(stack) EXCEPT !.at = "completeUnitOfWork"]
           z      == fiber[n][Other(side)]
<1>1. /\ ScreenInv /\ Lists /\ LoopTyped /\ Alive(fiber) /\ CallStack /\ fiber \in FiberTrees
      /\ current \in Sides /\ At("workLoop") /\ work.busy /\ n \in Node /\ n # None
      /\ {"busy", "unit", "time", "effects"} \subseteq DOMAIN work /\ work.time \in Levels
      /\ MadeOnce
  BY DEF MarksInv, CallbackInv, UpdatesInv, ScreenInv, CallStack, PerformUnitOfWork, Lists,
         UpdatesTyped, LoopTyped, FinishedInv
<1>2. /\ BeginWork(n, side, work.time)
      /\ UNCHANGED <<level, called, eager, current, root, made>>
      /\ IF spawns THEN work' = [work EXCEPT !.unit = Head(Kids[n])] /\ stack' = stack
                   ELSE stack' = <<frame>> \o Tail(stack) /\ work' = work
  BY DEF PerformUnitOfWork, BeginWork, Goto
<1>3. Untouched(fiber, current, n)
  BY <1>1 DEF ScreenInv, CursorUntouched, At
<1>4. /\ \A m \in Node : Own[m] \in Sides /\ Side[m] \in Sides
      /\ Wired(fiber, Other(current), Own) /\ Wired(fiber, current, Side)
  BY <1>1, TwoTrees
<1>5. /\ side = Own[n] /\ side \in Sides /\ Side[n] = Other(side) /\ z.exists /\ Other(side) # side
      /\ Other(side) \in Sides /\ fiber[n][side].kids = z.kids
  <2>1. \A m \in Node : fiber[m][Side[m]].exists
    BY <1>1, OwnFibers DEF Side
  <2>2. Side[n] = Other(side) /\ side = Own[n]
    BY <1>1, <1>3, <1>4, Others DEF Untouched, Own, Side
  <2> QED BY <1>1, <1>3, <1>4, <2>1, <2>2, Others DEF Untouched, Own, Side
<1> HIDE DEF n, side, spawns, z
<1>6. n \in Reached
  BY <1>1 DEF Reached, At, n
<1>7. SameMarks(fiber[n][side], z)
  BY <1>1, <1>5, <1>6 DEF MarksInv, Copies, z, n
<1>8. n \in Functions => HookClosed(n) /\ \A s \in Sides : HookMarked(n, fiber[n][s])
  BY DEF MarksInv, HooksMarked, NodeMarked
<1>9. PICK h \in FiberTrees : BegunMarks(h, n, side)
  <2>1. \E h \in FiberTrees : BegunMarks(h, n, side)
    <3> HIDE DEF BegunMarks
    <3> QED BY <1>1, <1>2, <1>5, <1>7, <1>8, BeginMarks DEF z
  <2> QED BY <2>1
<1>10. SidesBegun(h, n, side)
  <2>1. /\ BredOrSame(h, fiber', n, side) /\ fiber \in FiberTrees
        /\ \A m \in Node, s \in Sides : m # n => h[m][s] = fiber[m][s]
        /\ \A s \in Sides : h[n][s].kids = fiber[n][s].kids
    BY <1>1, <1>9 DEF BegunMarks
  <2> HIDE DEF BredOrSame, FiberTrees, ScreenInv, Untouched
  <2> QED BY <1>1, <1>2, <1>3, <1>5, <2>1, GrownSides
<1>11. MarksBegun(h, n, side)
  <2> HIDE DEF BegunMarks, FiberTrees, ScreenInv, Untouched
  <2> QED BY <1>1, <1>2, <1>3, <1>5, <1>9, <1>10, TreesBegun
<1>12. /\ \A m \in Node : SameMarks(fiber'[m][Side'[m]], fiber[m][Side[m]])
       /\ \A m \in Node : m # n => SameMarks(fiber'[m][Own'[m]], fiber[m][Own[m]])
       /\ SameMarks(fiber'[n][side], h[n][side]) /\ SameLists(fiber'[n][side], h[n][side])
       /\ fiber'[n][Other(side)] = z
       /\ \A m \in Node \ {n}, s \in Sides :
            \E t \in Sides : /\ SameLists(fiber'[m][s], fiber[m][t])
                             /\ SameMarks(fiber'[m][s], fiber[m][t])
  BY <1>11 DEF MarksBegun, z
<1>13. /\ \A s \in Sides : s = side \/ s = Other(side)
       /\ Live /\ root'.finishedWork = 0 /\ MadeUpdates' = MadeUpdates
       /\ \A m \in Node : History(m)' = History(m)
  <2>1. root.finishedWork = 0
    BY <1>1 DEF MarksInv, Alone
  <2> QED BY <1>1, <1>2, <1>5, <2>1, Others DEF Live, MadeUpdates, History
<1>14. Alone'
  BY <1>13 DEF Alone
<1>15. NoneNever'
  <2> SUFFICES ASSUME NEW m \in Node, NEW s \in Sides
               PROVE  fiber'[m][s].time # Never /\ fiber'[m][s].childTime # Never
    BY DEF NoneNever
  <2>1. \A k \in Node, t \in Sides : fiber[k][t].time # Never /\ fiber[k][t].childTime # Never
    BY DEF MarksInv, NoneNever
  <2>2. h[n][side].time # Never /\ h[n][side].childTime # Never
    <3>1. /\ h[n][side].childTime = fiber[n][side].childTime
          /\ h[n][side].time \in {NoWork, fiber[n][side].time}
               \/ \E u \in MadeUpdates : h[n][side].time = level[u]
      BY <1>9 DEF BegunMarks
    <3>2. \A u \in MadeUpdates : level[u] # Never
      <4>1. \A u \in MadeUpdates : level[u] \in Levels
        BY <1>1 DEF Lists, UpdatesTyped, MadeUpdates
      <4> QED BY <4>1, LevelFacts DEF NoneIdle
    <3> QED BY <1>1, <1>5, <2>1, <3>1, <3>2 DEF NoWork, Never
  <2> QED BY <1>5, <1>12, <1>13, <2>1, <2>2 DEF SameMarks, z
<1>16. ASSUME NEW m \in Functions, m # n PROVE NodeMarked(m)'
  <2>1. m \in Node
    BY TreeAssumption DEF Children
  <2>2. \A u \in Range(History(m)) : next'[u] = next[u]
    <3>1. next' = next \/ \A u \in Update \ Range(History(n)) : next'[u] = next[u]
      BY <1>9 DEF BegunMarks
    <3> QED BY <1>1, <1>16, <2>1, <3>1, OtherHistory
  <2>3. \A s \in Sides : \E t \in Sides : /\ SameLists(fiber'[m][s], fiber[m][t])
                                          /\ fiber'[m][s].time = fiber[m][t].time
    BY <1>12, <1>16, <2>1 DEF SameMarks
  <2>4. NodeMarked(m)
    BY DEF MarksInv, HooksMarked
  <2> QED BY <1>1, <1>2, <1>13, <2>1, <2>2, <2>3, <2>4, MarkedAsBefore
<1>17. ASSUME NEW k \in Functions, k = n PROVE NodeMarked(k)'
  <2>1. k \in Node /\ History(k)' = History(k) /\ level' = level /\ eager' = eager
    BY <1>1, <1>2, <1>13, <1>17
  <2>2. HookMarked(k, h[n][side]) /\ HookMarked(k, z)
        /\ IF z.baseUpdate = None THEN next' = next ELSE h[n][side].baseUpdate # None
    BY <1>5, <1>8, <1>9, <1>17 DEF BegunMarks, z
  <2>3. ASSUME NEW s \in Sides PROVE HookMarked(k, fiber[k][s])'
    <3> DEFINE y == fiber'[k][s]
    <3>1. \A x : HookMarked(k, x) /\ SameLists(y, x) /\ y.time = x.time => HookMarked(k, fiber[k][s])'
      BY <2>1 DEF HookMarked, HookCovered, Waits, BaseAt, EagerAt, SameLists
    <3>2. CASE s = side
      <4> HIDE DEF HookMarked
      <4> QED BY <1>12, <1>17, <2>2, <3>1, <3>2 DEF SameMarks
    <3>3. CASE s = Other(side)
      <4>1. y = z /\ SameLists(z, z)
        BY <1>12, <1>17, <3>3 DEF SameLists
      <4> HIDE DEF HookMarked
      <4> QED BY <2>2, <3>1, <4>1
    <3> QED BY <1>13, <3>2, <3>3
  <2>4. HookClosed(k)'
    <3>1. CASE z.baseUpdate = None
      <4>1. History(k) # <<>> => next[History(k)[Len(History(k))]] = History(k)[1]
        BY <1>5, <1>8, <1>17, <3>1 DEF HookClosed, z
      <4> QED BY <2>1, <2>2, <3>1, <4>1 DEF HookClosed
    <3>2. CASE z.baseUpdate # None
      <4>1. \A s \in Sides : fiber'[k][s].baseUpdate # None
        BY <1>12, <1>13, <1>17, <2>2, <3>2 DEF SameLists
      <4> QED BY <4>1 DEF HookClosed
    <3> QED BY <3>1, <3>2
  <2> HIDE DEF HookMarked, HookClosed
  <2> QED BY <2>3, <2>4 DEF NodeMarked
<1>18. HooksMarked'
  BY <1>16, <1>17 DEF HooksMarked
<1>19. QueuesCovered'
  <2> SUFFICES ASSUME NEW m \in Node \ Functions, NEW s \in Sides,
                      fiber'[m][s].queue # 0, queues'[m][fiber'[m][s].queue].first # None
               PROVE  fiber'[m][s].time >= level[queues'[m][fiber'[m][s].queue].first]
    BY <1>2 DEF QueuesCovered, ClassCovered
  <2>1. \A t \in Sides : ClassCovered(m, fiber[m][t])
    BY <1>13 DEF MarksInv, QueuesCovered, InUse
  <2>2. CASE m # n
    <3>1. queues'[m] = queues[m]
      BY <1>9, <2>2 DEF BegunMarks
    <3>2. PICK t \in Sides : SameLists(fiber'[m][s], fiber[m][t]) /\ SameMarks(fiber'[m][s], fiber[m][t])
      BY <1>12, <2>2
    <3> QED BY <2>1, <3>1, <3>2 DEF SameLists, SameMarks, ClassCovered
  <2>3. CASE m = n /\ s = side
    <3>1. h[n][side].queue # 0 /\ queues'[n][h[n][side].queue].first # None =>
            h[n][side].time >= level[queues'[n][h[n][side].queue].first]
      BY <1>5, <1>9, <2>1, <2>3 DEF BegunMarks
    <3> QED BY <1>12, <2>3, <3>1 DEF SameLists, SameMarks
  <2>4. CASE m = n /\ s = Other(side)
    <3>1. z.queue # 0 => queues'[n][z.queue].first = queues[n][z.queue].first
      BY <1>9, <2>4 DEF BegunMarks, z
    <3> QED BY <1>5, <1>12, <2>1, <2>4, <3>1 DEF ClassCovered, z
  <2> QED BY <1>13, <2>2, <2>3, <2>4
<1>20. /\ work'.busy /\ work'.unit # None /\ work'.unit \in Node
       /\ Above[n] \subseteq Above[work'.unit]
       /\ Reached' \subseteq Range(Kids[n]) \cup After[n]
  <2>1. stack # <<>> /\ "at" \in DOMAIN Head(stack) /\ Head(stack).at = "workLoop"
        /\ Quiet(Tail(stack))
    BY <1>1 DEF CallStack, At
  <2>2. None \notin Node
    BY NoneAssumption
  <2>3. CASE spawns
    <3>1. work'.busy /\ work'.unit = Head(Kids[n]) /\ Kids[n] # <<>> /\ stack' = stack
      BY <1>1, <1>2, <2>3 DEF spawns
    <3>2. /\ Head(Kids[n]) \in Range(Kids[n])
          /\ After[Head(Kids[n])] \subseteq Range(Kids[n]) \cup After[n]
      BY <1>1, <3>1, FirstChild
    <3>3. Head(Kids[n]) \in Children /\ Parent[Head(Kids[n])] = n /\ Head(Kids[n]) \in Node
      BY <1>1, <3>2, TreeKids, TreeParent
    <3>4. Above[n] \subseteq Above[Head(Kids[n])]
      BY <3>3, AboveNodes
    <3>5. ~At("completeUnitOfWork")'
      BY <2>1, <3>1 DEF At
    <3> QED BY <2>2, <3>1, <3>2, <3>3, <3>4, <3>5 DEF Reached
  <2>4. CASE ~spawns
    <3>1. work' = work /\ stack' = <<frame>> \o Tail(stack)
      BY <1>2, <2>4
    <3>2. "at" \in DOMAIN frame /\ frame.at = "completeUnitOfWork"
      BY <2>1
    <3> HIDE DEF frame
    <3>3. At("completeUnitOfWork")'
      BY <2>1, <3>1, <3>2, OnTop DEF At
    <3> QED BY <1>1, <3>1, <3>3 DEF Reached, n
  <2> QED BY <2>3, <2>4
<1>21. Copies'
  <2> SUFFICES ASSUME NEW m \in Range(Kids[n]) \cup After[n]
               PROVE  SameMarks(fiber'[m][Own'[m]], fiber'[m][Side'[m]])
    BY <1>20 DEF Copies
  <2>1. m \in Node /\ m # n
    BY <1>1, AfterNodes, NotAfterItself, NotOwnChild, TreeKids, TreeParent
  <2>2. SameMarks(fiber[m][Own[m]], fiber[m][Side[m]])
    <3>1. CASE m \in After[n]
      BY <1>1, <3>1 DEF MarksInv, Copies, Reached, n
    <3>2. CASE m \in Range(Kids[n])
      <4>1. m \in Children /\ Parent[m] = n
        BY <1>1, <3>2, TreeKids
      <4>2. Own[m] = Side[m]
        BY <1>4, <1>5, <4>1 DEF Wired, z
      <4> QED BY <4>2 DEF SameMarks
    <3> QED BY <3>1, <3>2
  <2> QED BY <1>12, <2>1, <2>2 DEF SameMarks
<1>22. ScreenBubbled'
  <2>1. \A k \in Children : Raised(fiber[k][Side[k]], fiber[Parent[k]][Side[Parent[k]]])
    BY DEF MarksInv, ScreenBubbled, Bubbled
  <2> QED BY <1>12, <2>1, TreeParent DEF ScreenBubbled, Bubbled, SameMarks, Raised
<1>23. OwnBubbled'
  <2> SUFFICES ASSUME NEW k \in Children, Parent[k] \notin Above[n]
               PROVE  Raised(fiber'[k][Own'[k]], fiber'[Parent[k]][Own'[Parent[k]]])
    BY <1>20 DEF OwnBubbled, Bubbled
  <2>1. Raised(fiber[k][Own[k]], fiber[Parent[k]][Own[Parent[k]]])
    BY <1>1, <1>13 DEF MarksInv, OwnBubbled, Bubbled, n
  <2>2. k \in Node /\ Parent[k] \in Node /\ Parent[k] # n /\ k # n
    BY <1>1, AboveNodes, TreeParent
  <2>3. /\ SameMarks(fiber'[k][Own'[k]], fiber[k][Own[k]])
        /\ SameMarks(fiber'[Parent[k]][Own'[Parent[k]]], fiber[Parent[k]][Own[Parent[k]]])
    BY <1>12, <2>2
  <2> QED BY <2>1, <2>3 DEF SameMarks, Raised
<1>24. RootMarked'
  <2>1. Root \in Node /\ Side[Root] = current
    BY <1>4, TreeAssumption DEF Wired
  <2>2. Side'[Root] = current
    BY <1>10, <2>1 DEF SidesBegun
  <2>3. SameMarks(fiber'[Root][current], fiber[Root][current])
    BY <1>12, <2>1, <2>2
  <2> QED BY <1>2, <2>3 DEF MarksInv, RootMarked, Raised, SameMarks
<1> QED BY <1>14, <1>15, <1>18, <1>19, <1>21, <1>22, <1>23, <1>24 DEF MarksInv

-----------------------------------------------------------------------------
\* What changes nothing of the trees and the queues, nor of what is to be rendered, keeps
\* the marks.
LEMMA UntouchedMarks ==
  ASSUME MarksInv, CallbackInv', UNCHANGED <<level, next, eager, fiber, queues, current, made>>,
         root'.firstPendingTime = root.firstPendingTime, work'.unit = work.unit,
         Alone', Live' => Live,
         work'.busy => work.busy /\ ~At("completeUnitOfWork") /\ ~At("completeUnitOfWork")'
  PROVE  MarksInv'
<1>1. /\ fiber' = fiber /\ queues' = queues /\ level' = level /\ next' = next /\ eager' = eager
      /\ current' = current /\ made' = made
  OBVIOUS
<1>2. Own' = Own /\ Side' = Side
  BY <1>1 DEF Own, Side
<1>3. \A n : History(n)' = History(n)
  BY <1>1 DEF History
<1>4. HooksMarked'
  BY <1>1, <1>3 DEF MarksInv, HooksMarked, NodeMarked, HookClosed, HookMarked, HookCovered, Waits,
                    BaseAt, EagerAt
<1>5. QueuesCovered'
  BY <1>1 DEF MarksInv, QueuesCovered, ClassCovered, InUse
<1>6. Copies'
  BY <1>1, <1>2 DEF MarksInv, Copies, Reached
<1>7. ScreenBubbled' /\ OwnBubbled' /\ NoneNever' /\ RootMarked'
  BY <1>1, <1>2 DEF MarksInv, ScreenBubbled, OwnBubbled, Bubbled, NoneNever, RootMarked, Raised
<1> QED BY <1>4, <1>5, <1>6, <1>7 DEF MarksInv

\* Forgetting a callback or asking for one does not change what is pending.
LEMMA FirstPendingStays ==
  ASSUME FinishedInv, BeginRenderRoot \/ CommitReturns \/ EndCommit
  PROVE  root'.firstPendingTime = root.firstPendingTime
<1>1. "firstPendingTime" \in DOMAIN root
  BY DEF FinishedInv, RootFields
<1>2. ReturnNull(root) => root'.firstPendingTime = root.firstPendingTime
  BY <1>1 DEF ReturnNull
<1>3. \A priority, expiration :
        ScheduleCallbackForRoot(root, priority, expiration) =>
          root'.firstPendingTime = root.firstPendingTime
  BY <1>1 DEF ScheduleCallbackForRoot
<1>4. root' = root \/ ReturnNull(root)
        \/ \E priority, expiration : ScheduleCallbackForRoot(root, priority, expiration)
  <2>1. CASE BeginRenderRoot
    BY <2>1 DEF BeginRenderRoot
  <2>2. CASE CommitReturns
    BY <2>2 DEF CommitReturns
  <2>3. CASE EndCommit
    BY <2>3 DEF EndCommit
  <2> QED BY <2>1, <2>2, <2>3
<1> QED BY <1>2, <1>3, <1>4

\* Calls, returns and the end of a commit keep the marks.
LEMMA CallsMarks ==
  ASSUME MarksInv, CallbackInv',
         \/ \E event \in Events : BeginEvent(event)
         \/ EndEvent \/ BeginFlush \/ FlushNext \/ BeginPassiveEffects
         \/ Yield \/ BeginCommit \/ CommitNothing \/ BeginRenderRoot \/ CommitReturns
         \/ EndCommit
         \/ \E task \in tasks : RunTask(task)
         \/ Tick
  PROVE  MarksInv'
<1>1. ScreenInv /\ FinishedInv
  BY DEF MarksInv, CallbackInv, UpdatesInv, ScreenInv
<1>2. Stays
  BY <1>1, CallsStay, UpdatesStay
<1>3. UNCHANGED <<level, next, eager, fiber, queues, current, made>>
  BY DEF treeVars, BeginEvent, EndEvent, BeginFlush, FlushNext, BeginPassiveEffects, Yield, BeginCommit,
         CommitNothing, BeginRenderRoot, CommitReturns, EndCommit, RunTask, Tick
<1>4. root'.firstPendingTime = root.firstPendingTime
  <2>1. root' = root \/ BeginRenderRoot \/ CommitReturns \/ EndCommit
    BY DEF BeginEvent, EndEvent, BeginFlush, FlushNext, BeginPassiveEffects, Yield, BeginCommit,
           CommitNothing, RunTask, Tick
  <2> QED BY <1>1, <2>1, FirstPendingStays
<1>5. Alone' /\ Live' = Live
  BY <1>2 DEF MarksInv, Alone, Live, Stays
<1> QED BY <1>2, <1>3, <1>4, <1>5, UntouchedMarks DEF Stays

\* When the render is done nothing of its tree is open.
LEMMA FinishMarks ==
  ASSUME MarksInv, CallbackInv', FinishRender
  PROVE  MarksInv'
<1>1. /\ ScreenInv /\ FinishedInv /\ At("workLoop") /\ work.busy
      /\ {"busy", "unit", "time", "effects"} \subseteq DOMAIN work
      /\ {"finishedWork", "firstPendingTime"} \subseteq DOMAIN root
  BY DEF MarksInv, CallbackInv, UpdatesInv, ScreenInv, CallStack, FinishRender, FinishedInv,
         RootFields
<1>2. /\ UNCHANGED <<level, next, eager, fiber, queues, current, made>>
      /\ work' = [work EXCEPT !.busy = FALSE]
      /\ work.unit = None
      /\ root' = [root EXCEPT !.finishedWork = Other(current),
                              !.finishedExpirationTime = Head(stack).todo]
  BY DEF treeVars, FinishRender
<1>3. work'.unit = work.unit /\ ~work'.busy /\ root'.firstPendingTime = root.firstPendingTime
  BY <1>1, <1>2
<1>4. Alone' /\ Live
  BY <1>1, <1>2, <1>3 DEF Alone, Live
<1> QED BY <1>2, <1>3, <1>4, UntouchedMarks

\* The higher of two levels.
LEMMA HigherIsHigher ==
  ASSUME NEW a \in Levels, NEW b \in Levels
  PROVE  Max({a, b}) \in {a, b} /\ Max({a, b}) >= a /\ Max({a, b}) >= b
<1>1. {a, b} \subseteq 0 .. Sync /\ {a, b} # {} /\ Sync \in Nat
  BY ConstantTypes DEF Levels, NoWork, Sync
<1>2. Max({a, b}) \in {a, b} /\ \A t \in {a, b} : t <= Max({a, b})
  BY <1>1, GreatestOf
<1>3. \A t \in {a, b} : t \in Nat
  BY <1>1
<1> QED BY <1>2, <1>3

\* A commit shows a tree that has all the marks, and the root gets the ones of its fiber.
LEMMA CommitMarks ==
  ASSUME MarksInv, CallbackInv', CommitTree
  PROVE  MarksInv'
<1> DEFINE top == root.finishedWork
<1>1. /\ ScreenInv /\ Lists /\ FinishedInv /\ fiber \in FiberTrees /\ current \in Sides /\ top # 0
      /\ queues \in [Node -> [Sides -> QueueSet]]
  BY DEF MarksInv, CallbackInv, UpdatesInv, ScreenInv, FinishedInv, Lists, UpdatesTyped, CommitTree
<1>2. /\ UNCHANGED <<level, next, eager, fiber, made>> /\ current' = top
      /\ root' = RootCommitted(fiber[Root][top])
      /\ work' = [busy |-> FALSE, unit |-> None, effects |-> <<>>,
                  time |-> IF work.busy THEN NoWork ELSE work.time]
      /\ queues' = [n \in Node |-> IF n \in Range(work.effects)
                      THEN [i \in Sides |-> CloneOf(queues[n][i])] ELSE queues[n]]
  BY DEF CommitTree
<1>3. top = Other(current) /\ Other(top) = current /\ top \in Sides /\ Live
  BY <1>1, Others DEF FinishedInv, Live
<1> HIDE DEF top
<1>4. ~work'.busy /\ root'.finishedWork = 0
  BY <1>2 DEF RootCommitted
<1>5. ~Live' /\ Alone'
  BY <1>4 DEF Live, Alone
<1>6. Side' = Own /\ Own' = Side
  BY <1>2, <1>3 DEF Own, Side
<1>7. \A n : History(n)' = History(n)
  BY <1>2 DEF History
<1>8. HooksMarked'
  BY <1>2, <1>7 DEF MarksInv, HooksMarked, NodeMarked, HookClosed, HookMarked, HookCovered, Waits,
                    BaseAt, EagerAt
<1>9. \A n \in Node, q \in Sides : queues'[n][q].first = queues[n][q].first
  <2> SUFFICES ASSUME NEW n \in Node, NEW q \in Sides
               PROVE  queues'[n][q].first = queues[n][q].first
    OBVIOUS
  <2>1. CASE n \in Range(work.effects)
    <3>1. queues[n][q] \in QueueSet /\ queues'[n][q] = CloneOf(queues[n][q])
      BY <1>1, <1>2, <2>1
    <3> QED BY <3>1, QueueIsCloned
  <2>2. CASE n \notin Range(work.effects)
    BY <1>2, <2>2
  <2> QED BY <2>1, <2>2
<1>10. QueuesCovered'
  <2> SUFFICES ASSUME NEW n \in Node \ Functions, NEW s \in Sides,
                      fiber[n][s].queue # 0, queues'[n][fiber[n][s].queue].first # None
               PROVE  fiber[n][s].time >= level[queues'[n][fiber[n][s].queue].first]
    BY <1>2 DEF QueuesCovered, ClassCovered
  <2>1. ClassCovered(n, fiber[n][s])
    BY <1>3 DEF MarksInv, QueuesCovered, InUse
  <2>2. fiber[n][s].queue \in Sides
    BY <1>1 DEF FiberTrees, FiberSet
  <2> QED BY <1>9, <2>1, <2>2 DEF ClassCovered
<1>11. Copies' /\ OwnBubbled'
  BY <1>4, <1>5 DEF Copies, OwnBubbled
<1>12. ScreenBubbled'
  <2>1. work.unit = None
    BY <1>1 DEF MarksInv, Alone, top
  <2> QED BY <1>2, <1>3, <1>6, <2>1 DEF MarksInv, OwnBubbled, ScreenBubbled, Bubbled
<1>13. NoneNever'
  BY <1>2 DEF MarksInv, NoneNever
<1>14. RootMarked'
  <2>1. fiber[Root][top].time \in Levels /\ fiber[Root][top].childTime \in Levels
    BY <1>1, <1>3, TreeAssumption DEF FiberTrees, FiberSet
  <2> QED BY <1>2, <2>1, HigherIsHigher DEF RootMarked, Raised, RootCommitted
<1> QED BY <1>5, <1>8, <1>10, <1>11, <1>12, <1>13, <1>14 DEF MarksInv

\* A render that goes on has what it had; one that begins copies the root, and has the
\* marks of the screen below it.
LEMMA PrepareMarks ==
  ASSUME MarksInv, CallbackInv', Prepare
  PROVE  MarksInv'
<1> DEFINE frame == Head(stack)
           loop  == [frame EXCEPT !.at = "workLoop"]
           other == Other(current)
<1>1. /\ ScreenInv /\ Lists /\ FinishedInv /\ CallStack /\ fiber \in FiberTrees /\ MadeOnce
      /\ At("prepare") /\ PrepareStack(frame.todo) /\ current \in Sides
      /\ {"finishedWork", "firstPendingTime"} \subseteq DOMAIN root
      /\ UNCHANGED <<level, next, called, eager, queues, hooks, current, made>>
  BY DEF MarksInv, CallbackInv, UpdatesInv, ScreenInv, Lists, UpdatesTyped, Prepare, FinishedInv,
         RootFields
<1>2. stack # <<>> /\ Quiet(Tail(stack)) /\ "at" \in DOMAIN frame /\ ~At("completeUnitOfWork")
  BY <1>1, Elsewhere
<1>3. Quiet(stack') \/ stack' = <<loop>> \o Tail(stack)
  <2>1. ReturnContinuation(now) \/ stack' = <<loop>> \o Tail(stack)
    BY DEF Prepare, Goto
  <2> QED BY <2>1, <1>1, <1>2, ContinuationIsQuiet
<1>4. "at" \in DOMAIN loop /\ loop.at = "workLoop"
  BY <1>2
<1> HIDE DEF loop, frame, other
<1>5. ~At("completeUnitOfWork")'
  <2>1. CASE Quiet(stack')
    BY <2>1, QuietCallStack
  <2>2. CASE stack' = <<loop>> \o Tail(stack)
    <3>1. Head(stack') = loop
      BY <2>2, <1>2, OnTop
    <3> QED BY <3>1, <1>4 DEF At
  <2> QED BY <1>3, <2>1, <2>2
<1>6. CASE UNCHANGED <<fiber, work, root>>
  <2>1. UNCHANGED <<level, next, eager, fiber, queues, current, made>>
    BY <1>1, <1>6
  <2>2. Alone' /\ Live' = Live
    BY <1>6 DEF MarksInv, Alone, Live
  <2> QED BY <1>1, <1>2, <1>5, <1>6, <2>1, <2>2, UntouchedMarks
<1>7. CASE /\ fiber' = WorkInProgress(fiber, Root, current)
           /\ work' = [busy |-> TRUE, unit |-> Root, time |-> frame.todo, effects |-> <<>>]
           /\ root' = [root EXCEPT !.finishedWork = 0, !.finishedExpirationTime = NoWork]
  <2>1. Side' = Side /\ \A n \in Node : Own'[n] # Side'[n] => n = Root
    BY <1>1, <1>7, FreshSides DEF Apart
  <2>2. /\ Root \in Node /\ other \in Sides /\ other # current
        /\ Side[Root] = current /\ Wired(fiber, current, Side)
    BY <1>1, Others, TwoTrees, TreeAssumption DEF Wired, other
  <2>3. /\ CopyOf(fiber'[Root][other], fiber[Root][current])
        /\ SameMarks(fiber'[Root][other], fiber[Root][current])
        /\ \A m \in Node, s \in Sides : (m # Root \/ s # other) => fiber'[m][s] = fiber[m][s]
    BY <1>1, <1>7, <2>2, CopiedInTree, MarksCopied DEF other
  <2>4. Own'[Root] = other
    <3>1. ScreenInv' /\ current' = current
      BY <1>1 DEF UpdatesInv, CallbackInv
    <3>2. Wired(fiber, Other(current), Own)'
      BY <3>1, TwoTrees, PTL
    <3> QED BY <3>1, <3>2 DEF Wired, other
  <2>5. work'.busy /\ work'.unit = Root /\ root'.finishedWork = 0
        /\ root'.firstPendingTime = root.firstPendingTime
    BY <1>1, <1>7
  <2>6. Alone'
    BY <2>5 DEF Alone
  <2>7. NoneNever'
    BY <1>1, <2>2, <2>3 DEF MarksInv, NoneNever, SameMarks
  <2>8. HooksMarked'
    <3> SUFFICES ASSUME NEW n \in Functions PROVE NodeMarked(n)'
      BY DEF HooksMarked
    <3>1. n \in Node /\ n # Root /\ NodeMarked(n)
      BY TreeAssumption DEF MarksInv, HooksMarked, Children
    <3>2. History(n)' = History(n)
      BY <1>1 DEF History
    <3>3. \A s \in Sides : fiber'[n][s] = fiber[n][s] /\ SameLists(fiber[n][s], fiber[n][s])
      BY <2>3, <3>1 DEF SameLists
    <3> QED BY <1>1, <3>1, <3>2, <3>3, MarkedAsBefore
  <2>9. QueuesCovered'
    <3> SUFFICES ASSUME NEW n \in Node \ Functions, NEW s \in Sides, InUse(n, s)'
                 PROVE  ClassCovered(n, fiber[n][s])'
      BY DEF QueuesCovered
    <3>1. CASE n # Root \/ s # other
      <4>1. n # Root \/ s = current
        BY <1>1, <3>1, Others DEF other
      <4> QED BY <1>1, <2>3, <3>1, <4>1 DEF MarksInv, QueuesCovered, InUse, ClassCovered
    <3>2. CASE n = Root /\ s = other
      <4>1. ClassCovered(Root, fiber[Root][current])
        BY <1>1, <3>2 DEF MarksInv, QueuesCovered, InUse
      <4> QED BY <1>1, <2>3, <3>2, <4>1 DEF ClassCovered, CopyOf, SameLists, SameMarks
    <3> QED BY <3>1, <3>2
  <2>10. Copies'
    <3>1. Reached' = {Root}
      BY <1>5, <2>5, AfterNodes DEF Reached
    <3>2. fiber'[Root][current] = fiber[Root][current]
      BY <1>1, <2>2, <2>3
    <3>3. SameMarks(fiber'[Root][Own'[Root]], fiber'[Root][Side'[Root]])
      BY <2>1, <2>2, <2>3, <2>4, <3>2
    <3> QED BY <3>1, <3>3 DEF Copies
  <2>11. \A m \in Node : fiber'[m][Side[m]] = fiber[m][Side[m]]
    BY <2>2, <2>3, <1>1, TwoTrees
  <2>12. ScreenBubbled'
    BY <2>1, <2>11, TreeParent DEF MarksInv, ScreenBubbled, Bubbled
  <2>13. OwnBubbled'
    <3> SUFFICES ASSUME NEW k \in Children, Parent[k] # Root
                 PROVE  Raised(fiber'[k][Own'[k]], fiber'[Parent[k]][Own'[Parent[k]]])
      <4>1. Above[work'.unit] = {Root} /\ work'.unit # None
        BY <2>2, <2>5, AboveNodes, NoneAssumption
      <4> QED BY <4>1 DEF OwnBubbled, Bubbled
    <3>1. k \in Node /\ k # Root /\ Parent[k] \in Node
      BY TreeParent
    <3>2. Own'[k] = Side[k] /\ Own'[Parent[k]] = Side[Parent[k]]
      BY <2>1, <3>1
    <3> QED BY <2>11, <3>1, <3>2 DEF MarksInv, ScreenBubbled, Bubbled
  <2>14. RootMarked'
    BY <1>1, <2>2, <2>3, <2>5 DEF MarksInv, RootMarked, Raised
  <2> QED BY <2>6, <2>7, <2>8, <2>9, <2>10, <2>12, <2>13, <2>14 DEF MarksInv
<1> QED BY <1>1, <1>6, <1>7 DEF PrepareStack

-----------------------------------------------------------------------------
\* The nodes that an update marks above its own.
Ancestors ==
  LET above[m \in Node] == IF m = Root THEN {} ELSE {Parent[m]} \cup above[Parent[m]]
  IN  above

LEMMA AncestorsAbove == \A n \in Node : Ancestors[n] = Above[n] \ {n}
<1> DEFINE V == SUBSET Node
           step == [n \in Node |-> [v \in V |-> {Parent[n]} \cup v]]
           out  == [n \in Node |-> {}]
           Eq(above) == above = [n \in Node |-> IF n = Root THEN {}
                                                ELSE {Parent[n]} \cup above[Parent[n]]]
<1>1. \A n \in Node : IF n \in Children THEN \A v \in V : step[n][v] \in V ELSE out[n] \in V
  BY TreeParent
<1>2. PICK above \in [Node -> V] : Computes(above, Node, Children, Parent, step, out)
  <2>1. Children \subseteq Children
    OBVIOUS
  <2> HIDE DEF step, out, Eq, V
  <2> QED BY <1>1, <2>1, AlongParents
<1>3. \A n \in Children : step[n][above[Parent[n]]] = {Parent[n]} \cup above[Parent[n]]
  BY TreeParent
<1>4. Eq(above)
  BY <1>2, <1>3 DEF Children, Computes
<1> HIDE DEF step, out, V
<1>5. Ancestors = CHOOSE s : Eq(s)
  BY DEF Ancestors
<1>6. Eq(Ancestors)
  <2> HIDE DEF Eq
  <2> QED BY <1>4, <1>5
<1>7. Ancestors = [n \in Node |-> IF n = Root THEN {} ELSE {Parent[n]} \cup Ancestors[Parent[n]]]
  BY <1>6
<1> HIDE DEF Eq
<1> DEFINE G == { n \in Node : Ancestors[n] = Above[n] \ {n} }
<1>8. Root \in G
  BY <1>7, AboveNodes, TreeAssumption
<1>9. \A n \in Children : Parent[n] \in G => n \in G
  <2> SUFFICES ASSUME NEW n \in Children, Ancestors[Parent[n]] = Above[Parent[n]] \ {Parent[n]}
               PROVE  n \in Node /\ Ancestors[n] = Above[n] \ {n}
    OBVIOUS
  <2>1. n \in Node /\ n # Root /\ Parent[n] \in Node
    BY TreeParent
  <2>2. Ancestors[n] = {Parent[n]} \cup Ancestors[Parent[n]]
    BY <1>7, <2>1
  <2>3. Above[n] = {n} \cup Above[Parent[n]] /\ n \notin Above[Parent[n]] /\ Parent[n] \in Above[Parent[n]]
    BY <2>1, AboveNodes, AboveAbove
  <2> QED BY <2>1, <2>2, <2>3
<1> HIDE DEF G
<1>10. Node \subseteq G
  BY <1>8, <1>9, TreeInduction
<1> QED BY <1>10 DEF G

\* markUpdateTimeFromFiberToRoot raises the level of both fibers of the node, and that of
\* the children of both fibers of its ancestors.
LEMMA MarkedLevels ==
  ASSUME NEW f \in FiberTrees, NEW n \in Node, NEW expiration \in Levels
  PROVE  LET g == Marked(f, n, expiration)
         IN  /\ g \in FiberTrees
             /\ \A m \in Node, s \in Sides :
                  /\ SameFiber(g[m][s], f[m][s])
                  /\ g[m][s].time = IF m = n THEN Max({f[m][s].time, expiration}) ELSE f[m][s].time
                  /\ g[m][s].childTime = IF m \in Above[n] \ {n}
                                           THEN Max({f[m][s].childTime, expiration})
                                           ELSE f[m][s].childTime
<1> DEFINE g == Marked(f, n, expiration)
           raised(time) == Max({time, expiration})
<1>1. g = [m \in Node |-> [s \in Sides |->
        IF m = n THEN [f[m][s] EXCEPT !.time = raised(@)]
        ELSE IF m \in Ancestors[n]
          THEN [f[m][s] EXCEPT !.childTime = raised(@)] ELSE f[m][s]]]
  BY Zenon DEF Marked, Ancestors
<1>2. Steady(f, g)
  BY MarkedIsSteady
<1>3. ASSUME NEW m \in Node, NEW s \in Sides
      PROVE  /\ g[m][s].time = IF m = n THEN raised(f[m][s].time) ELSE f[m][s].time
             /\ g[m][s].childTime = IF m \in Above[n] \ {n} THEN raised(f[m][s].childTime)
                                    ELSE f[m][s].childTime
  <2> DEFINE x == f[m][s]
  <2>1. {"time", "childTime"} \subseteq DOMAIN x
    BY DEF FiberTrees, FiberSet
  <2>2. g[m][s] = IF m = n THEN [x EXCEPT !.time = raised(x.time)]
                  ELSE IF m \in Ancestors[n] THEN [x EXCEPT !.childTime = raised(x.childTime)]
                  ELSE x
    BY <1>1, Zenon
  <2>3. Ancestors[n] = Above[n] \ {n}
    BY AncestorsAbove
  <2> HIDE DEF g, raised, x
  <2> QED BY <2>1, <2>2, <2>3 DEF x
<1> QED BY <1>2, <1>3 DEF Steady

-----------------------------------------------------------------------------
\* A queue that is made leaves the levels.
LEMMA QueuesKeepMarks ==
  ASSUME fiber \in FiberTrees, NEW n \in Node
  PROVE  \A m \in Node, s \in Sides : SameMarks(WithQueues(n)[m][s], fiber[m][s])
<1> DEFINE g == WithQueues(n)
           x(s) == fiber[n][s]
           y(s) == IF s \in Living(n) THEN [x(s) EXCEPT !.queue = QueueOf(n, s)] ELSE x(s)
<1>1. g = [fiber EXCEPT ![n] = [s \in Sides |-> y(s)]]
  BY Zenon DEF WithQueues
<1>2. ASSUME NEW s \in Sides PROVE SameMarks(y(s), x(s))
  <2>1. x(s) \in FiberSet
    BY DEF FiberTrees
  <2> HIDE DEF x
  <2> QED BY <2>1 DEF FiberSet, SameMarks
<1>3. \A s \in Sides : g[n][s] = y(s)
  <2> HIDE DEF y, g
  <2> QED BY <1>1 DEF FiberTrees
<1>4. \A m \in Node, s \in Sides : m # n => g[m][s] = fiber[m][s]
  <2> HIDE DEF y, g
  <2> QED BY <1>1 DEF FiberTrees
<1> HIDE DEF g, y
<1>5. \A s \in Sides : SameMarks(g[n][s], fiber[n][s])
  BY <1>2, <1>3
<1>6. \A m \in Node, s \in Sides : m # n => SameMarks(g[m][s], fiber[m][s])
  BY <1>4 DEF SameMarks
<1> QED BY <1>5, <1>6 DEF g

\* What an update of level `e' that is made of a component changes: its list, and the levels
\* up to the root.
Raises(n, e) ==
  \A m \in Node, s \in Sides :
    LET x == fiber[m][s]
        y == fiber'[m][s]
    IN  /\ y.exists = x.exists /\ y.state = x.state
        /\ y.base = x.base /\ y.baseUpdate = x.baseUpdate
        /\ y.queue = IF m = n /\ n \notin Functions /\ x.exists THEN QueueOf(n, s) ELSE x.queue
        /\ y.time = IF m = n THEN Max({x.time, e}) ELSE x.time
        /\ y.childTime = IF m \in Above[n] \ {n} THEN Max({x.childTime, e}) ELSE x.childTime

UpdateMade(n, u, e) ==
  /\ n \in Node /\ n = Target[u] /\ u \in Update /\ e \in Levels
  /\ level[u] = NotMade /\ level' = [level EXCEPT ![u] = e]
  /\ FibersStay /\ Raises(n, e) /\ EnqueuedOnce(n, u)
  /\ History(n)' = Append(History(n), u)
  /\ \A m \in Node \ {n} : History(m)' = History(m)
  /\ IF n \in Functions THEN EnqueuedOnHook(n, u)
     ELSE \E side \in Living(n) : EnqueuedOnQueue(n, side, u)
  /\ root'.firstPendingTime = Max({root.firstPendingTime, e})

\* An update of a hook that adds to the state is never made for nothing.
LEMMA UpdateIsMade ==
  ASSUME HooksAdd, Lists, Alive(fiber), current \in Sides, current' = current, NEW u \in Update,
         NEW priority, NEW isInsideReact, NEW isDiscrete,
         {"callbackNode", "callbackExpirationTime", "firstPendingTime"} \subseteq DOMAIN root,
         ComputedExpiration(RequestedTime(isInsideReact), priority) \in Levels,
         MakeUpdate(u, priority, isInsideReact, isDiscrete)
  PROVE  UpdateMade(Target[u], u, ComputedExpiration(RequestedTime(isInsideReact), priority))
<1> DEFINE n          == Target[u]
           e          == ComputedExpiration(RequestedTime(isInsideReact), priority)
           g          == IF n \in Functions THEN fiber ELSE WithQueues(n)
           side       == IF n = Root THEN current ELSE 1
<1>1. n \in Node /\ side \in Sides /\ e \in Levels
  BY WorkLoopAssumption DEF Sides
<1>2. UpdatesTyped /\ MadeOnce /\ fiber \in FiberTrees /\ (\A m \in Node : NodeLists(m))
  BY DEF Lists, UpdatesTyped
<1>3. /\ level[u] = NotMade /\ level' = [level EXCEPT ![u] = e]
      /\ made' = [made EXCEPT ![n] = Append(@, u)]
      /\ IF n \in Functions THEN EnqueuedOnHook(n, u) ELSE EnqueuedOnQueue(n, side, u)
  BY DEF MakeUpdate
<1>4. ~EagerlySame(n, u)
  <2> SUFFICES ASSUME n \in Functions PROVE Applied(hooks[n].rendered, u) # hooks[n].rendered
    BY DEF EagerlySame
  <2>1. hooks[n].rendered \in Seq(Update) /\ u \notin Noops \cup Replacing
    BY <1>1, <1>2 DEF UpdatesTyped, HookSet, HooksAdd
  <2> QED BY <2>1, AddedToState
<1>5. ScheduleUpdate(n, g, e, priority, isDiscrete)
  BY <1>4 DEF MakeUpdate
<1>6. side \in Living(n)
  BY <1>1 DEF Alive, Living, Sides
<1>7. FibersStay
  BY <1>2, UpdatesLeave
<1>8. root'.firstPendingTime = Max({root.firstPendingTime, e})
  <2> DEFINE first == Max({root.firstPendingTime, e})
             r     == [root EXCEPT !.firstPendingTime = first]
  <2>1. ScheduleCallbackForRoot(r, priority, e)
    BY <1>5 DEF ScheduleUpdate
  <2>2. r.firstPendingTime = first /\ DOMAIN r = DOMAIN root
    OBVIOUS
  <2> HIDE DEF r, first
  <2>3. root' = r \/ \E id : root' = [r EXCEPT !.callbackNode = id, !.callbackExpirationTime = e]
    BY <2>1 DEF ScheduleCallbackForRoot
  <2> QED BY <2>2, <2>3 DEF first
<1>9. fiber' = Marked(g, n, e)
  BY <1>5 DEF ScheduleUpdate
<1> HIDE DEF n, e, side
<1>10. g \in FiberTrees
  BY <1>1, <1>2, QueuesAreReferred
<1>11. ASSUME NEW m \in Node, NEW s \in Sides
       PROVE  LET x == fiber[m][s]
                  y == g[m][s]
              IN  /\ y.exists = x.exists /\ y.state = x.state /\ SameMarks(y, x)
                  /\ y.queue = IF m = n /\ n \notin Functions /\ x.exists THEN QueueOf(n, s)
                               ELSE x.queue
  <2>1. CASE n \in Functions
    BY <2>1 DEF SameMarks
  <2>2. CASE n \notin Functions
    <3>1. SameMarks(g[m][s], fiber[m][s])
      BY <1>1, <1>2, <2>2, QueuesKeepMarks
    <3>2. m # n => g[m][s] = fiber[m][s]
      BY <1>1, <1>2, <2>2, QueuesAreReferred
    <3>3. /\ g[n][s].queue = IF fiber[n][s].exists THEN QueueOf(n, s) ELSE fiber[n][s].queue
          /\ g[n][s].exists = fiber[n][s].exists /\ g[n][s].state = fiber[n][s].state
      BY <1>1, <1>2, <2>2, QueuesAreReferred
    <3> HIDE DEF g
    <3> QED BY <2>2, <3>1, <3>2, <3>3
  <2> QED BY <2>1, <2>2
<1> HIDE DEF g
<1>12. Raises(n, e)
  <2> SUFFICES ASSUME NEW m \in Node, NEW s \in Sides
               PROVE  LET x == fiber[m][s]
                          y == fiber'[m][s]
                      IN  /\ y.exists = x.exists /\ y.state = x.state
                          /\ y.base = x.base /\ y.baseUpdate = x.baseUpdate
                          /\ y.queue = IF m = n /\ n \notin Functions /\ x.exists THEN QueueOf(n, s)
                                       ELSE x.queue
                          /\ y.time = IF m = n THEN Max({x.time, e}) ELSE x.time
                          /\ y.childTime = IF m \in Above[n] \ {n} THEN Max({x.childTime, e})
                                           ELSE x.childTime
    BY DEF Raises
  <2>1. /\ SameFiber(fiber'[m][s], g[m][s])
        /\ fiber'[m][s].time = IF m = n THEN Max({g[m][s].time, e}) ELSE g[m][s].time
        /\ fiber'[m][s].childTime = IF m \in Above[n] \ {n} THEN Max({g[m][s].childTime, e})
                                    ELSE g[m][s].childTime
    <3> DEFINE f == Marked(g, n, e)
    <3>1. \A k \in Node, t \in Sides :
            /\ SameFiber(f[k][t], g[k][t])
            /\ f[k][t].time = IF k = n THEN Max({g[k][t].time, e}) ELSE g[k][t].time
            /\ f[k][t].childTime = IF k \in Above[n] \ {n} THEN Max({g[k][t].childTime, e})
                                   ELSE g[k][t].childTime
      BY <1>1, <1>10, MarkedLevels, ZenonT(60)
    <3>2. f = fiber'
      BY <1>9
    <3> HIDE DEF f
    <3> QED BY <3>1, <3>2
  <2>2. g[m][s].time = fiber[m][s].time /\ g[m][s].childTime = fiber[m][s].childTime
    BY <1>11 DEF SameMarks
  <2> QED BY <1>11, <2>1, <2>2 DEF SameFiber, SameLists, SameMarks
<1>13. EnqueuedOnce(n, u)
  <2>1. CASE n \in Functions
    <3>1. EnqueuedOnHook(n, u)
      BY <1>3, <2>1
    <3> QED BY <1>2, <1>3, <2>1, <3>1, HookEnqueued DEF EnqueuedOnce, UpdatesTyped
  <2>2. CASE n \notin Functions
    <3>1. EnqueuedOnQueue(n, side, u) /\ side \in Sides /\ n \in Node \ Functions
      BY <1>1, <1>3, <2>2
    <3>2. hooks' = hooks /\ eager' = eager
      BY <3>1 DEF EnqueuedOnQueue
    <3>3. /\ next' \in [Update -> Update \cup {None}]
          /\ \A v \in Update \ Range(History(n)) : next'[v] = next[v]
          /\ queues' \in [Node -> [Sides -> QueueSet]]
          /\ \A m \in Node \ {n} : queues'[m] = queues[m]
      BY <1>3, <1>6, <3>1, ClassEnqueued
    <3> QED BY <1>2, <3>2, <3>3 DEF EnqueuedOnce, UpdatesTyped
  <2> QED BY <2>1, <2>2
<1>14. History(n)' = Append(History(n), u) /\ \A m \in Node \ {n} : History(m)' = History(m)
  BY <1>1, <1>2, <1>3, HistoryGrows DEF n
<1> QED BY <1>1, <1>3, <1>6, <1>7, <1>8, <1>12, <1>13, <1>14 DEF UpdateMade, n, e

\* What it appends to a list.
LEMMA MadeOnList ==
  ASSUME Lists, NEW n, NEW u, NEW e, UpdateMade(n, u, e)
  PROVE  LET h == History(n)
             G == Append(h, u)
         IN  /\ G \in Seq(Update) /\ IsInjective(G) /\ Len(G) = Len(h) + 1 /\ Len(h) \in Nat
             /\ h \in Seq(Update) /\ IsInjective(h)
             /\ G[Len(G)] = u /\ G # <<>> /\ level'[u] = e
             /\ \A i \in 1 .. Len(h) : /\ G[i] = h[i] /\ h[i] # u /\ h[i] \in Update
                                       /\ h[i] \in MadeUpdates /\ level'[h[i]] = level[h[i]]
                                       /\ eager'[h[i]] = eager[h[i]]
             /\ \A v \in MadeUpdates : level'[v] = level[v]
<1> DEFINE h == History(n)
           G == Append(h, u)
<1>1. n \in Node /\ u \in Update /\ MadeOnce /\ UpdatesTyped /\ level[u] = NotMade
      /\ level' = [level EXCEPT ![u] = e] /\ EnqueuedOnce(n, u)
  BY DEF UpdateMade, Lists
<1>2. /\ h \in Seq(Update) /\ IsInjective(h) /\ Len(h) \in Nat /\ DOMAIN h = 1 .. Len(h)
      /\ \A i \in 1 .. Len(h) : h[i] \in Update /\ h[i] \in MadeUpdates
  BY <1>1, Histories
<1> HIDE DEF h
<1>3. /\ G \in Seq(Update) /\ G # <<>> /\ Len(G) = Len(h) + 1 /\ G[Len(G)] = u
      /\ DOMAIN G = 1 .. Len(h) + 1 /\ \A i \in 1 .. Len(h) : G[i] = h[i]
  BY <1>1, <1>2
<1> HIDE DEF G
<1>4. level'[u] = e /\ \A v \in MadeUpdates : v # u /\ level'[v] = level[v]
  BY <1>1 DEF MadeUpdates, UpdatesTyped
<1>5. \A i \in 1 .. Len(h) : h[i] # u /\ level'[h[i]] = level[h[i]] /\ eager'[h[i]] = eager[h[i]]
  BY <1>1, <1>2, <1>4 DEF EnqueuedOnce
<1>6. IsInjective(G)
  <2>1. \A i \in 1 .. Len(h) + 1 : i \in 1 .. Len(h) \/ i = Len(h) + 1
    BY <1>2
  <2>2. \A i, j \in 1 .. Len(h) : h[i] = h[j] => i = j
    BY <1>2 DEF IsInjective
  <2>3. G[Len(h) + 1] = u
    BY <1>3
  <2> QED BY <1>3, <1>5, <2>1, <2>2, <2>3 DEF IsInjective
<1> QED BY <1>2, <1>3, <1>4, <1>5, <1>6 DEF h, G

\* dispatchAction keeps the marks of the component: what is made while nothing waits is all
\* that waits then.
LEMMA HookMade ==
  ASSUME HooksAdd, NoneIdle, Lists, NEW n \in Functions, NodeMarked(n), NEW u, NEW e,
         UpdateMade(n, u, e)
  PROVE  NodeMarked(n)'
<1> SUFFICES ASSUME NEW h, h = History(n), NEW G, G = Append(h, u)
             PROVE  NodeMarked(n)'
  OBVIOUS
<1>1. /\ n \in Node /\ n = Target[u] /\ u \in Update /\ e \in Levels /\ Raises(n, e)
      /\ EnqueuedOnHook(n, u) /\ History(n)' = G
  BY DEF UpdateMade
<1>2. /\ G \in Seq(Update) /\ IsInjective(G) /\ Len(G) = Len(h) + 1 /\ Len(h) \in Nat
      /\ h \in Seq(Update) /\ IsInjective(h)
      /\ G[Len(G)] = u /\ G # <<>> /\ level'[u] = e
      /\ \A i \in 1 .. Len(h) : /\ G[i] = h[i] /\ h[i] # u /\ h[i] \in Update
                                /\ h[i] \in MadeUpdates /\ level'[h[i]] = level[h[i]]
                                /\ eager'[h[i]] = eager[h[i]]
  BY MadeOnList
<1>3. /\ \A s \in Sides : HookSide(n, fiber[n][s]) /\ HookMarked(n, fiber[n][s])
      /\ HookList(n) /\ UpdatesTyped
  BY <1>1 DEF Lists, NodeLists, ListOf, SideOf, NodeMarked
<1>4. u \notin Noops \cup Replacing
  BY <1>1 DEF HooksAdd
<1>5. hooks[n].last = LastOf(h) /\ hooks[n].rendered \in Seq(Update)
      /\ (h # <<>> /\ (\E s \in Sides : fiber[n][s].exists /\ fiber[n][s].baseUpdate = None) =>
            next[h[Len(h)]] = h[1])
  BY <1>1, <1>3 DEF HookList, UpdatesTyped, HookSet, NodeMarked, HookClosed
<1>6. \A s \in Sides : \A v \in Range(fiber[n][s].state) : \E j \in 1 .. Len(h) : v = h[j]
  <2> SUFFICES ASSUME NEW s \in Sides, NEW v \in Range(fiber[n][s].state)
               PROVE  \E j \in 1 .. Len(h) : v = h[j]
    OBVIOUS
  <2>1. fiber[n][s].state \in Possible(h)[Len(h)] /\ Len(h) \in 0 .. Len(h)
    BY <1>2, <1>3 DEF HookSide
  <2> QED BY <1>2, <2>1, PossibleHas
<1>7. \A s \in Sides : \E b \in 0 .. Len(h) : BaseAt(fiber[n][s], h, b)
  BY <1>3 DEF HookSide, HookFrom, BaseAt
<1>8. ASSUME NEW s \in Sides, NEW b \in 0 .. Len(G), BaseAt(fiber'[n][s], G, b)
      PROVE  b \in 0 .. Len(h) /\ BaseAt(fiber[n][s], h, b)
  <2>1. fiber'[n][s].baseUpdate = fiber[n][s].baseUpdate
    BY <1>1 DEF Raises
  <2>2. PICK c \in 0 .. Len(h) : BaseAt(fiber[n][s], h, c)
    BY <1>7
  <2>3. c \in 0 .. Len(G) /\ BaseAt(fiber'[n][s], G, c)
    BY <1>2, <2>1, <2>2 DEF BaseAt
  <2>4. b = c
    BY <1>2, <1>8, <2>3, BaseIsOne
  <2> QED BY <2>2, <2>4
<1>9. e \in Nat /\ level \in [Update -> Levels \cup {NotMade}]
      /\ \A s \in Sides : fiber[n][s].time \in Levels /\ fiber[n][s].time \in Nat
  BY <1>1, <1>3, LevelFacts DEF UpdatesTyped, FiberTrees, FiberSet
<1>13. \A i \in 1 .. Len(h) : level[h[i]] \in Int /\ level'[G[i]] = level[h[i]]
  <2>1. \A v \in Update : level[v] \in Int
    BY <1>9, LevelFacts DEF NotMade
  <2> QED BY <1>2, <2>1
<1>10. ASSUME NEW s \in Sides
       PROVE  /\ fiber'[n][s].time \in {fiber[n][s].time, e}
              /\ fiber'[n][s].time >= fiber[n][s].time /\ fiber'[n][s].time >= e
              /\ fiber'[n][s].state = fiber[n][s].state /\ fiber'[n][s].exists = fiber[n][s].exists
  <2>1. fiber'[n][s].time = Max({fiber[n][s].time, e})
    BY <1>1, Zenon DEF Raises
  <2>2. fiber'[n][s].state = fiber[n][s].state /\ fiber'[n][s].exists = fiber[n][s].exists
    BY <1>1, Zenon DEF Raises
  <2> QED BY <1>1, <1>9, <2>1, <2>2, HigherIsHigher
<1>11. ASSUME NEW s \in Sides PROVE HookMarked(n, fiber[n][s])'
  <2> DEFINE x == fiber[n][s]
             y == fiber'[n][s]
  <2>1. /\ HookCovered(n, x) /\ Waits(n, x)
        /\ x.exists => \A b \in 0 .. Len(h) : BaseAt(x, h, b) => EagerAt(h, b)
    BY <1>3 DEF HookMarked
  <2>2. /\ y.time \in {x.time, e} /\ y.time >= x.time /\ y.time >= e /\ y.state = x.state
        /\ y.exists = x.exists /\ x.time \in Nat
    BY <1>9, <1>10
  <2>3. \A b \in 0 .. Len(G) : BaseAt(y, G, b) => b \in 0 .. Len(h) /\ BaseAt(x, h, b)
    BY <1>8
  <2> HIDE DEF x, y
  <2>4. HookCovered(n, fiber[n][s])'
    <3> SUFFICES ASSUME NEW b \in 0 .. Len(G), BaseAt(y, G, b), b < Len(G)
                 PROVE  y.time >= level'[G[b + 1]]
      BY <1>1 DEF HookCovered, BaseAt, y
    <3>1. b \in 0 .. Len(h) /\ BaseAt(x, h, b)
      BY <2>3
    <3>2. CASE b = Len(h)
      BY <1>2, <2>2, <3>2
    <3>3. CASE b # Len(h)
      <4>1. b < Len(h) /\ b + 1 \in 1 .. Len(h)
        BY <1>2, <3>1, <3>3
      <4>2. x.time >= level[h[b + 1]]
        BY <2>1, <3>1, <4>1 DEF HookCovered
      <4>3. level[h[b + 1]] \in Int /\ level'[G[b + 1]] = level[h[b + 1]]
        BY <1>13, <4>1
      <4>4. y.time \in Nat
        BY <1>9, <2>2
      <4> QED BY <2>2, <4>2, <4>3, <4>4
    <3> QED BY <3>2, <3>3
  <2>5. Waits(n, fiber[n][s])'
    <3> SUFFICES ASSUME y.time # NoWork
                 PROVE  \E i \in 1 .. Len(G) :
                          /\ G[i] \notin Range(y.state) /\ level'[G[i]] >= y.time
                          /\ \A b \in 0 .. Len(G) : BaseAt(y, G, b) => i > b
      BY <1>1 DEF Waits, BaseAt, y
    <3>1. CASE y.time = e
      <4>1. Len(G) \in 1 .. Len(G) /\ G[Len(G)] = u /\ level'[u] >= y.time
        BY <1>2, <1>9, <3>1
      <4>2. u \notin Range(y.state)
        BY <1>2, <1>6, <2>2 DEF x
      <4>3. \A b \in 0 .. Len(G) : BaseAt(y, G, b) => Len(G) > b
        BY <1>2, <2>3
      <4> QED BY <4>1, <4>2, <4>3
    <3>2. CASE y.time = x.time
      <4>1. PICK i \in 1 .. Len(h) : /\ h[i] \notin Range(x.state) /\ level[h[i]] >= x.time
                                     /\ \A b \in 0 .. Len(h) : BaseAt(x, h, b) => i > b
        BY <2>1, <3>2 DEF Waits
      <4>2. i \in 1 .. Len(G) /\ G[i] = h[i] /\ level'[h[i]] = level[h[i]]
        BY <1>2
      <4> QED BY <2>2, <2>3, <3>2, <4>1, <4>2
    <3> QED BY <2>2, <3>1, <3>2
  <2>6. y.exists => \A b \in 0 .. Len(G) : BaseAt(y, G, b) => EagerAt(G, b)'
    <3> SUFFICES ASSUME x.exists, NEW b \in 0 .. Len(G), BaseAt(y, G, b), NEW i \in 1 .. Len(G),
                        eager'[G[i]] # <<>>
                 PROVE  G[i] \in Range(eager'[G[i]][1]) /\ b >= i - 1
      BY <2>2 DEF EagerAt
    <3>1. b \in 0 .. Len(h) /\ BaseAt(x, h, b)
      BY <2>3
    <3>2. CASE i \in 1 .. Len(h)
      <4>1. EagerAt(h, b)
        BY <2>1, <3>1
      <4>2. G[i] = h[i] /\ eager'[h[i]] = eager[h[i]]
        BY <1>2, <3>2
      <4> QED BY <3>2, <4>1, <4>2 DEF EagerAt
    <3>3. CASE i \notin 1 .. Len(h)
      <4>1. i = Len(h) + 1 /\ G[i] = u
        BY <1>2, <3>3
      <4>2. HookIsIdle(n) /\ eager' = [eager EXCEPT ![u] = <<Applied(hooks[n].rendered, u)>>]
        <5>1. eager[u] = <<>>
          BY <1>1 DEF UpdateMade, Lists, MadeOnce
        <5> QED BY <1>1, <3>3, <4>1, <5>1 DEF EnqueuedOnHook
      <4>3. eager'[u][1] = Applied(hooks[n].rendered, u)
        <5> DEFINE a == Applied(hooks[n].rendered, u)
        <5>1. <<a>>[1] = a
          OBVIOUS
        <5> HIDE DEF a
        <5>2. eager'[u] = <<a>>
          BY <1>1, <1>3, <4>2 DEF UpdatesTyped, a
        <5> QED BY <5>1, <5>2 DEF a
      <4>4. u \in Range(eager'[u][1])
        BY <1>1, <1>4, <1>5, <4>3, AddedToState
      <4>5. b = Len(h)
        <5> SUFFICES ASSUME b # Len(h) PROVE FALSE
          OBVIOUS
        <5>1. b < Len(h) /\ b + 1 \in 1 .. Len(h)
          BY <1>2, <3>1
        <5>2. x.time >= level[h[b + 1]]
          BY <2>1, <3>1, <5>1 DEF HookCovered
        <5>3. level[h[b + 1]] > Never
          BY <1>2, <5>1 DEF NoneIdle
        <5>4. x.time = NoWork
          BY <4>2 DEF HookIsIdle, x
        <5>5. level[h[b + 1]] \in Int
          BY <1>13, <5>1
        <5> QED BY <5>2, <5>3, <5>4, <5>5 DEF NoWork, Never
      <4> QED BY <1>2, <4>1, <4>4, <4>5
    <3> QED BY <3>2, <3>3
  <2>7. (fiber[n][s].exists => \A b \in 0 .. Len(History(n)) :
           BaseAt(fiber[n][s], History(n), b) => EagerAt(History(n), b))'
    BY <1>1, <2>6 DEF BaseAt, y, EagerAt
  <2> QED BY <2>4, <2>5, <2>7 DEF HookMarked
<1>12. HookClosed(n)'
  <2> SUFFICES ASSUME NEW s \in Sides, fiber'[n][s].exists, fiber'[n][s].baseUpdate = None
               PROVE  next'[G[Len(G)]] = G[1]
    BY <1>1 DEF HookClosed
  <2>1. fiber[n][s].exists /\ fiber[n][s].baseUpdate = None
    BY <1>1 DEF Raises
  <2>2. next' = HookLinked(next, hooks[n], u) /\ next \in [Update -> Update \cup {None}]
    BY <1>1, <1>3 DEF EnqueuedOnHook, UpdatesTyped
  <2>3. CASE h = <<>>
    <3>1. hooks[n].last = None /\ Len(G) = 1
      BY <1>2, <1>5, <2>3 DEF LastOf
    <3> QED BY <1>1, <1>2, <2>2, <3>1 DEF HookLinked
  <2>4. CASE h # <<>>
    <3>1. Len(h) \in 1 .. Len(h) /\ 1 \in 1 .. Len(h)
      BY <1>2, <2>4
    <3>2. hooks[n].last = h[Len(h)] /\ h[Len(h)] \in Update /\ h[Len(h)] # u /\ None \notin Update
      BY <1>2, <1>5, <2>4, <3>1, UpdateAssumption DEF LastOf
    <3>3. next[h[Len(h)]] = h[1] /\ G[1] = h[1]
      BY <1>2, <1>5, <2>1, <2>4, <3>1
    <3>4. next' = [next EXCEPT ![u] = next[h[Len(h)]], ![h[Len(h)]] = u]
      BY <2>2, <3>2 DEF HookLinked
    <3> QED BY <1>1, <1>2, <2>2, <3>2, <3>3, <3>4
  <2> QED BY <2>3, <2>4
<1> QED BY <1>11, <1>12 DEF NodeMarked

\* The first update on a queue has been made.
LEMMA FirstIsMade ==
  ASSUME Lists, NEW n \in Node \ Functions, NEW s \in Sides, fiber[n][s].queue # 0
  PROVE  /\ queues[n][fiber[n][s].queue].first \in MadeUpdates \cup {None}
         /\ fiber[n][s].queue \in Sides
<1> DEFINE h == History(n)
           q == queues[n][fiber[n][s].queue]
<1>1. QueueOver(q, h) /\ MadeOnce /\ fiber \in FiberTrees
  BY DEF Lists, NodeLists, SideOf, ClassSide, UpdatesTyped
<1>2. Len(h) \in Nat /\ \A i \in 1 .. Len(h) : h[i] \in MadeUpdates
  BY <1>1, Histories
<1> HIDE DEF h, q
<1>3. q.first \in MadeUpdates \cup {None}
  BY <1>1, <1>2 DEF QueueOver, QueueFrom
<1> QED BY <1>1, <1>3 DEF q, FiberTrees, FiberSet

\* enqueueUpdate: a queue begins as it did, or with the update that it gets.
LEMMA QueueMade ==
  ASSUME Lists, NEW n \in Node \ Functions, NEW u, NEW e, UpdateMade(n, u, e),
         NEW s \in Sides, fiber'[n][s].queue # 0
  PROVE  LET first == queues'[n][fiber'[n][s].queue].first
         IN  \/ first = u
             \/ /\ fiber[n][s].queue # 0 /\ fiber'[n][s].queue = fiber[n][s].queue
                /\ first = queues[n][fiber[n][s].queue].first
<1>1. PICK side \in Living(n) : EnqueuedOnQueue(n, side, u)
  BY DEF UpdateMade
<1> DEFINE given == [t \in Sides |-> IF fiber[n][t].queue # 0 THEN queues[n][QueueOf(n, t)]
                                    ELSE NewQueue(fiber[n][t].state)]
           P(t) == WithUpdate(given[t], u)
           q == fiber'[n][s].queue
<1>2. queues' = [queues EXCEPT ![n] = [i \in Sides |->
        IF \E t \in Living(n) : QueueOf(n, t) = i
          THEN P(CHOOSE t \in Living(n) : QueueOf(n, t) = i) ELSE @[i]]]
  BY <1>1, Zenon DEF EnqueuedOnQueue
<1>3. /\ queues \in [Node -> [Sides -> QueueSet]] /\ fiber \in FiberTrees /\ n \in Node
      /\ NodeLists(n) /\ Raises(n, e) /\ u \in Update
  BY DEF Lists, UpdatesTyped, UpdateMade
<1>4. \A t \in Sides : fiber[n][t].queue = 0 <=> (History(n) = <<>> \/ ~fiber[n][t].exists)
  BY <1>3 DEF NodeLists, SideOf, ClassSide
<1>5. s \in Living(n) /\ QueueOf(n, s) = q /\ q \in Sides
  <2>1. q = IF fiber[n][s].exists THEN QueueOf(n, s) ELSE fiber[n][s].queue
    BY <1>3, Zenon DEF Raises
  <2>2. fiber[n][s].queue \in {0} \cup Sides
    BY <1>3 DEF FiberTrees, FiberSet
  <2>3. QueueOf(n, s) \in Sides
    BY <2>2 DEF QueueOf, Sides
  <2> QED BY <1>4, <2>1, <2>3 DEF Living
<1>6. PICK t \in Living(n) : QueueOf(n, t) = q /\ queues'[n][q] = P(t)
  <2> HIDE DEF P, q
  <2> DEFINE c == CHOOSE t \in Living(n) : QueueOf(n, t) = q
  <2>1. c \in Living(n) /\ QueueOf(n, c) = q
    BY <1>5
  <2>2. queues'[n][q] = P(c)
    BY <1>2, <1>3, <1>5
  <2> HIDE DEF c
  <2> QED BY <2>1, <2>2
<1>7. t \in Sides
  BY DEF Living
<1> HIDE DEF q
<1>8. CASE given[t].last = None
  <2>1. given[t] \in QueueSet
    <3>1. fiber[n][t].state \in Seq(Update)
      BY <1>3, <1>7 DEF FiberTrees, FiberSet
    <3>2. NewQueue(fiber[n][t].state) \in QueueSet
      BY <3>1 DEF NewQueue, QueueSet
    <3>3. fiber[n][t].queue # 0 => QueueOf(n, t) \in Sides
      BY <1>3, <1>7 DEF QueueOf, FiberTrees, FiberSet
    <3> QED BY <1>3, <1>7, <3>2, <3>3
  <2> HIDE DEF given
  <2>2. P(t).first = u
    BY <1>8, <2>1 DEF WithUpdate, QueueSet
  <2> QED BY <1>6, <2>2 DEF q
<1>9. CASE given[t].last # None
  <2>1. fiber[n][t].queue # 0 /\ given[t] = queues[n][q]
    <3>1. NewQueue(fiber[n][t].state).last = None
      BY DEF NewQueue
    <3> QED BY <1>6, <1>7, <1>9, <3>1
  <2>2. fiber[n][s].queue # 0
    BY <1>4, <1>5, <1>7, <2>1 DEF Living
  <2>3. fiber[n][s].queue = q
    BY <1>5, <2>2 DEF QueueOf
  <2>4. queues[n][q] \in QueueSet
    BY <1>3, <1>5
  <2>5. P(t).first = queues[n][q].first
    <3> HIDE DEF given
    <3> QED BY <1>9, <2>1, <2>4 DEF WithUpdate, QueueSet
  <2> QED BY <1>6, <2>2, <2>3, <2>5 DEF q
<1> QED BY <1>8, <1>9

\* So the queues of the fibers stay covered.
LEMMA QueuesMade ==
  ASSUME Lists, QueuesCovered, NEW n, NEW u, NEW e, UpdateMade(n, u, e), Live' => Live
  PROVE  QueuesCovered'
<1>1. /\ n \in Node /\ u \in Update /\ e \in Levels /\ FibersStay /\ EnqueuedOnce(n, u)
      /\ Raises(n, e) /\ UpdatesTyped
  BY DEF UpdateMade, Lists
<1>2. level'[u] = e /\ \A v \in MadeUpdates : level'[v] = level[v] /\ level[v] \in Nat
  <2>1. \A v \in MadeUpdates : level[v] \in Nat
    BY <1>1, LevelFacts DEF MadeUpdates, UpdatesTyped
  <2> QED BY <2>1, MadeOnList
<1> SUFFICES ASSUME NEW m \in Node \ Functions, NEW s \in Sides, InUse(m, s)',
                    fiber'[m][s].queue # 0, queues'[m][fiber'[m][s].queue].first # None
             PROVE  fiber'[m][s].time >= level'[queues'[m][fiber'[m][s].queue].first]
  BY DEF QueuesCovered, ClassCovered
<1>3. ClassCovered(m, fiber[m][s])
  BY <1>1 DEF QueuesCovered, InUse, FibersStay
<1>4. fiber[m][s].time \in Levels /\ fiber[m][s].time \in Nat /\ e \in Nat
  BY <1>1, LevelFacts DEF UpdatesTyped, FiberTrees, FiberSet
<1>5. /\ m = n => fiber'[m][s].time = Max({fiber[m][s].time, e})
      /\ m # n => fiber'[m][s].time = fiber[m][s].time /\ fiber'[m][s].queue = fiber[m][s].queue
  BY <1>1, Zenon DEF Raises
<1>6. fiber'[m][s].time >= fiber[m][s].time /\ fiber'[m][s].time \in Nat
      /\ (m = n => fiber'[m][s].time >= e)
  BY <1>1, <1>4, <1>5, HigherIsHigher
<1>7. CASE /\ fiber[m][s].queue # 0 /\ fiber'[m][s].queue = fiber[m][s].queue
           /\ queues'[m][fiber'[m][s].queue].first = queues[m][fiber[m][s].queue].first
  <2>1. queues[m][fiber[m][s].queue].first \in MadeUpdates
    BY <1>7, FirstIsMade
  <2>2. fiber[m][s].time >= level[queues[m][fiber[m][s].queue].first]
    BY <1>3, <1>7, <2>1 DEF ClassCovered
  <2> QED BY <1>2, <1>4, <1>6, <1>7, <2>1, <2>2
<1>8. CASE m = n /\ queues'[m][fiber'[m][s].queue].first = u
  BY <1>2, <1>6, <1>8
<1>9. CASE m = n
  BY <1>7, <1>8, <1>9, QueueMade
<1>10. CASE m # n
  <2>1. queues'[m] = queues[m]
    BY <1>1, <1>10 DEF EnqueuedOnce
  <2> QED BY <1>5, <1>7, <1>10, <2>1
<1> QED BY <1>9, <1>10

\* Who has a parent that an update marks has it marked, if it is marked itself.
LEMMA BubbledMade ==
  ASSUME fiber \in FiberTrees, NEW n \in Node, NEW e \in Levels, Raises(n, e),
         NEW k \in Children, NEW s \in Sides, NEW t \in Sides,
         Raised(fiber[k][s], fiber[Parent[k]][t])
  PROVE  Raised(fiber'[k][s], fiber'[Parent[k]][t])
<1> DEFINE p == Parent[k]
           x == fiber[k][s]
           y == fiber[p][t]
<1>1. k \in Node /\ p \in Node
  BY TreeParent
<1>2. /\ fiber'[k][s].time = IF k = n THEN Max({x.time, e}) ELSE x.time
      /\ fiber'[k][s].childTime = IF k \in Above[n] \ {n} THEN Max({x.childTime, e})
                                  ELSE x.childTime
      /\ fiber'[p][t].childTime = IF p \in Above[n] \ {n} THEN Max({y.childTime, e})
                                  ELSE y.childTime
  BY <1>1, Zenon DEF Raises
<1>3. /\ x.time \in Levels /\ x.childTime \in Levels /\ y.childTime \in Levels
      /\ y.childTime >= x.time /\ y.childTime >= x.childTime
  BY <1>1 DEF FiberTrees, FiberSet, Raised
<1>4. e \in Nat /\ x.time \in Nat /\ x.childTime \in Nat /\ y.childTime \in Nat
  BY <1>3, LevelFacts
<1>5. k \in Above[n] => p \in Above[n] \ {n}
  <2> SUFFICES ASSUME k \in Above[n] PROVE p \in Above[n] /\ p # n
    OBVIOUS
  <2>1. Above[k] \subseteq Above[n] /\ p \in Above[k] /\ k \notin Above[p]
    BY <1>1, AboveNodes, AboveAbove
  <2> QED BY <2>1
<1>6. n \in Above[n]
  BY AboveNodes
<1> HIDE DEF p, x, y
<1>7. fiber'[p][t].childTime \in {y.childTime, e} /\ fiber'[p][t].childTime >= y.childTime
      /\ (k \in Above[n] => fiber'[p][t].childTime >= e)
  BY <1>2, <1>3, <1>4, <1>5, HigherIsHigher
<1>8. fiber'[k][s].time = x.time \/ (k \in Above[n] /\ fiber'[k][s].time \in {x.time, e})
  BY <1>2, <1>3, <1>6, HigherIsHigher
<1>9. fiber'[k][s].childTime = x.childTime
      \/ (k \in Above[n] /\ fiber'[k][s].childTime \in {x.childTime, e})
  BY <1>2, <1>3, HigherIsHigher
<1>10. fiber'[p][t].childTime >= fiber'[k][s].time
  BY <1>3, <1>4, <1>7, <1>8
<1>11. fiber'[p][t].childTime >= fiber'[k][s].childTime
  BY <1>3, <1>4, <1>7, <1>9
<1> QED BY <1>10, <1>11 DEF Raised, p

\* An update that is made marks its component and what is above it, in both trees.
LEMMA MadeMarks ==
  ASSUME HooksAdd, NoneIdle, NoneIdle', MarksInv, CallbackInv', Stays,
         NEW n, NEW u, NEW e, UpdateMade(n, u, e)
  PROVE  MarksInv'
<1>1. /\ n \in Node /\ u \in Update /\ e \in Levels /\ FibersStay /\ Raises(n, e)
      /\ EnqueuedOnce(n, u) /\ ScreenInv /\ Lists /\ fiber \in FiberTrees /\ MadeOnce
      /\ level[u] = NotMade
  BY DEF UpdateMade, MarksInv, CallbackInv, UpdatesInv, Lists, UpdatesTyped
<1>2. /\ current' = current /\ work' = work /\ root'.finishedWork = root.finishedWork
      /\ ~At("completeUnitOfWork") /\ ~At("completeUnitOfWork")'
  BY DEF Stays
<1>3. Side' = Side /\ Own' = Own /\ \A m \in Node : Own[m] \in Sides /\ Side[m] \in Sides
  BY <1>1, TreesStay, TwoTrees
<1>4. Live' = Live /\ Alone'
  BY <1>2 DEF Live, Alone, MarksInv
<1>5. NoneNever'
  <2>1. e # Never
    <3>1. u \in MadeUpdates' /\ level'[u] = e
      <4>1. level'[u] = e /\ e # NotMade
        BY <1>1, MadeOnList, LevelFacts DEF NotMade
      <4> QED BY <1>1, <4>1 DEF MadeUpdates
    <3>2. level'[u] > Never
      BY <3>1 DEF NoneIdle
    <3> QED BY <3>1, <3>2 DEF Never
  <2> SUFFICES ASSUME NEW m \in Node, NEW s \in Sides
               PROVE  fiber'[m][s].time # Never /\ fiber'[m][s].childTime # Never
    BY DEF NoneNever
  <2>2. /\ fiber[m][s].time # Never /\ fiber[m][s].childTime # Never
        /\ fiber[m][s].time \in Levels /\ fiber[m][s].childTime \in Levels
    BY <1>1 DEF MarksInv, NoneNever, FiberTrees, FiberSet
  <2>3. /\ fiber'[m][s].time \in {fiber[m][s].time, Max({fiber[m][s].time, e})}
        /\ fiber'[m][s].childTime \in {fiber[m][s].childTime, Max({fiber[m][s].childTime, e})}
    BY <1>1, Zenon DEF Raises
  <2> QED BY <1>1, <2>1, <2>2, <2>3, HigherIsHigher
<1>6. HooksMarked'
  <2> SUFFICES ASSUME NEW m \in Functions PROVE NodeMarked(m)'
    BY DEF HooksMarked
  <2>1. m \in Node /\ NodeMarked(m)
    BY TreeAssumption DEF MarksInv, HooksMarked, Children
  <2>2. CASE m = n
    BY <1>1, <2>1, <2>2, HookMade
  <2>3. CASE m # n
    <3>1. History(m)' = History(m)
      BY <2>1, <2>3 DEF UpdateMade
    <3>2. \A v \in Range(History(m)) : v \in Update \ Range(History(n)) /\ v # u /\ v \in MadeUpdates
      <4>1. \A v \in Range(History(m)) : v \in MadeUpdates
        BY <1>1, <2>1, HistoryElements
      <4> QED BY <1>1, <2>1, <2>3, <4>1, OtherHistory DEF MadeUpdates
    <3>3. \A v \in Range(History(m)) : level'[v] = level[v] /\ eager'[v] = eager[v] /\ next'[v] = next[v]
      <4>1. \A v \in MadeUpdates : level'[v] = level[v]
        BY <1>1, MadeOnList
      <4> QED BY <1>1, <3>2, <4>1 DEF EnqueuedOnce
    <3>4. \A s \in Sides : SameLists(fiber'[m][s], fiber[m][s]) /\ fiber'[m][s].time = fiber[m][s].time
      BY <1>1, <2>1, <2>3, Zenon DEF Raises, SameLists
    <3> QED BY <1>1, <2>1, <3>1, <3>3, <3>4, MarkedAsBefore
  <2> QED BY <2>2, <2>3
<1>7. QueuesCovered'
  BY <1>1, <1>4, QueuesMade DEF MarksInv
<1>8. Copies'
  <2>1. Reached' = Reached
    BY <1>2 DEF Reached
  <2>2. \A m \in Node, s, t \in Sides : SameMarks(fiber[m][s], fiber[m][t]) =>
          SameMarks(fiber'[m][s], fiber'[m][t])
    <3> SUFFICES ASSUME NEW m \in Node, NEW s \in Sides, NEW t \in Sides,
                        SameMarks(fiber[m][s], fiber[m][t])
                 PROVE  SameMarks(fiber'[m][s], fiber'[m][t])
      OBVIOUS
    <3>1. \A q \in Sides :
            /\ fiber'[m][q].base = fiber[m][q].base /\ fiber'[m][q].baseUpdate = fiber[m][q].baseUpdate
            /\ fiber'[m][q].time = IF m = n THEN Max({fiber[m][q].time, e}) ELSE fiber[m][q].time
            /\ fiber'[m][q].childTime = IF m \in Above[n] \ {n} THEN Max({fiber[m][q].childTime, e})
                                        ELSE fiber[m][q].childTime
      BY <1>1, Zenon DEF Raises
    <3> QED BY <3>1 DEF SameMarks
  <2>3. work.busy /\ work.unit # None => Reached \subseteq Node
    <3>1. work.unit # None => work.unit \in Node
      BY <1>1 DEF ScreenInv
    <3> QED BY <3>1, AfterNodes DEF Reached
  <2> QED BY <1>2, <1>3, <2>1, <2>2, <2>3 DEF MarksInv, Copies
<1>9. ASSUME NEW side, \A m \in Node : side[m] \in Sides, NEW open, Bubbled(side, open)
      PROVE  \A k \in Children : Parent[k] \notin open =>
               Raised(fiber'[k][side[k]], fiber'[Parent[k]][side[Parent[k]]])
  BY <1>1, <1>9, BubbledMade, TreeParent DEF Bubbled
<1>10. ScreenBubbled' /\ OwnBubbled'
  <2>1. ScreenBubbled'
    <3>1. Bubbled(Side, {})
      BY DEF MarksInv, ScreenBubbled
    <3>2. \A k \in Children : Parent[k] \notin {} =>
            Raised(fiber'[k][Side[k]], fiber'[Parent[k]][Side[Parent[k]]])
      BY <1>3, <1>9, <3>1
    <3> QED BY <1>3, <3>2 DEF ScreenBubbled, Bubbled
  <2>2. OwnBubbled'
    <3> SUFFICES ASSUME Live PROVE Bubbled(Own, IF work.unit = None THEN {} ELSE Above[work.unit])'
      BY <1>4 DEF OwnBubbled
    <3> DEFINE open == IF work.unit = None THEN {} ELSE Above[work.unit]
    <3>1. Bubbled(Own, open)
      BY DEF MarksInv, OwnBubbled
    <3>2. \A k \in Children : Parent[k] \notin open =>
            Raised(fiber'[k][Own[k]], fiber'[Parent[k]][Own[Parent[k]]])
      BY <1>3, <1>9, <3>1
    <3> QED BY <1>2, <1>3, <3>2 DEF Bubbled
  <2> QED BY <2>1, <2>2
<1>11. RootMarked'
  <2> DEFINE x == fiber[Root][current]
             y == fiber'[Root][current]
             p == root.firstPendingTime
  <2>1. Root \in Node /\ current \in Sides /\ root'.firstPendingTime = Max({p, e})
    BY <1>1, TwoTrees, TreeAssumption DEF UpdateMade
  <2>2. x.time \in Levels /\ x.childTime \in Levels /\ p \in Levels
    BY <1>1, <2>1 DEF FiberTrees, FiberSet, MarksInv, CallbackInv, UpdatesInv, LoopTyped, RootTyped
  <2>3. y.time \in {x.time, Max({x.time, e})} /\ y.childTime \in {x.childTime, Max({x.childTime, e})}
    BY <1>1, <2>1, Zenon DEF Raises
  <2>4. p >= x.time /\ p >= x.childTime
    BY DEF MarksInv, RootMarked, Raised
  <2> HIDE DEF x, y, p
  <2>5. Max({p, e}) >= y.time /\ Max({p, e}) >= y.childTime
    <3>1. Max({p, e}) >= p /\ Max({p, e}) >= e /\ Max({p, e}) \in Nat
      BY <1>1, <2>2, HigherIsHigher, LevelFacts
    <3>2. y.time \in {x.time, e} /\ y.childTime \in {x.childTime, e}
      BY <1>1, <2>2, <2>3, HigherIsHigher
    <3>3. x.time \in Nat /\ x.childTime \in Nat /\ p \in Nat /\ e \in Nat
      BY <1>1, <2>2, LevelFacts
    <3> QED BY <2>4, <3>1, <3>2, <3>3
  <2> QED BY <1>2, <2>1, <2>5 DEF RootMarked, Raised, y
<1> QED BY <1>4, <1>5, <1>6, <1>7, <1>8, <1>10, <1>11 DEF MarksInv

\* Events, passive effects and callbacks.
LEMMA MakingMarks ==
  ASSUME HooksAdd, NoneIdle, NoneIdle', MarksInv, CallbackInv',
         (\E u \in Update : EventUpdate(u)) \/ RunPassiveEffect \/ CallCallback
  PROVE  MarksInv'
<1>1. /\ ScreenInv /\ Lists /\ LoopTyped /\ Alive(fiber) /\ FinishedInv /\ current \in Sides
      /\ DOMAIN root = RootFields /\ fiber \in FiberTrees
  BY DEF MarksInv, CallbackInv, UpdatesInv, ScreenInv, FinishedInv, Lists, UpdatesTyped
<1>2. Stays
  BY <1>1, UpdatesStay
<1>3. current' = current /\ work' = work /\ root'.finishedWork = root.finishedWork
      /\ ~At("completeUnitOfWork") /\ ~At("completeUnitOfWork")'
  BY <1>2 DEF Stays
<1>4. ASSUME NEW u, NEW priority, NEW isInsideReact, NEW isDiscrete,
             MakesUpdate(u, priority, isInsideReact, isDiscrete)
      PROVE  MarksInv'
  <2>1. u \in Update /\ priority \in Priorities /\ MakeUpdate(u, priority, isInsideReact, isDiscrete)
    BY <1>4 DEF MakesUpdate
  <2>2. ComputedExpiration(RequestedTime(isInsideReact), priority) \in Levels
    BY <1>1, <2>1, UpdateTyped
  <2>3. {"callbackNode", "callbackExpirationTime", "firstPendingTime"} \subseteq DOMAIN root
    BY <1>1 DEF RootFields
  <2>4. UpdateMade(Target[u], u, ComputedExpiration(RequestedTime(isInsideReact), priority))
    BY <1>1, <1>3, <2>1, <2>2, <2>3, UpdateIsMade
  <2> QED BY <1>2, <2>4, MadeMarks
<1>5. ASSUME UNCHANGED <<level, next, eager, fiber, queues, root, made>> PROVE MarksInv'
  <2>1. Alone' /\ Live' = Live
    BY <1>3 DEF MarksInv, Alone, Live
  <2> QED BY <1>3, <1>5, <2>1, UntouchedMarks
<1>6. CASE \E u \in Update : EventUpdate(u)
  BY <1>1, <1>4, <1>6, EventUpdateMakes
<1>7. CASE RunPassiveEffect
  BY <1>1, <1>4, <1>5, <1>7, PassiveEffectMakes DEF treeVars
<1>8. CASE CallCallback
  BY <1>1, <1>4, <1>5, <1>8, CallbackMakes
<1> QED BY <1>6, <1>7, <1>8

-----------------------------------------------------------------------------
\* resetChildExpirationTime: the fiber is as marked as its children are, and no other changes.
\* (No level is the idle one, so that there is no hidden child.)
LEMMA ResetRaises ==
  ASSUME NEW f \in FiberTrees, NEW n \in Node, NEW side \in Sides, NEW render,
         \A m \in Node, s \in Sides : f[m][s].time # Never /\ f[m][s].childTime # Never
  PROVE  LET g    == ChildTimeReset(f, n, side, render)
             kids == f[n][side].kids
         IN  /\ \A m \in Node, s \in Sides : m # n \/ s # side => g[m][s] = f[m][s]
             /\ \A m \in Node, s \in Sides : g[m][s].time = f[m][s].time /\ g[m][s].childTime # Never
             /\ \A k \in Range(Kids[n]) : Raised(g[k][kids], g[n][side])
<1> DEFINE kids  == f[n][side].kids
           times == UNION { {f[k][kids].time, f[k][kids].childTime} : k \in Range(Kids[n]) }
           top   == Max({NoWork} \cup times)
           g     == ChildTimeReset(f, n, side, render)
<1>1. Range(Kids[n]) \subseteq Node /\ n \notin Range(Kids[n]) /\ kids \in Sides
      /\ f[n][side] \in FiberSet
  BY TreeKids, NotOwnChild DEF Children, FiberTrees, FiberSet
<1>2. \A m \in Node, s \in Sides : f[m][s].time \in Levels /\ f[m][s].childTime \in Levels
  BY DEF FiberTrees, FiberSet
<1>3. Sync \in Nat /\ Levels = 0 .. Sync /\ NoWork \in Levels /\ NoWork # Never
  BY ConstantTypes DEF Levels, NoWork, Sync, Never
<1>4. times \subseteq 0 .. Sync /\ Never \notin times
  <2> HIDE DEF kids
  <2> QED BY <1>1, <1>2, <1>3
<1>5. \A k \in Range(Kids[n]) : f[k][kids].time \in times /\ f[k][kids].childTime \in times
  OBVIOUS
<1>6. g = [f EXCEPT ![n][side].childTime = top]
  <2>1. f[n][side].childTime # Never
    OBVIOUS
  <2> HIDE DEF top
  <2> QED BY <2>1 DEF ChildTimeReset, top, times, kids
<1> HIDE DEF times
<1>7. top \in {NoWork} \cup times /\ \A t \in times : t <= top
  <2>1. {NoWork} \cup times \subseteq 0 .. Sync /\ {NoWork} \cup times # {}
    BY <1>3, <1>4
  <2> QED BY <1>3, <2>1, GreatestOf
<1>8. top # Never
  BY <1>3, <1>4, <1>7
<1> HIDE DEF top, g, kids
<1> DEFINE z == [f[n][side] EXCEPT !.childTime = top]
<1>9. z.time = f[n][side].time /\ z.childTime = top
  BY <1>1 DEF FiberSet
<1>10. \A m \in Node, s \in Sides : g[m][s] = IF m = n /\ s = side THEN z ELSE f[m][s]
  <2>1. g = [f EXCEPT ![n] = [f[n] EXCEPT ![side] = z]]
    BY <1>6
  <2> HIDE DEF z
  <2> QED BY <2>1 DEF FiberTrees
<1> HIDE DEF z
<1>11. \A m \in Node, s \in Sides : g[m][s].time = f[m][s].time /\ g[m][s].childTime # Never
  BY <1>8, <1>9, <1>10
<1>12. ASSUME NEW k \in Range(Kids[n]) PROVE Raised(g[k][kids], g[n][side])
  <2>1. g[k][kids] = f[k][kids] /\ g[n][side] = z
    BY <1>1, <1>10
  <2>2. f[k][kids].time <= top /\ f[k][kids].childTime <= top
    BY <1>5, <1>7
  <2>3. f[k][kids].time \in Nat /\ f[k][kids].childTime \in Nat /\ top \in Nat
    BY <1>1, <1>2, <1>3, <1>4, <1>7
  <2> QED BY <1>9, <2>1, <2>2, <2>3 DEF Raised
<1> QED BY <1>10, <1>11, <1>12 DEF g, kids

\* What is completed leads from a node up to the last one, which has a sibling or is the root.
LEMMA DoneClimbs ==
  ASSUME NEW n \in Node
  PROVE  LET done == Completing[n]
         IN  /\ \A i \in 1 .. Len(done) - 1 : done[i] \in Children /\ done[i + 1] = Parent[done[i]]
             /\ Above[n] \subseteq Range(done) \cup Above[Last(done)]
<1> DEFINE Up(m) == LET done == Completing[m]
                    IN  /\ done[1] = m
                        /\ \A i \in 1 .. Len(done) - 1 : done[i] \in Children /\ done[i + 1] = Parent[done[i]]
                        /\ Above[m] \subseteq Range(done) \cup Above[Last(done)]
           G == { m \in Node : Up(m) }
<1>1. ASSUME NEW m \in Node, Completing[m] = <<m>> PROVE m \in G
  <2> DEFINE done == Completing[m]
  <2>1. Last(done) = m /\ done[1] = m /\ Len(done) = 1
    BY <1>1 DEF Last
  <2> HIDE DEF done
  <2>2. Up(m)
    BY <2>1 DEF done
  <2> QED BY <2>2
<1>2. Node \subseteq G
  <2>1. Root \in G
    BY <1>1, CompletingNodes, TreeAssumption
  <2>2. ASSUME NEW m \in Children, Parent[m] \in G PROVE m \in G
    <3>1. m \in Node /\ m # Root /\ Parent[m] \in Node
      BY TreeParent
    <3>2. CASE ~IsLastChild(m)
      BY <1>1, <3>1, <3>2, CompletingNodes
    <3>3. CASE IsLastChild(m)
      <4> DEFINE s == Completing[Parent[m]]
                 t == Completing[m]
      <4>1. t = <<m>> \o s /\ s \in Seq(Node) /\ s # <<>>
        BY <3>1, <3>3, CompletingNodes
      <4>2. /\ s[1] = Parent[m]
            /\ \A i \in 1 .. Len(s) - 1 : s[i] \in Children /\ s[i + 1] = Parent[s[i]]
            /\ Above[Parent[m]] \subseteq Range(s) \cup Above[Last(s)]
        BY <2>2
      <4>3. Above[m] = {m} \cup Above[Parent[m]]
        BY AboveNodes
      <4> HIDE DEF s, t, G, Up
      <4>4. /\ Len(s) \in Nat /\ Len(s) >= 1 /\ DOMAIN s = 1 .. Len(s) /\ DOMAIN t = 1 .. Len(s) + 1
            /\ t[1] = m /\ \A i \in 1 .. Len(s) : t[i + 1] = s[i]
            /\ Len(t) = Len(s) + 1
        BY <4>1
      <4>5. Last(t) = Last(s)
        BY <4>4 DEF Last
      <4>6. ASSUME NEW i \in 1 .. Len(t) - 1
            PROVE  t[i] \in Children /\ t[i + 1] = Parent[t[i]]
        <5>1. t[i + 1] = s[i]
          BY <4>4, <4>6
        <5>2. CASE i = 1
          BY <4>2, <4>4, <5>1, <5>2
        <5>3. CASE i # 1
          <6>1. i - 1 \in 1 .. Len(s) - 1 /\ i - 1 \in 1 .. Len(s) /\ (i - 1) + 1 = i
            BY <4>4, <4>6, <5>3
          <6>2. t[i] = s[i - 1]
            BY <4>4, <6>1
          <6> QED BY <4>2, <5>1, <6>1, <6>2
        <5> QED BY <5>2, <5>3
      <4>7. m \in Range(t) /\ Range(s) \subseteq Range(t)
        BY <4>4 DEF Range
      <4>8. Up(m)
        BY <4>2, <4>3, <4>4, <4>5, <4>6, <4>7 DEF Up, t
      <4> QED BY <3>1, <4>8 DEF G
    <3> QED BY <3>2, <3>3
  <2> HIDE DEF G
  <2> QED BY <2>1, <2>2, TreeInduction
<1>3. Up(n)
  BY <1>2
<1> QED BY <1>3

\* So no fiber that is completed is one of the children of another that was completed before it.
LEMMA DoneClimbOn ==
  ASSUME NEW done \in Seq(Node),
         \A i \in 1 .. Len(done) - 1 : done[i] \in Children /\ done[i + 1] = Parent[done[i]]
  PROVE  \A i \in 1 .. Len(done), j \in 1 .. Len(done) : j < i =>
           /\ done[i] # done[j] /\ done[i] \notin Range(Kids[done[j]])
<1>1. PICK depth \in [Node -> Nat] : \A m \in Children : depth[m] = depth[Parent[m]] + 1
  BY TreeDepth
<1> DEFINE n == Len(done)
           Good == { i \in 0 .. n : i = 0 \/ depth[done[i]] + i = depth[done[1]] + 1 }
<1>2. n \in Nat /\ \A i \in 1 .. n : done[i] \in Node
  OBVIOUS
<1>3. \A i \in 1 .. n : i - 1 \in Good => i \in Good
  <2> SUFFICES ASSUME NEW i \in 1 .. n, i - 1 \in Good
               PROVE  depth[done[i]] + i = depth[done[1]] + 1
    BY <1>2
  <2>1. CASE i = 1
    <3>1. depth[done[1]] \in Nat
      BY <1>2, <2>1
    <3> QED BY <2>1
  <2>2. CASE i # 1
    <3>1. i - 1 \in 1 .. n - 1 /\ (i - 1) + 1 = i /\ i - 1 # 0
      BY <1>2, <2>2
    <3>2. done[i - 1] \in Children /\ done[i] = Parent[done[i - 1]]
      BY <3>1
    <3>3. depth[done[i - 1]] = depth[done[i]] + 1
      BY <1>1, <3>2
    <3>4. depth[done[i - 1]] + (i - 1) = depth[done[1]] + 1
      BY <3>1
    <3>5. depth[done[i]] \in Nat /\ depth[done[1]] \in Nat
      BY <1>2, <2>2
    <3> QED BY <3>3, <3>4, <3>5
  <2> QED BY <2>1, <2>2
<1>4. 0 \in Good
  BY <1>2
<1> HIDE DEF Good, n
<1>5. 0 .. n \subseteq Good
  BY <1>2, <1>3, <1>4, UpTo
<1>6. \A i \in 1 .. n : depth[done[i]] + i = depth[done[1]] + 1 /\ depth[done[i]] \in Nat
  <2> SUFFICES ASSUME NEW i \in 1 .. n
               PROVE  depth[done[i]] + i = depth[done[1]] + 1 /\ depth[done[i]] \in Nat
    OBVIOUS
  <2>1. i \in Good /\ i # 0
    BY <1>2, <1>5
  <2> QED BY <1>2, <2>1 DEF Good
<1> SUFFICES ASSUME NEW i \in 1 .. n, NEW j \in 1 .. n, j < i
             PROVE  done[i] # done[j] /\ done[i] \notin Range(Kids[done[j]])
  BY DEF n
<1>7. depth[done[i]] < depth[done[j]]
  <2>1. depth[done[i]] + i = depth[done[j]] + j /\ depth[done[i]] \in Nat /\ depth[done[j]] \in Nat
    BY <1>6
  <2> QED BY <1>2, <2>1
<1>8. ASSUME done[i] \in Range(Kids[done[j]]) PROVE FALSE
  <2>1. done[i] \in Children /\ Parent[done[i]] = done[j]
    BY <1>2, <1>8, TreeKids
  <2>2. depth[done[i]] = depth[done[j]] + 1
    BY <1>1, <2>1
  <2> QED BY <1>6, <1>7, <2>2
<1> QED BY <1>6, <1>7, <1>8

\* completeUnitOfWork: what is completed is as marked as its children, since these are
\* done with when their parent gets to it.
LEMMA ResetsSettle ==
  ASSUME fiber \in FiberTrees, NEW side \in [Node -> Sides], NEW done \in Seq(Node), NEW render,
         \A k \in Children : side[k] = fiber[Parent[k]][side[Parent[k]]].kids,
         \A i \in 1 .. Len(done) - 1 : done[i] \in Children /\ done[i + 1] = Parent[done[i]],
         NoneNever
  PROVE  LET g == ChildTimesReset(side, done, render)
         IN  /\ \A m \in Node, s \in Sides : m \notin Range(done) \/ s # side[m] => g[m][s] = fiber[m][s]
             /\ \A m \in Node, s \in Sides : g[m][s].time = fiber[m][s].time /\ g[m][s].childTime # Never
             /\ \A m \in Range(done) : \A k \in Range(Kids[m]) : Raised(g[k][side[k]], g[m][side[m]])
<1> DEFINE n   == Len(done)
           V   == { g \in FiberTrees : /\ Steady(fiber, g)
                                       /\ \A m \in Node, s \in Sides : g[m][s].childTime # Never
                                       /\ \A m \in Node, s \in Sides : g[m][s].time = fiber[m][s].time }
           Reset(v, i) == ChildTimeReset(v, done[i], side[done[i]], render)
           act == [i \in 1 .. n |-> [v \in V |-> Reset(v, i)]]
           Eq(f) == f = [i \in 0 .. n |-> IF i = 0 THEN fiber ELSE Reset(f[i - 1], i)]
<1>1. n \in Nat /\ \A i \in 1 .. n : done[i] \in Node /\ side[done[i]] \in Sides
  OBVIOUS
<1>2. ASSUME NEW i \in 1 .. n, NEW v \in V
      PROVE  /\ Reset(v, i) \in V
             /\ \A m \in Node, s \in Sides : m # done[i] \/ s # side[m] => Reset(v, i)[m][s] = v[m][s]
             /\ \A k \in Range(Kids[done[i]]) :
                  Raised(Reset(v, i)[k][side[k]], Reset(v, i)[done[i]][side[done[i]]])
  <2> DEFINE m == done[i]
             w == Reset(v, i)
  <2>1. m \in Node /\ side[m] \in Sides
    BY <1>1
  <2>2. /\ v \in FiberTrees /\ Steady(fiber, v)
        /\ \A l \in Node, s \in Sides : v[l][s].childTime # Never
        /\ \A l \in Node, s \in Sides : v[l][s].time = fiber[l][s].time
    OBVIOUS
  <2>3. \A l \in Node, s \in Sides : v[l][s].time # Never /\ v[l][s].childTime # Never
    BY <2>2 DEF NoneNever
  <2>4. Steady(v, w)
    BY <2>1, <2>2, ResetIsSteady
  <2> HIDE DEF V
  <2>5. /\ \A l \in Node, s \in Sides : l # m \/ s # side[m] => w[l][s] = v[l][s]
        /\ \A l \in Node, s \in Sides : w[l][s].time = v[l][s].time /\ w[l][s].childTime # Never
        /\ \A k \in Range(Kids[m]) : Raised(w[k][v[m][side[m]].kids], w[m][side[m]])
    BY <2>1, <2>2, <2>3, ResetRaises
  <2> HIDE DEF w, m
  <2>6. w \in V
    <3>1. Steady(fiber, w)
      BY <2>2, <2>4, SteadyOnceMore
    <3> QED BY <2>2, <2>5, <3>1 DEF V, Steady
  <2>7. v[m][side[m]].kids = fiber[m][side[m]].kids
    BY <2>1, <2>2 DEF Steady, SameFiber
  <2>8. \A k \in Range(Kids[m]) : side[k] = v[m][side[m]].kids
    <3> SUFFICES ASSUME NEW k \in Range(Kids[m]) PROVE side[k] = v[m][side[m]].kids
      OBVIOUS
    <3>1. k \in Children /\ Parent[k] = m
      BY <2>1, TreeKids
    <3> QED BY <2>7, <3>1
  <2>9. \A k \in Range(Kids[m]) : Raised(w[k][side[k]], w[m][side[m]])
    BY <2>5, <2>8
  <2>10. \A l \in Node, s \in Sides : l # m \/ s # side[l] => w[l][s] = v[l][s]
    BY <2>5
  <2> QED BY <2>6, <2>9, <2>10 DEF w, m
<1>3. \A i \in 1 .. n, v \in V : act[i][v] = Reset(v, i) /\ act[i][v] \in V
  <2> HIDE DEF Reset, n, V
  <2> QED BY <1>2
<1>4. fiber \in V
  BY SteadyItself DEF NoneNever
<1> HIDE DEF act, n
<1>5. PICK f \in [0 .. n -> V] : Counts(f, n, fiber, act)
  <2>1. \A i \in 1 .. n : \A v \in V : act[i][v] \in V
    BY <1>3
  <2> HIDE DEF V
  <2> QED BY <1>1, <1>4, <2>1, CountingUp
<1>6. Eq(f)
  <2>1. \A i \in 1 .. n : i - 1 \in 0 .. n /\ f[i - 1] \in V
    BY <1>1, <1>5
  <2>2. \A i \in 0 .. n : i = 0 \/ i \in 1 .. n
    BY <1>1
  <2> HIDE DEF V, Reset
  <2> QED BY <1>3, <1>5, <2>1, <2>2 DEF Counts
<1>7. \E g : Eq(g)
  BY <1>6
<1> DEFINE h == CHOOSE g : Eq(g)
<1>8. ChildTimesReset(side, done, render) = h[n] /\ Eq(h)
  BY <1>7, Zenon DEF ChildTimesReset, n
<1> HIDE DEF h
<1>9. h[0] = fiber /\ \A i \in 1 .. n : h[i] = Reset(h[i - 1], i)
  <2> HIDE DEF Reset
  <2> QED BY <1>1, <1>8
<1> HIDE DEF Reset, V
<1>10. \A i, j \in 1 .. n : j < i => done[i] # done[j] /\ done[i] \notin Range(Kids[done[j]])
  BY DoneClimbOn DEF n
<1>11. DOMAIN done = 1 .. n /\ \A i \in 1 .. n : done[i] \in Range(done)
  BY <1>1 DEF n, Range
<1> DEFINE Good == { i \in 0 .. n :
                       /\ h[i] \in V
                       /\ \A m \in Node, s \in Sides : m \notin Range(done) \/ s # side[m] => h[i][m][s] = fiber[m][s]
                       /\ \A j \in 1 .. i : \A k \in Range(Kids[done[j]]) :
                            Raised(h[i][k][side[k]], h[i][done[j]][side[done[j]]]) }
<1>12. 0 \in Good
  BY <1>1, <1>4, <1>9
<1>13. \A i \in 1 .. n : i - 1 \in Good => i \in Good
  <2> SUFFICES ASSUME NEW i \in 1 .. n, i - 1 \in Good PROVE i \in Good
    OBVIOUS
  <2> DEFINE v == h[i - 1]
  <2>1. /\ v \in V
        /\ \A m \in Node, s \in Sides : m \notin Range(done) \/ s # side[m] => v[m][s] = fiber[m][s]
        /\ \A j \in 1 .. i - 1 : \A k \in Range(Kids[done[j]]) :
             Raised(v[k][side[k]], v[done[j]][side[done[j]]])
    OBVIOUS
  <2>2. h[i] = Reset(v, i)
    BY <1>9
  <2> HIDE DEF v, Good
  <2>3. /\ h[i] \in V
        /\ \A m \in Node, s \in Sides : m # done[i] \/ s # side[m] => h[i][m][s] = v[m][s]
        /\ \A k \in Range(Kids[done[i]]) : Raised(h[i][k][side[k]], h[i][done[i]][side[done[i]]])
    BY <1>2, <2>1, <2>2
  <2>4. \A m \in Node, s \in Sides : m \notin Range(done) \/ s # side[m] => h[i][m][s] = fiber[m][s]
    BY <1>11, <2>1, <2>3
  <2>5. ASSUME NEW j \in 1 .. i, NEW k \in Range(Kids[done[j]])
        PROVE  Raised(h[i][k][side[k]], h[i][done[j]][side[done[j]]])
    <3>1. CASE j = i
      BY <2>3, <3>1
    <3>2. CASE j # i
      <4>1. j \in 1 .. i - 1 /\ j \in 1 .. n /\ j < i
        BY <1>1, <3>2
      <4>2. done[j] \in Node /\ done[i] # done[j] /\ done[i] \notin Range(Kids[done[j]])
        BY <1>1, <1>10, <4>1
      <4>3. k \in Children /\ k # done[i]
        BY <4>2, TreeKids
      <4>4. side[k] \in Sides /\ side[done[j]] \in Sides /\ k \in Node
        BY <4>2, <4>3 DEF Children
      <4>5. h[i][k][side[k]] = v[k][side[k]] /\ h[i][done[j]][side[done[j]]] = v[done[j]][side[done[j]]]
        BY <2>3, <4>2, <4>3, <4>4
      <4>6. Raised(v[k][side[k]], v[done[j]][side[done[j]]])
        BY <2>1, <4>1
      <4> QED BY <4>5, <4>6
    <3> QED BY <3>1, <3>2
  <2> QED BY <1>1, <2>3, <2>4, <2>5 DEF Good
<1>14. n \in Good
  <2> HIDE DEF Good
  <2>1. 0 .. n \subseteq Good
    BY <1>1, <1>12, <1>13, UpTo
  <2> QED BY <1>1, <2>1
<1>15. \A m \in Range(done) : \E j \in 1 .. n : m = done[j]
  BY <1>11 DEF Range
<1>16. \A m \in Node, s \in Sides : h[n][m][s].time = fiber[m][s].time /\ h[n][m][s].childTime # Never
  BY <1>14 DEF V
<1>17. \A m \in Range(done) : \A k \in Range(Kids[m]) : Raised(h[n][k][side[k]], h[n][m][side[m]])
  BY <1>14, <1>15
<1>18. \A m \in Node, s \in Sides : m \notin Range(done) \/ s # side[m] => h[n][m][s] = fiber[m][s]
  BY <1>14
<1> QED BY <1>8, <1>16, <1>17, <1>18

\* Only the root is followed by none.
LEMMA OneFollows ==
  ASSUME NEW n \in Node, Last(Completing[n]) # Root
  PROVE  FollowedBy(n) # None
<1> DEFINE last     == Last(Completing[n])
           siblings == Kids[Parent[last]]
           i        == CHOOSE j \in DOMAIN siblings : siblings[j] = last
<1>1. last \in Children /\ ~IsLastChild(last)
  BY LastCompleted DEF Children
<1>2. FollowedBy(n) = siblings[1 + i]
  BY DEF FollowedBy
<1> HIDE DEF last
<1>3. /\ siblings \in Seq(Children) /\ last \in Range(siblings) /\ last # Last(siblings)
  BY <1>1, TreeKids, TreeParent DEF IsLastChild
<1> HIDE DEF siblings
<1>4. i \in DOMAIN siblings /\ siblings[i] = last
  BY <1>3 DEF Range
<1> HIDE DEF i
<1>5. 1 + i \in DOMAIN siblings
  BY <1>3, <1>4 DEF Last
<1>6. siblings[1 + i] \in Node
  BY <1>3, <1>5 DEF Children
<1> QED BY <1>2, <1>6, NoneAssumption

\* So the render has what it completes as marked as what is below, and the screen keeps its marks.
LEMMA CompleteMarks ==
  ASSUME MarksInv, CallbackInv', CompleteUnitOfWork
  PROVE  MarksInv'
<1> DEFINE n     == work.unit
           side  == SideIn(fiber, Other(current))
           done  == Completing[n]
           last  == Last(done)
           unit  == FollowedBy(n)
           open  == IF unit = None THEN {} ELSE Above[unit]
<1>1. /\ ScreenInv /\ Lists /\ CallStack /\ fiber \in FiberTrees /\ MadeOnce
      /\ At("completeUnitOfWork") /\ work.busy /\ n \in Node /\ n # None
      /\ {"busy", "unit", "time", "effects"} \subseteq DOMAIN work
  BY DEF MarksInv, CallbackInv, UpdatesInv, ScreenInv, CallStack, CompleteUnitOfWork, Lists, UpdatesTyped,
         LoopTyped
<1>2. /\ fiber' = ChildTimesReset(side, done, work.time)
      /\ work' = [work EXCEPT !.unit = unit,
                    !.effects = @ \o Those(done, { m \in Node : fiber[m][side[m]].effect })]
      /\ stack' = <<[Head(stack) EXCEPT !.at = "workLoop"]>> \o Tail(stack)
      /\ UNCHANGED <<level, next, eager, queues, current, root, made>>
  BY DEF CompleteUnitOfWork, Goto
<1>3. /\ side = Own /\ side \in [Node -> Sides] /\ done \in Seq(Node)
      /\ \A k \in Children : side[k] = fiber[Parent[k]][side[Parent[k]]].kids
      /\ Side[Root] = current /\ \A m \in Node : Side[m] \in Sides
  BY <1>1, TwoTrees, LastCompleted DEF Own, Wired
<1>4. /\ work'.unit = unit /\ work'.busy /\ Live /\ Live' /\ root'.finishedWork = 0
  BY <1>1, <1>2 DEF Live, MarksInv, Alone
<1>5. /\ \A i \in 1 .. Len(done) - 1 : done[i] \in Children /\ done[i + 1] = Parent[done[i]]
      /\ Above[n] \subseteq Range(done) \cup Above[last] /\ Range(done) \subseteq Above[n]
      /\ last \in Node /\ last \in Range(done)
  <2>1. done # <<>>
    BY <1>1, CompletingNodes
  <2>2. last \in Range(done)
    <3> HIDE DEF done
    <3> QED BY <1>3, <2>1 DEF Range, Last
  <2>3. Range(done) \subseteq Above[n]
    BY <1>1, CompletingUp
  <2>4. last \in Node
    BY <1>1, LastCompleted
  <2> QED BY <1>1, <2>2, <2>3, <2>4, DoneClimbs
<1>6. ASSUME NEW p \in Above[n] PROVE p \in Range(done) \/ p \in open
  <2>1. CASE last = Root
    BY <1>5, <2>1, AboveNodes
  <2>2. CASE last # Root
    <3>1. Above[last] = {last} \cup Above[Parent[last]]
      BY <1>5, <2>2, AboveNodes DEF Children
    <3>2. unit # None
      BY <1>1, <2>2, OneFollows
    <3>3. unit \in Children /\ Parent[unit] = Parent[last]
      BY <1>1, <3>2, NextUnit
    <3>4. Above[unit] = {unit} \cup Above[Parent[last]]
      BY <3>3, AboveNodes
    <3> QED BY <1>5, <3>1, <3>2, <3>4
  <2> QED BY <2>1, <2>2

<1>7. /\ \A m \in Node, s \in Sides : m \notin Range(done) \/ s # side[m] => fiber'[m][s] = fiber[m][s]
      /\ \A m \in Node, s \in Sides : fiber'[m][s].time = fiber[m][s].time /\ fiber'[m][s].childTime # Never
      /\ \A m \in Range(done) : \A k \in Range(Kids[m]) : Raised(fiber'[k][side[k]], fiber'[m][side[m]])
  <2>1. NoneNever
    BY DEF MarksInv
  <2> HIDE DEF side, done
  <2> QED BY <1>1, <1>2, <1>3, <1>5, <2>1, ResetsSettle
<1> HIDE DEF n, side, done, last, unit, open
<1>8. Steady(fiber, fiber')
  BY <1>1, <1>2, <1>3, ResetsAreSteady
<1>9. Own' = Own /\ Side' = Side /\ \A m \in Node : Own[m] \in Sides
  <2>1. FibersStay
    BY <1>2, <1>8 DEF FibersStay, Steady, SameFiber, SameLists
  <2> QED BY <1>1, <2>1, TreesStay
<1>10. \A m \in Range(done) : m \in Above[n] /\ m \in Node /\ Own[m] # Side[m]
  <2>1. Apart(n)
    BY <1>1 DEF MarksInv, CallbackInv, UnitOK, n
  <2>2. Above[n] \subseteq Node
    BY <1>1, AboveNodes
  <2> QED BY <1>1, <1>5, <2>1, <2>2, ApartAbove DEF Apart
<1>11. \A m \in Node : fiber'[m][Side[m]] = fiber[m][Side[m]]
  BY <1>3, <1>7, <1>10
<1>12. Root \in Node /\ \A k \in Children : k \in Node /\ Parent[k] \in Node
  BY TreeAssumption, TreeParent
<1>13. ScreenBubbled'
  BY <1>9, <1>11, <1>12 DEF MarksInv, ScreenBubbled, Bubbled
<1>14. RootMarked'
  BY <1>2, <1>3, <1>11, <1>12 DEF MarksInv, RootMarked
<1>15. NoneNever'
  BY <1>7 DEF MarksInv, NoneNever
<1>16. Alone'
  BY <1>4 DEF Alone
<1>17. \A m : History(m)' = History(m)
  BY <1>2 DEF History
<1>18. HooksMarked'
  <2> SUFFICES ASSUME NEW m \in Functions PROVE NodeMarked(m)'
    BY DEF HooksMarked
  <2>1. m \in Node /\ NodeMarked(m)
    BY TreeAssumption DEF MarksInv, HooksMarked, Children
  <2>2. \A s \in Sides : SameLists(fiber'[m][s], fiber[m][s]) /\ fiber'[m][s].time = fiber[m][s].time
    BY <1>7, <1>8, <2>1 DEF Steady, SameFiber
  <2>3. \A s \in Sides : \E t \in Sides : /\ SameLists(fiber'[m][s], fiber[m][t])
                                          /\ fiber'[m][s].time = fiber[m][t].time
    BY <2>2
  <2> QED BY <1>1, <1>2, <1>17, <2>1, <2>3, MarkedAsBefore
<1>19. QueuesCovered'
  <2> SUFFICES ASSUME NEW m \in Node \ Functions, NEW s \in Sides
               PROVE  ClassCovered(m, fiber[m][s])'
    BY DEF QueuesCovered
  <2>1. ClassCovered(m, fiber[m][s])
    BY <1>4 DEF MarksInv, QueuesCovered, InUse
  <2>2. fiber'[m][s].queue = fiber[m][s].queue /\ fiber'[m][s].time = fiber[m][s].time
    BY <1>7, <1>8 DEF Steady, SameFiber, SameLists
  <2> QED BY <1>2, <2>1, <2>2 DEF ClassCovered
<1>20. OwnBubbled'
  <2> SUFFICES ASSUME NEW k \in Children, Parent[k] \notin open
               PROVE  Raised(fiber'[k][side[k]], fiber'[Parent[k]][side[Parent[k]]])
    BY <1>3, <1>4, <1>9 DEF OwnBubbled, Bubbled, open
  <2>1. CASE Parent[k] \in Range(done)
    <3>1. k \in Range(Kids[Parent[k]])
      BY TreeParent
    <3> QED BY <1>7, <2>1, <3>1
  <2>2. CASE Parent[k] \notin Range(done)
    <3>1. Parent[k] \notin Above[n]
      BY <1>6, <2>2
    <3>2. k \notin Range(done)
      <4>1. Parent[k] \in Above[k] /\ Above[k] = {k} \cup Above[Parent[k]]
        BY <1>12, AboveNodes
      <4>2. k \in Above[n] => Above[k] \subseteq Above[n]
        BY <1>1, AboveAbove
      <4> QED BY <1>10, <3>1, <4>1, <4>2
    <3>3. Raised(fiber[k][side[k]], fiber[Parent[k]][side[Parent[k]]])
      BY <1>1, <1>3, <1>4, <3>1 DEF MarksInv, OwnBubbled, Bubbled, n
    <3>4. side[k] \in Sides /\ side[Parent[k]] \in Sides
      BY <1>3, <1>12
    <3> QED BY <1>7, <1>12, <2>2, <3>2, <3>3, <3>4
  <2> QED BY <2>1, <2>2
<1>21. Copies'
  <2> SUFFICES ASSUME unit # None, NEW m \in Reached'
               PROVE  SameMarks(fiber'[m][Own[m]], fiber'[m][Side[m]])
    BY <1>4, <1>9 DEF Copies
  <2>1. m \in After[n]
    <3>1. unit \in After[n] /\ After[unit] \subseteq After[n]
      BY <1>1, NextUnit DEF unit
    <3> QED BY <1>4, <3>1 DEF Reached
  <2>2. m \in Node /\ m \notin Range(done)
    <3>1. After[n] \subseteq Node
      BY <1>1, AfterNodes DEF Children
    <3> QED BY <1>1, <1>10, <2>1, <3>1, AboveOrAfter
  <2>3. SameMarks(fiber[m][Own[m]], fiber[m][Side[m]])
    <3>1. m \in Reached
      BY <2>1 DEF Reached, n
    <3> QED BY <1>1, <3>1 DEF MarksInv, Copies, n
  <2> QED BY <1>3, <1>7, <1>9, <1>11, <2>2, <2>3
<1> QED BY <1>13, <1>14, <1>15, <1>16, <1>18, <1>19, <1>20, <1>21 DEF MarksInv

-----------------------------------------------------------------------------
\* At first nothing is left to do.
LEMMA InitMarks == Init => MarksInv
<1> SUFFICES ASSUME Init PROVE MarksInv
  OBVIOUS
<1>1. CallbackInv /\ ScreenInv
  BY InitCalls DEF CallbackInv, UpdatesInv
<1>2. /\ work = [busy |-> FALSE, unit |-> None, time |-> NoWork, effects |-> <<>>]
      /\ root.finishedWork = 0 /\ root.firstPendingTime = NoWork /\ current = 1
      /\ made = [n \in Node |-> <<>>]
  BY DEF Init, TreeInit
<1>3. ~work.busy /\ ~Live
  BY <1>2 DEF Live
<1>4. \A n \in Node, s \in Sides : /\ fiber[n][s].time = NoWork /\ fiber[n][s].childTime = NoWork
                                   /\ n # Root => fiber[n][s].queue = 0
                                   /\ n = Root => fiber[n][s].queue = s
  <2> SUFFICES ASSUME NEW n \in Node, NEW s \in Sides
               PROVE  /\ fiber[n][s].time = NoWork /\ fiber[n][s].childTime = NoWork
                      /\ n # Root => fiber[n][s].queue = 0
                      /\ n = Root => fiber[n][s].queue = s
    OBVIOUS
  <2>1. fiber = [m \in Node |-> [t \in Sides |->
                  IF m = Root THEN [Mounted EXCEPT !.queue = t]
                  ELSE IF t = 1 THEN Mounted ELSE NoFiber]]
    BY DEF Init, TreeInit
  <2>2. \A x \in {NoFiber, Mounted} : x.time = NoWork /\ x.childTime = NoWork /\ x.queue = 0
    BY DEF NoFiber, Mounted
  <2> DEFINE y == [Mounted EXCEPT !.queue = s]
  <2>3. y.time = NoWork /\ y.childTime = NoWork /\ y.queue = s
    BY DEF NoFiber, Mounted
  <2> HIDE DEF y
  <2>4. IF n = Root THEN fiber[n][s] = y ELSE fiber[n][s] \in {NoFiber, Mounted}
    BY <2>1 DEF y
  <2> QED BY <2>2, <2>3, <2>4
<1>5. NoWork # Never /\ NoWork \in Nat
  BY DEF NoWork, Never
<1>6. Alone /\ NoneNever /\ Copies /\ OwnBubbled
  BY <1>2, <1>3, <1>4, <1>5 DEF Alone, NoneNever, Copies, OwnBubbled
<1>7. ScreenBubbled /\ RootMarked
  <2>1. Root \in Node /\ current \in Sides /\ \A n \in Node : Side[n] \in Sides
    BY <1>1, TwoTrees, TreeAssumption
  <2>2. \A k \in Children : k \in Node /\ Parent[k] \in Node
    BY TreeParent
  <2>3. \A n \in Node : fiber[n][Side[n]].time = NoWork /\ fiber[n][Side[n]].childTime = NoWork
    BY <1>4, <2>1
  <2>4. fiber[Root][current].time = NoWork /\ fiber[Root][current].childTime = NoWork
    BY <1>4, <2>1
  <2>5. NoWork >= NoWork
    BY <1>5
  <2>6. ScreenBubbled
    BY <2>2, <2>3, <2>5, Zenon DEF ScreenBubbled, Bubbled, Raised
  <2>7. RootMarked
    BY <1>2, <2>4, <2>5 DEF RootMarked, Raised
  <2> QED BY <2>6, <2>7
<1>8. HooksMarked
  <2> SUFFICES ASSUME NEW n \in Functions PROVE NodeMarked(n)
    BY DEF HooksMarked
  <2>1. n \in Node /\ n # Root
    BY TreeAssumption DEF Children
  <2>2. History(n) = <<>> /\ Len(History(n)) = 0
    BY <1>2, <2>1 DEF History
  <2>3. HookClosed(n)
    BY <2>2 DEF HookClosed
  <2>4. \A s \in Sides : HookMarked(n, fiber[n][s])
    BY <1>4, <2>1, <2>2 DEF HookMarked, HookCovered, Waits, EagerAt
  <2> QED BY <2>3, <2>4 DEF NodeMarked
<1>9. QueuesCovered
  <2> SUFFICES ASSUME NEW n \in Node \ Functions, NEW s \in Sides, InUse(n, s), fiber[n][s].queue # 0,
                      queues[n][fiber[n][s].queue].first # None
               PROVE  FALSE
    BY DEF QueuesCovered, ClassCovered
  <2>1. n = Root /\ s = 1 /\ fiber[n][s].queue = 1
    BY <1>2, <1>3, <1>4 DEF InUse
  <2>2. queues[n][1] = NewQueue(<<>>)
    BY <2>1, TreeAssumption DEF Init, TreeInit, Sides
  <2> QED BY <2>1, <2>2 DEF NewQueue
<1> QED BY <1>1, <1>6, <1>7, <1>8, <1>9 DEF MarksInv

LEMMA MarksStep ==
  HooksAdd /\ NoneIdle /\ NoneIdle' /\ MarksInv /\ [Next]_vars => MarksInv'
<1> SUFFICES ASSUME HooksAdd, NoneIdle, NoneIdle', MarksInv, [Next]_vars PROVE MarksInv'
  OBVIOUS
<1>1. CallbackInv'
  BY CallbackStep DEF MarksInv
<1>2. CASE UNCHANGED vars
  <2>1. /\ level' = level /\ next' = next /\ eager' = eager /\ fiber' = fiber /\ queues' = queues
        /\ current' = current /\ made' = made /\ root' = root /\ work' = work /\ stack' = stack
    BY <1>2 DEF vars, treeVars, loopVars
  <2>2. /\ Own' = Own /\ Side' = Side /\ Live' = Live /\ Reached' = Reached
        /\ \A n : History(n)' = History(n)
    BY <2>1 DEF Own, Side, Live, Reached, At, History
  <2>3. HooksMarked'
    BY <2>1, <2>2 DEF MarksInv, HooksMarked, NodeMarked, HookClosed, HookMarked, HookCovered, Waits,
                      BaseAt, EagerAt
  <2>4. QueuesCovered' /\ NoneNever' /\ Alone' /\ RootMarked'
    BY <2>1, <2>2 DEF MarksInv, QueuesCovered, InUse, ClassCovered, NoneNever, Alone, RootMarked
  <2>5. Copies' /\ ScreenBubbled' /\ OwnBubbled'
    BY <2>1, <2>2 DEF MarksInv, Copies, ScreenBubbled, OwnBubbled, Bubbled
  <2> QED BY <1>1, <2>3, <2>4, <2>5 DEF MarksInv
<1>3. CASE Next
  BY <1>1, <1>3, CallsMarks, MakingMarks, PrepareMarks, PerformMarks, CompleteMarks, FinishMarks,
     CommitMarks DEF Next, Step
<1> QED BY <1>2, <1>3

\* On the screen a level is found from every ancestor, since each is as marked as its children.
LEMMA FoundFromAbove ==
  ASSUME fiber \in FiberTrees, \A n \in Node : Side[n] \in Sides, Side[Root] = current,
         ScreenBubbled, RootMarked, root.firstPendingTime \in Levels
  PROVE  \A n \in Node :
           /\ \A m \in Above[n] \ {n} : fiber[m][Side[m]].childTime >= fiber[n][Side[n]].time
           /\ root.firstPendingTime >= fiber[n][Side[n]].time
<1> DEFINE X(n) == fiber[n][Side[n]]
           Found(n, t) == /\ \A m \in Above[n] \ {n} : X(m).childTime >= t
                          /\ root.firstPendingTime >= t
           G == { n \in Node : Found(n, X(n).time) /\ Found(n, X(n).childTime) }
<1>1. \A n \in Node : X(n).time \in Nat /\ X(n).childTime \in Nat
  <2>1. Levels \subseteq Nat
    BY ConstantTypes DEF Levels, NoWork, Sync
  <2> QED BY <2>1 DEF FiberTrees, FiberSet
<1>2. root.firstPendingTime \in Nat
  BY ConstantTypes DEF Levels, NoWork, Sync
<1>3. Root \in G
  <2>1. Root \in Node /\ Above[Root] \ {Root} = {}
    BY AboveNodes, TreeAssumption
  <2>2. root.firstPendingTime >= X(Root).time /\ root.firstPendingTime >= X(Root).childTime
    BY DEF RootMarked, Raised
  <2> QED BY <2>1, <2>2
<1>4. \A n \in Children : Parent[n] \in G => n \in G
  <2> SUFFICES ASSUME NEW n \in Children, Parent[n] \in G
               PROVE  n \in G
    OBVIOUS
  <2> DEFINE p == Parent[n]
  <2>1. n \in Node /\ p \in Node
    BY TreeParent
  <2>2. X(p).childTime >= X(n).time /\ X(p).childTime >= X(n).childTime
    BY DEF ScreenBubbled, Bubbled, Raised
  <2>3. \A m \in Above[n] \ {n} : m \in Node /\ (m = p \/ m \in Above[p] \ {p})
    BY <2>1, AboveNodes
  <2>4. Found(p, X(p).childTime)
    OBVIOUS
  <2> HIDE DEF X, p, G
  <2>5. ASSUME NEW t \in Nat, X(p).childTime >= t PROVE Found(n, t)
    <3>1. \A m \in Above[n] \ {n} : X(m).childTime >= t
      <4> SUFFICES ASSUME NEW m \in Above[n] \ {n} PROVE X(m).childTime >= t
        OBVIOUS
      <4>1. m \in Node /\ (m = p \/ X(m).childTime >= X(p).childTime)
        BY <2>3, <2>4
      <4>2. X(m).childTime \in Nat /\ X(p).childTime \in Nat
        BY <1>1, <2>1, <4>1
      <4> QED BY <2>5, <4>1, <4>2
    <3>2. root.firstPendingTime >= t
      <4>1. root.firstPendingTime >= X(p).childTime /\ X(p).childTime \in Nat
        BY <1>1, <2>1, <2>4
      <4> QED BY <1>2, <2>5, <4>1
    <3> QED BY <3>1, <3>2
  <2>6. Found(n, X(n).time) /\ Found(n, X(n).childTime)
    <3> HIDE DEF Found
    <3>1. X(n).time \in Nat /\ X(n).childTime \in Nat
      BY <1>1, <2>1
    <3> QED BY <2>2, <2>5, <3>1
  <2> QED BY <2>1, <2>6 DEF G
<1> HIDE DEF G
<1>5. Node \subseteq G
  BY <1>3, <1>4, TreeInduction
<1>6. \A n \in Node : Found(n, X(n).time)
  BY <1>5 DEF G
<1> QED BY <1>6

\* What is still to be applied is found.
LEMMA MarksInvFound == MarksInv => PendingMarked
<1> SUFFICES ASSUME MarksInv, NEW n \in Node, FirstPending(n) # None
             PROVE  LET time == fiber[n][Side[n]].time
                    IN  /\ time >= level[FirstPending(n)]
                        /\ \A m \in Ancestors[n] : fiber[m][Side[m]].childTime >= time
                        /\ root.firstPendingTime >= time
  BY Zenon DEF PendingMarked, Ancestors
<1> DEFINE s == Side[n]
           f == fiber[n][s]
           u == FirstPending(n)
<1>1. /\ ScreenInv /\ Lists /\ fiber \in FiberTrees /\ Alive(fiber) /\ MadeOnce /\ current \in Sides
      /\ RootTyped(root) /\ ScreenBubbled /\ RootMarked
  BY DEF MarksInv, CallbackInv, UpdatesInv, LoopTyped, Lists, UpdatesTyped, ScreenInv, FinishedInv
<1>2. \A m \in Node : Side[m] \in Sides /\ fiber[m][Side[m]].exists
  BY <1>1, OwnFibers DEF Side
<1>3. Side[Root] = current
  BY <1>1, TwoTrees DEF Wired
<1>4. root.firstPendingTime \in Levels
  BY <1>1 DEF RootTyped
<1>5. /\ \A m \in Above[n] \ {n} : fiber[m][Side[m]].childTime >= fiber[n][Side[n]].time
      /\ root.firstPendingTime >= fiber[n][Side[n]].time
  BY <1>1, <1>2, <1>3, <1>4, FoundFromAbove
<1>6. Ancestors[n] = Above[n] \ {n}
  BY AncestorsAbove
<1>7. f.time >= level[u]
  <2>1. CASE n \in Functions
    <3>1. NodeMarked(n) /\ s \in Sides /\ f.exists
      BY <1>2, <2>1 DEF MarksInv, HooksMarked
    <3>2. HookSide(n, f)
      BY <1>1, <2>1, <3>1 DEF Lists, NodeLists, SideOf
    <3>3. PICK b \in 0 .. Len(History(n)) : HookFrom(f.base, f.baseUpdate, History(n), b)
      BY <3>2 DEF HookSide
    <3>4. BaseAt(f, History(n), b)
      BY <3>3 DEF BaseAt, HookFrom
    <3>5. u = HookFirst(HookOpened(next, hooks[n], f.baseUpdate), hooks[n], f.baseUpdate)
      BY <2>1 DEF FirstPending
    <3> HIDE DEF f, u, s
    <3>6. u = IF b = Len(History(n)) THEN None ELSE History(n)[b + 1]
      BY <1>1, <2>1, <3>1, <3>4, <3>5, HookRestIsFound DEF NodeMarked, f
    <3>7. b < Len(History(n)) /\ u = History(n)[b + 1]
      <4>1. Len(History(n)) \in Nat
        BY <1>1, Histories
      <4>2. u # None
        BY DEF u
      <4> QED BY <3>3, <3>6, <4>1, <4>2
    <3> QED BY <3>1, <3>4, <3>7 DEF NodeMarked, HookMarked, HookCovered, f
  <2>2. CASE n \notin Functions
    <3>1. u = IF f.queue = 0 THEN None ELSE queues[n][f.queue].first
      BY <2>2 DEF FirstPending
    <3>2. InUse(n, s) /\ s \in Sides
      BY <1>2, <1>3 DEF InUse
    <3>3. ClassCovered(n, f)
      BY <2>2, <3>2 DEF MarksInv, QueuesCovered
    <3> HIDE DEF f, u, s
    <3>4. u # None
      BY DEF u
    <3> QED BY <3>1, <3>3, <3>4 DEF ClassCovered
  <2> QED BY <2>1, <2>2
<1> QED BY <1>5, <1>6, <1>7

\* Nothing gets lost (markUpdateTimeFromFiberToRoot, resetChildExpirationTime, processUpdateQueue,
\* updateReducer): where updates of hooks change the state and none is idle, an update that the
\* component on the screen has not got in its base state is found from the root, whatever
\* was rendered, interrupted, thrown away or committed since.
THEOREM PendingIsMarked == HooksAdd /\ Spec /\ []NoneIdle => []PendingMarked
<1>1. Init => MarksInv
  BY InitMarks
<1>2. HooksAdd /\ NoneIdle /\ NoneIdle' /\ MarksInv /\ [Next]_vars => MarksInv'
  BY MarksStep
<1>3. MarksInv => PendingMarked
  BY MarksInvFound
<1>4. HooksAdd => HooksAdd'
  BY DEF HooksAdd
<1> QED BY <1>1, <1>2, <1>3, <1>4, PTL DEF Spec
=============================================================================
