--------------------------- MODULE WorkLoopProofs ---------------------------
(***************************************************************************)
(* That a commit never meets the tree that is already on the screen; that  *)
(* the screen never mixes two trees, whatever interrupts a render; that    *)
(* what it shows are updates in the order they were made, none twice; and  *)
(* what expiration times promise: for every tree, all updates and clocks.  *)
(***************************************************************************)
EXTENDS WorkLoop, DataLemmas

RootFields == { "firstPendingTime", "callbackNode", "callbackExpirationTime",
                "finishedWork", "finishedExpirationTime" }

\* The inductive invariant: what is finished is the other side, or nothing.  No
\* action but three writes to either of the two.
FinishedInv ==
  /\ current \in Sides
  /\ DOMAIN root = RootFields
  /\ root.finishedWork \in {0, Other(current)}

\* There are two sides.
LEMMA Others ==
  \A s \in Sides : /\ Other(s) \in Sides /\ Other(s) # s /\ Other(Other(s)) = s
                   /\ \A t \in Sides : t # s => t = Other(s)
BY DEF Sides, Other

LEMMA FinishedInvImplies == FinishedInv => CommitsOtherTree
BY Others DEF FinishedInv, CommitsOtherTree, Sides

\* What an action does that leaves both alone.
Kept ==
  /\ current' = current
  /\ DOMAIN root' = DOMAIN root /\ root'.finishedWork = root.finishedWork

LEMMA KeptPreserves == FinishedInv /\ Kept => FinishedInv'
BY DEF FinishedInv, Kept, RootFields

LEMMA ScheduleCallbackKeeps ==
  ASSUME FinishedInv, NEW r, DOMAIN r = RootFields, r.finishedWork = root.finishedWork,
         NEW priority, NEW expiration,
         ScheduleCallbackForRoot(r, priority, expiration)
  PROVE  DOMAIN root' = DOMAIN root /\ root'.finishedWork = root.finishedWork
BY DEF ScheduleCallbackForRoot, FinishedInv, RootFields

\* Making an update, which may schedule a callback for the root.
LEMMA MakeUpdateKeeps ==
  ASSUME FinishedInv, NEW u, NEW priority, NEW isInsideReact, NEW isDiscrete,
         MakeUpdate(u, priority, isInsideReact, isDiscrete)
  PROVE  DOMAIN root' = DOMAIN root /\ root'.finishedWork = root.finishedWork
<1> DEFINE n == Target[u]
           expiration == ComputedExpiration(RequestedTime(isInsideReact), priority)
           fibers == IF n \in Functions THEN fiber ELSE WithQueues(n)
           first == Max({root.firstPendingTime, expiration})
           r == [root EXCEPT !.firstPendingTime = first]
<1>1. CASE EagerlySame(n, u)
  BY <1>1 DEF MakeUpdate
<1>2. CASE ~EagerlySame(n, u)
  <2>1. ScheduleUpdate(n, fibers, expiration, priority, isDiscrete)
    BY <1>2 DEF MakeUpdate
  <2>2. ScheduleCallbackForRoot(r, priority, expiration)
    BY <2>1 DEF ScheduleUpdate
  <2>3. DOMAIN r = RootFields /\ r.finishedWork = root.finishedWork
    BY DEF FinishedInv, RootFields
  <2> HIDE DEF r, expiration
  <2> QED
    BY <2>2, <2>3, ScheduleCallbackKeeps
<1> QED
  BY <1>1, <1>2

\* A call that returns null may forget the callback of the root, and no more.
LEMMA ReturnNullKeeps ==
  ASSUME FinishedInv, ReturnNull(root)
  PROVE  DOMAIN root' = DOMAIN root /\ root'.finishedWork = root.finishedWork
BY DEF ReturnNull, FinishedInv, RootFields

LEMMA InitFinished == Init => FinishedInv
BY DEF Init, TreeInit, FinishedInv, RootFields, Sides

\* Most actions write to neither.
LEMMA QuietActionsKeep ==
  ASSUME FinishedInv,
         \/ \E event \in Events : BeginEvent(event)
         \/ EndEvent \/ BeginFlush \/ FlushNext \/ BeginPassiveEffects
         \/ CompleteUnitOfWork \/ Yield \/ BeginCommit \/ CommitNothing
         \/ \E task \in tasks : RunTask(task)
         \/ Tick
  PROVE  Kept
<1>1. ASSUME NEW event \in Events, BeginEvent(event) PROVE Kept
  BY <1>1 DEF BeginEvent, Kept, treeVars
<1>2. CASE EndEvent
  BY <1>2 DEF EndEvent, Kept, treeVars
<1>3. CASE BeginFlush
  BY <1>3 DEF BeginFlush, Kept, treeVars
<1>4. CASE FlushNext
  BY <1>4 DEF FlushNext, Kept, treeVars
<1>5. CASE BeginPassiveEffects
  BY <1>5 DEF BeginPassiveEffects, Kept, treeVars
<1>6. CASE CompleteUnitOfWork
  BY <1>6 DEF CompleteUnitOfWork, Kept
<1>7. CASE Yield
  BY <1>7 DEF Yield, Kept, treeVars
<1>8. CASE BeginCommit
  BY <1>8 DEF BeginCommit, Kept, treeVars
<1>9. CASE CommitNothing
  BY <1>9 DEF CommitNothing, Kept, treeVars
<1>10. ASSUME NEW task \in tasks, RunTask(task) PROVE Kept
  BY <1>10 DEF RunTask, Kept, treeVars
<1>11. CASE Tick
  BY <1>11 DEF Tick, Kept, treeVars
<1> QED
  BY <1>1, <1>2, <1>3, <1>4, <1>5, <1>6, <1>7, <1>8, <1>9, <1>10, <1>11

\* Others write to other fields of the root: updates, and what schedules or
\* forgets its callback.
LEMMA SchedulingKeeps ==
  ASSUME FinishedInv,
         \/ \E u \in Update : EventUpdate(u)
         \/ RunPassiveEffect \/ BeginRenderRoot \/ PerformUnitOfWork
         \/ CallCallback \/ EndCommit \/ CommitReturns
  PROVE  Kept
<1>1. ASSUME NEW u \in Update, EventUpdate(u) PROVE Kept
  BY <1>1, MakeUpdateKeeps DEF EventUpdate, Kept
<1>2. CASE RunPassiveEffect
  <2> DEFINE mine == Head(stack).passive
             left == UNION { Reactions(n) : n \in Range(mine.nodes) } \ MadeUpdates
  <2>1. CASE left = {}
    BY <1>2, <2>1 DEF RunPassiveEffect, Kept, treeVars
  <2>2. CASE left # {}
    <3>1. current' = current /\ \E u \in left : MakeUpdate(u, mine.priority, TRUE, FALSE)
      BY <1>2, <2>2 DEF RunPassiveEffect
    <3> QED
      BY <3>1, MakeUpdateKeeps DEF Kept
  <2> QED
    BY <2>1, <2>2
<1>3. CASE BeginRenderRoot
  BY <1>3, ReturnNullKeeps DEF BeginRenderRoot, Kept, treeVars
<1>4. CASE PerformUnitOfWork
  BY <1>4 DEF PerformUnitOfWork, BeginWork, Kept
<1>5. CASE CallCallback
  <2> DEFINE u == Head(Head(stack).callbacks)
             v == Reaction[u]
  <2>1. current' = current
    BY <1>5 DEF CallCallback
  <2>2. CASE v # None /\ v \notin MadeUpdates
    <3>1. MakeUpdate(v, "immediate", TRUE, FALSE)
      BY <1>5, <2>2 DEF CallCallback
    <3> QED
      BY <2>1, <3>1, MakeUpdateKeeps DEF Kept
  <2>3. CASE ~(v # None /\ v \notin MadeUpdates)
    BY <1>5, <2>1, <2>3 DEF CallCallback, Kept
  <2> QED
    BY <2>2, <2>3
<1>6. CASE EndCommit
  <2>1. current' = current
    BY <1>6 DEF EndCommit, treeVars
  <2>2. CASE root.firstPendingTime = NoWork
    BY <1>6, <2>1, <2>2 DEF EndCommit, Kept
  <2>3. CASE root.firstPendingTime # NoWork
    <3>1. ScheduleCallbackForRoot(root,
            PriorityOf(RequestedTime(FALSE), root.firstPendingTime), root.firstPendingTime)
      BY <1>6, <2>3 DEF EndCommit
    <3>2. DOMAIN root = RootFields
      BY DEF FinishedInv
    <3> QED
      BY <2>1, <3>1, <3>2, ScheduleCallbackKeeps DEF Kept
  <2> QED
    BY <2>2, <2>3
<1>7. CASE CommitReturns
  BY <1>7, ReturnNullKeeps DEF CommitReturns, Kept, treeVars
<1> QED
  BY <1>1, <1>2, <1>3, <1>4, <1>5, <1>6, <1>7

\* A fresh stack gives up what was finished ...
LEMMA PreparePreserves == FinishedInv /\ Prepare => FinishedInv'
<1> SUFFICES ASSUME FinishedInv, Prepare PROVE FinishedInv'
  OBVIOUS
<1>1. current' = current /\ PrepareStack(Head(stack).todo)
  BY DEF Prepare
<1>2. /\ DOMAIN root' = RootFields
      /\ root'.finishedWork \in {0, root.finishedWork}
  BY <1>1 DEF PrepareStack, FinishedInv, RootFields
<1> QED
  BY <1>1, <1>2 DEF FinishedInv

\* ... a render finishes the side that is not on the screen ...
LEMMA FinishRenderPreserves == FinishedInv /\ FinishRender => FinishedInv'
<1> SUFFICES ASSUME FinishedInv, FinishRender PROVE FinishedInv'
  OBVIOUS
<1>1. /\ current' = current
      /\ root' = [root EXCEPT !.finishedWork = Other(current),
                              !.finishedExpirationTime = Head(stack).todo]
  BY DEF FinishRender, treeVars
<1>2. DOMAIN root' = RootFields /\ root'.finishedWork = Other(current)
  BY <1>1 DEF FinishedInv, RootFields
<1> QED
  BY <1>1, <1>2 DEF FinishedInv

\* ... and the commit, which swaps the sides, leaves nothing finished.
LEMMA CommitTreePreserves == FinishedInv /\ CommitTree => FinishedInv'
<1> SUFFICES ASSUME FinishedInv, CommitTree PROVE FinishedInv'
  OBVIOUS
<1>1. /\ root.finishedWork # 0 /\ current' = root.finishedWork
      /\ root' = RootCommitted(fiber[Root][root.finishedWork])
  BY DEF CommitTree
<1>2. current' \in Sides
  BY <1>1, Others DEF FinishedInv
<1>3. DOMAIN root' = RootFields /\ root'.finishedWork = 0
  BY <1>1 DEF RootCommitted, RootFields
<1> QED
  BY <1>2, <1>3 DEF FinishedInv

LEMMA StepPreserves == FinishedInv /\ [Next]_vars => FinishedInv'
<1> SUFFICES ASSUME FinishedInv, [Next]_vars PROVE FinishedInv'
  OBVIOUS
<1>1. CASE Kept
  BY <1>1, KeptPreserves
<1>2. CASE Prepare
  BY <1>2, PreparePreserves
<1>3. CASE FinishRender
  BY <1>3, FinishRenderPreserves
<1>4. CASE CommitTree
  BY <1>4, CommitTreePreserves
<1>5. CASE UNCHANGED vars
  BY <1>5, KeptPreserves DEF vars, treeVars, loopVars, Kept
<1>6. CASE Next
  <2>1. \/ Prepare \/ FinishRender \/ CommitTree \/ Kept
    BY <1>6, QuietActionsKeep, SchedulingKeeps DEF Next, Step
  <2> QED
    BY <2>1, <1>1, <1>2, <1>3, <1>4
<1> QED
  BY <1>5, <1>6

\* commitRootImpl's invariant "Cannot commit the same tree as before" never
\* throws, however renders, updates and commits follow each other.
THEOREM CommitIsOfOtherTree == Spec => []CommitsOtherTree
<1>1. Init => FinishedInv
  BY InitFinished
<1>2. FinishedInv /\ [Next]_vars => FinishedInv'
  BY StepPreserves
<1>3. FinishedInv => CommitsOtherTree
  BY FinishedInvImplies
<1> QED
  BY <1>1, <1>2, <1>3, PTL DEF Spec
-----------------------------------------------------------------------------
(***************************************************************************)
(* The tree of components, and recursion from each node to its parent.     *)
(***************************************************************************)
\* Every child has one parent, and that one only lists it.
LEMMA TreeParent ==
  \A n \in Children :
    /\ Parent[n] \in Node /\ n \in Node /\ n # Root
    /\ \A q \in Node : n \in Range(Kids[q]) <=> q = Parent[n]
<1> SUFFICES ASSUME NEW n \in Children
             PROVE  /\ Parent[n] \in Node /\ n \in Node /\ n # Root
                    /\ \A q \in Node : n \in Range(Kids[q]) <=> q = Parent[n]
  OBVIOUS
<1>1. PICK p \in Node : \A q \in Node : n \in Range(Kids[q]) <=> q = p
  BY TreeAssumption
<1>2. Parent[n] = CHOOSE q \in Node : n \in Range(Kids[q])
  BY DEF Parent
<1>3. Parent[n] \in Node /\ n \in Range(Kids[Parent[n]])
  BY <1>1, <1>2
<1> QED BY <1>1, <1>3 DEF Children

\* The children of a node have it as their parent.
LEMMA TreeKids ==
  \A p \in Node :
    /\ Kids[p] \in Seq(Children) /\ IsInjective(Kids[p])
    /\ \A n \in Range(Kids[p]) : n \in Children /\ Parent[n] = p
<1> SUFFICES ASSUME NEW p \in Node
             PROVE  /\ Kids[p] \in Seq(Children) /\ IsInjective(Kids[p])
                    /\ \A n \in Range(Kids[p]) : n \in Children /\ Parent[n] = p
  OBVIOUS
<1>1. Kids[p] \in Seq(Children) /\ IsInjective(Kids[p])
  BY TreeAssumption
<1>2. \A n \in Range(Kids[p]) : n \in Children
  BY <1>1 DEF Range
<1> QED BY <1>1, <1>2, TreeParent

\* Parents are less deep than their children.
LEMMA TreeDepth ==
  \E depth \in [Node -> Nat] : \A n \in Children : depth[n] = depth[Parent[n]] + 1
<1>1. PICK depth \in [Node -> 0 .. Cardinality(Node)] :
        \A p \in Node : \A n \in Range(Kids[p]) : depth[n] = depth[p] + 1
  BY TreeAssumption
<1>2. depth \in [Node -> Nat]
  OBVIOUS
<1>3. \A n \in Children : n \in Range(Kids[Parent[n]]) /\ Parent[n] \in Node
  BY TreeParent
<1> QED BY <1>1, <1>2, <1>3

\* What the root has, and each child of a node that has it, all have.
LEMMA TreeInduction ==
  ASSUME NEW G, Root \in G, \A n \in Children : Parent[n] \in G => n \in G
  PROVE  Node \subseteq G
<1>1. PICK depth \in [Node -> Nat] : \A n \in Children : depth[n] = depth[Parent[n]] + 1
  BY TreeDepth
<1> DEFINE Bad == { depth[n] : n \in Node \ G }
<1> SUFFICES ASSUME Bad # {} PROVE FALSE
  OBVIOUS
<1>2. PICK m \in Bad : \A k \in Bad : m <= k
  <2>1. Bad \subseteq Nat
    BY <1>1
  <2> HIDE DEF Bad
  <2> QED BY <2>1, LeastElement
<1>3. PICK n \in Node \ G : depth[n] = m
  BY <1>2
<1>4. n \in Children /\ Parent[n] \in Node \ G
  BY <1>3, TreeParent DEF Children
<1>5. depth[Parent[n]] \in Bad /\ depth[Parent[n]] \in Nat /\ m = depth[Parent[n]] + 1
  BY <1>1, <1>3, <1>4
<1>6. m <= depth[Parent[n]]
  BY <1>2, <1>5
<1> QED BY <1>5, <1>6

\* A function that is defined by recursion from each of `again' to the parent.
LEMMA AlongParents ==
  ASSUME NEW again, again \subseteq Children, NEW V, NEW step, NEW out,
         \A n \in Node : IF n \in again THEN \A v \in V : step[n][v] \in V ELSE out[n] \in V
  PROVE  \E f \in [Node -> V] : Computes(f, Node, again, Parent, step, out)
<1>1. PICK depth \in [Node -> Nat] : \A n \in Children : depth[n] = depth[Parent[n]] + 1
  BY TreeDepth
<1>2. again \subseteq Node /\ \A n \in again : Parent[n] \in Node
  BY TreeParent
<1>3. \A n \in again : depth[n] \in Nat /\ depth[Parent[n]] \in Nat
                       /\ depth[n] = depth[Parent[n]] + 1
  BY <1>1, <1>2
<1>4. \A n \in again : depth[Parent[n]] < depth[n]
  BY <1>3
<1>5. Decreases(Node, again, Parent, depth)
  BY <1>1, <1>2, <1>4 DEF Decreases
<1> QED BY <1>5, RecursionEnds
-----------------------------------------------------------------------------
(***************************************************************************)
(* What the proof knows of a fiber, and the sides of a tree.               *)
(***************************************************************************)
AreFibers(f) ==
  /\ DOMAIN f = Node
  /\ \A n \in Node : DOMAIN f[n] = Sides
  /\ \A n \in Node, s \in Sides :
       {"kids", "state", "props"} \subseteq DOMAIN f[n][s] /\ f[n][s].kids \in Sides

Alike(x, y) == x.kids = y.kids /\ x.state = y.state /\ x.props = y.props

\* Fibers that show the same.
Similar(f, g) == AreFibers(g) /\ \A n \in Node, s \in Sides : Alike(g[n][s], f[n][s])

\* The side of each node is the one that its parent points to.
Wired(f, top, side) ==
  /\ side \in [Node -> Sides] /\ side[Root] = top
  /\ \A n \in Children : side[n] = f[Parent[n]][side[Parent[n]]].kids

\* SideIn, which is defined by recursion, is what it says.
LEMMA SidesAreWired ==
  ASSUME NEW f, AreFibers(f), NEW top \in Sides
  PROVE  Wired(f, top, SideIn(f, top))
<1> DEFINE step == [n \in Node |-> [v \in Sides |-> f[Parent[n]][v].kids]]
           out  == [n \in Node |-> top]
           Eq(side) == side = [n \in Node |-> IF n = Root THEN top
                                              ELSE f[Parent[n]][side[Parent[n]]].kids]
<1>1. \A n \in Node : IF n \in Children THEN \A v \in Sides : step[n][v] \in Sides
                      ELSE out[n] \in Sides
  BY TreeParent DEF AreFibers
<1>2. PICK side \in [Node -> Sides] : Computes(side, Node, Children, Parent, step, out)
  <2>1. Children \subseteq Children
    OBVIOUS
  <2> HIDE DEF step, out, Eq
  <2> QED BY <1>1, <2>1, AlongParents, ZenonT(60)
<1>3. \A n \in Children : step[n][side[Parent[n]]] = f[Parent[n]][side[Parent[n]]].kids
  BY TreeParent
<1>4. Eq(side)
  BY <1>2, <1>3 DEF Children, Computes
<1> HIDE DEF step, out
<1>5. SideIn(f, top) = CHOOSE s : Eq(s)
  BY DEF SideIn
<1>6. Eq(SideIn(f, top))
  <2> HIDE DEF Eq
  <2> QED BY <1>4, <1>5, ZenonT(60)
<1> DEFINE chosen == SideIn(f, top)
<1> HIDE DEF chosen
<1>7. chosen = [n \in Node |-> IF n = Root THEN top
                               ELSE f[Parent[n]][chosen[Parent[n]]].kids]
  BY <1>6, ZenonT(60) DEF chosen
<1>8. chosen[Root] = top
  BY <1>7, TreeAssumption
<1>9. \A n \in Children : chosen[n] = f[Parent[n]][chosen[Parent[n]]].kids
  BY <1>7, TreeParent DEF Children
<1>10. Node \subseteq { n \in Node : chosen[n] \in Sides }
  <2> DEFINE G == { n \in Node : chosen[n] \in Sides }
  <2>1. Root \in G
    BY <1>8, TreeAssumption
  <2>2. \A n \in Children : Parent[n] \in G => n \in G
    <3> SUFFICES ASSUME NEW n \in Children, Parent[n] \in G PROVE n \in G
      OBVIOUS
    <3>1. n \in Node /\ Parent[n] \in Node /\ chosen[Parent[n]] \in Sides
      BY TreeParent
    <3>2. f[Parent[n]][chosen[Parent[n]]].kids \in Sides
      BY <3>1 DEF AreFibers
    <3> QED BY <1>9, <3>1, <3>2
  <2> HIDE DEF G
  <2>3. Node \subseteq G
    BY <2>1, <2>2, TreeInduction
  <2> QED BY <2>3 DEF G
<1>11. chosen \in [Node -> Sides]
  <2>1. \A n \in Node : chosen[n] \in Sides
    BY <1>10
  <2> QED BY <1>7, <2>1
<1> QED BY <1>8, <1>9, <1>11 DEF Wired, chosen

\* And nothing else is wired that way.
LEMMA WiredIsSides ==
  ASSUME NEW f, AreFibers(f), NEW top \in Sides, NEW side, Wired(f, top, side)
  PROVE  SideIn(f, top) = side
<1> DEFINE chosen == SideIn(f, top)
<1>1. Wired(f, top, chosen)
  BY SidesAreWired
<1> HIDE DEF chosen
<1> DEFINE G == { n \in Node : chosen[n] = side[n] }
<1>2. Node \subseteq G
  <2>1. Root \in G
    BY <1>1, TreeAssumption DEF Wired
  <2>2. \A n \in Children : Parent[n] \in G => n \in G
    BY <1>1, TreeParent DEF Wired
  <2> HIDE DEF G
  <2> QED BY <2>1, <2>2, TreeInduction
<1>3. \A n \in Node : chosen[n] = side[n]
  BY <1>2
<1>4. chosen = side
  BY <1>1, <1>3 DEF Wired
<1> QED BY <1>4 DEF chosen

\* Sides depend on nothing but what the fibers on them point to.
LEMMA SameSides ==
  ASSUME NEW f, AreFibers(f), NEW g, AreFibers(g), NEW top \in Sides,
         LET side == SideIn(f, top)
         IN  \A n \in Node : g[n][side[n]].kids = f[n][side[n]].kids
  PROVE  SideIn(g, top) = SideIn(f, top)
<1> DEFINE side == SideIn(f, top)
<1>1. Wired(f, top, side)
  BY SidesAreWired
<1>2. \A n \in Node : g[n][side[n]].kids = f[n][side[n]].kids
  OBVIOUS
<1> HIDE DEF side
<1>3. Wired(g, top, side)
  BY <1>1, <1>2, TreeParent DEF Wired
<1>4. SideIn(g, top) = side
  BY <1>3, WiredIsSides
<1> QED BY <1>4 DEF side
-----------------------------------------------------------------------------
(***************************************************************************)
(* What rendering one component does to the fibers.                        *)
(***************************************************************************)
LEMMA NotOwnChild == \A n \in Node : n \notin Range(Kids[n])
<1>1. PICK depth \in [Node -> Nat] : \A n \in Children : depth[n] = depth[Parent[n]] + 1
  BY TreeDepth
<1> SUFFICES ASSUME NEW n \in Node, n \in Range(Kids[n]) PROVE FALSE
  OBVIOUS
<1>2. n \in Children /\ Parent[n] = n
  BY TreeKids
<1>3. depth[n] = depth[n] + 1 /\ depth[n] \in Nat
  BY <1>1, <1>2
<1> QED BY <1>3

\* A new state, perhaps, for one fiber.
Restated(f, g, n, side) ==
  /\ AreFibers(g)
  /\ \A m \in Node, s \in Sides :
       /\ g[m][s].kids = f[m][s].kids /\ g[m][s].props = f[m][s].props
       /\ (m # n \/ s # side) => g[m][s].state = f[m][s].state

\* The fiber points to the other fibers of its children, which are like those that
\* it has pointed to, but for their props.
Spawned(f, g, n, side) ==
  LET kids == f[n][side].kids
  IN  /\ AreFibers(g)
      /\ g[n][side].kids = Other(kids)
      /\ g[n][side].state = f[n][side].state /\ g[n][side].props = f[n][side].props
      /\ Alike(g[n][Other(side)], f[n][Other(side)])
      /\ \A k \in Range(Kids[n]) :
           /\ Alike(g[k][kids], f[k][kids])
           /\ g[k][Other(kids)].kids = f[k][kids].kids
           /\ g[k][Other(kids)].state = f[k][kids].state
      /\ \A m \in Node, s \in Sides :
           m # n /\ m \notin Range(Kids[n]) => Alike(g[m][s], f[m][s])

\* createWorkInProgress: the other fiber shows what this one does; no other one changes.
LEMMA CopyOfFiber ==
  ASSUME NEW f, AreFibers(f), NEW n \in Node, NEW side \in Sides
  PROVE  LET g == WorkInProgress(f, n, side)
         IN  /\ AreFibers(g)
             /\ Alike(g[n][Other(side)], f[n][side]) /\ Alike(g[n][side], f[n][side])
             /\ \A m \in Node, s \in Sides : m # n => Alike(g[m][s], f[m][s])
<1> DEFINE copy == [f[n][side] EXCEPT !.fresh = FALSE, !.effect = FALSE]
           g == [f EXCEPT ![n][Other(side)] = copy]
<1>1. /\ {"kids", "state", "props"} \subseteq DOMAIN copy
      /\ copy.kids = f[n][side].kids /\ copy.state = f[n][side].state
      /\ copy.props = f[n][side].props
  <2>1. {"kids", "state", "props"} \subseteq DOMAIN f[n][side]
    BY DEF AreFibers
  <2> QED BY <2>1
<1>2. copy.kids \in Sides
  BY <1>1 DEF AreFibers
<1> HIDE DEF copy
<1>3. DOMAIN g = Node /\ DOMAIN f = Node /\ DOMAIN f[n] = Sides
  BY DEF AreFibers
<1>4. g[n] = [f[n] EXCEPT ![Other(side)] = copy] /\ \A m \in Node : m # n => g[m] = f[m]
  BY <1>3
<1>5. DOMAIN g[n] = Sides /\ g[n][Other(side)] = copy /\ g[n][side] = f[n][side]
  BY <1>3, <1>4, Others
<1> HIDE DEF g
<1>6. \A m \in Node : DOMAIN g[m] = Sides
  BY <1>4, <1>5 DEF AreFibers
<1>7. \A m \in Node, s \in Sides :
        {"kids", "state", "props"} \subseteq DOMAIN g[m][s] /\ g[m][s].kids \in Sides
  <2> SUFFICES ASSUME NEW m \in Node, NEW s \in Sides
               PROVE  {"kids", "state", "props"} \subseteq DOMAIN g[m][s] /\ g[m][s].kids \in Sides
    OBVIOUS
  <2>1. \/ g[m][s] = copy
        \/ g[m][s] = f[m][s]
    BY <1>4, <1>5, Others
  <2> QED BY <2>1, <1>1, <1>2 DEF AreFibers
<1>8. AreFibers(g)
  BY <1>3, <1>6, <1>7 DEF AreFibers
<1>9. Alike(g[n][Other(side)], f[n][side]) /\ Alike(g[n][side], f[n][side])
  BY <1>1, <1>5 DEF Alike
<1>10. \A m \in Node, s \in Sides : m # n => Alike(g[m][s], f[m][s])
  BY <1>4 DEF Alike
<1>11. g = WorkInProgress(f, n, side)
  BY DEF g, copy, WorkInProgress
<1> QED BY <1>8, <1>9, <1>10, <1>11

\* cloneChildFibers
LEMMA CloneOfChildren ==
  ASSUME NEW f, AreFibers(f), NEW n \in Node, NEW side \in Sides
  PROVE  LET g    == ChildrenCloned(f, n, side)
             kids == f[n][side].kids
         IN  /\ Spawned(f, g, n, side)
             /\ \A k \in Range(Kids[n]) : g[k][Other(kids)].props = f[k][kids].props
<1> DEFINE kids == f[n][side].kids
           mine == [f[n][side] EXCEPT !.kids = Other(kids)]
           other == [f EXCEPT ![n][side].kids = Other(kids)]
           g == ChildrenCloned(f, n, side)
<1>1. kids \in Sides /\ Other(kids) \in Sides
  BY Others DEF AreFibers
<1>2. /\ {"kids", "state", "props"} \subseteq DOMAIN mine
      /\ mine.kids = Other(kids) /\ mine.state = f[n][side].state
      /\ mine.props = f[n][side].props
  <2>1. {"kids", "state", "props"} \subseteq DOMAIN f[n][side]
    BY DEF AreFibers
  <2> QED BY <2>1
<1>3. /\ DOMAIN other = Node /\ other[n] = [f[n] EXCEPT ![side] = mine]
      /\ \A m \in Node : m # n => other[m] = f[m]
  BY DEF AreFibers
<1>4. /\ DOMAIN other[n] = Sides /\ other[n][side] = mine
      /\ other[n][Other(side)] = f[n][Other(side)]
  <2>1. DOMAIN f[n] = Sides
    BY DEF AreFibers
  <2> HIDE DEF mine, other
  <2> QED BY <1>3, <2>1, Others
<1>5. g = [m \in Node |-> IF m \in Range(Kids[n]) THEN WorkInProgress(f, m, kids)[m] ELSE other[m]]
  BY DEF ChildrenCloned
<1> HIDE DEF mine, other, g, kids
<1>6. \A m \in Range(Kids[n]) : m \in Node /\ m # n /\ g[m] = WorkInProgress(f, m, kids)[m]
  BY <1>5, TreeKids, TreeParent, NotOwnChild
<1>7. \A m \in Node : m \notin Range(Kids[n]) => g[m] = other[m]
  BY <1>5
<1>8. ASSUME NEW m \in Range(Kids[n])
      PROVE  /\ DOMAIN g[m] = Sides
             /\ \A s \in Sides : {"kids", "state", "props"} \subseteq DOMAIN g[m][s]
                                  /\ g[m][s].kids \in Sides
             /\ Alike(g[m][kids], f[m][kids]) /\ Alike(g[m][Other(kids)], f[m][kids])
  <2>1. m \in Node /\ g[m] = WorkInProgress(f, m, kids)[m]
    BY <1>6
  <2> DEFINE h == WorkInProgress(f, m, kids)
  <2>2. /\ AreFibers(h)
        /\ Alike(h[m][Other(kids)], f[m][kids]) /\ Alike(h[m][kids], f[m][kids])
    BY <1>1, <2>1, CopyOfFiber
  <2> HIDE DEF h
  <2>3. g[m] = h[m]
    BY <2>1 DEF h
  <2> QED BY <2>1, <2>2, <2>3 DEF AreFibers
<1>9. ASSUME NEW m \in Node, m \notin Range(Kids[n]), m # n
      PROVE  g[m] = f[m]
  BY <1>3, <1>7, <1>9
<1>10. g[n] = other[n]
  BY <1>7, NotOwnChild
<1>11. AreFibers(g)
  <2>1. DOMAIN g = Node
    BY <1>5
  <2>2. ASSUME NEW m \in Node
        PROVE  /\ DOMAIN g[m] = Sides
               /\ \A s \in Sides :
                    {"kids", "state", "props"} \subseteq DOMAIN g[m][s] /\ g[m][s].kids \in Sides
    <3>1. CASE m \in Range(Kids[n])
      BY <3>1, <1>8
    <3>2. CASE m = n
      <4>1. g[n][side] = mine /\ g[n][Other(side)] = f[n][Other(side)]
        BY <1>4, <1>10
      <4>2. \A s \in Sides : g[n][s] = mine \/ g[n][s] = f[n][s]
        BY <4>1, Others
      <4> QED BY <3>2, <4>2, <1>1, <1>2, <1>4, <1>10 DEF AreFibers
    <3>3. CASE m \notin Range(Kids[n]) /\ m # n
      BY <3>3, <1>9 DEF AreFibers
    <3> QED BY <3>1, <3>2, <3>3
  <2> QED BY <2>1, <2>2 DEF AreFibers
<1>12. Spawned(f, g, n, side)
  <2>1. /\ g[n][side].kids = Other(kids)
        /\ g[n][side].state = f[n][side].state /\ g[n][side].props = f[n][side].props
        /\ Alike(g[n][Other(side)], f[n][Other(side)])
    BY <1>2, <1>4, <1>10 DEF Alike
  <2>2. \A k \in Range(Kids[n]) :
          /\ Alike(g[k][kids], f[k][kids])
          /\ g[k][Other(kids)].kids = f[k][kids].kids
          /\ g[k][Other(kids)].state = f[k][kids].state
    BY <1>8 DEF Alike
  <2>3. \A m \in Node, s \in Sides :
          m # n /\ m \notin Range(Kids[n]) => Alike(g[m][s], f[m][s])
    BY <1>9 DEF Alike
  <2> QED BY <1>11, <2>1, <2>2, <2>3 DEF Spawned, kids
<1>13. \A k \in Range(Kids[n]) : g[k][Other(kids)].props = f[k][kids].props
  BY <1>8 DEF Alike
<1> QED BY <1>12, <1>13 DEF g, kids

\* reconcileChildren
LEMMA ReconciledChildren ==
  ASSUME NEW f, AreFibers(f), NEW n \in Node, NEW side \in Sides
  PROVE  LET g    == ChildrenReconciled(f, n, side)
             kids == f[n][side].kids
         IN  /\ Spawned(f, g, n, side)
             /\ \A k \in Range(Kids[n]) : g[k][Other(kids)].props = f[n][side].state
<1> DEFINE kids == f[n][side].kids
           state == f[n][side].state
           c == ChildrenCloned(f, n, side)
           g == ChildrenReconciled(f, n, side)
           new(k) == [c[k] EXCEPT ![Other(kids)].fresh = TRUE, ![Other(kids)].props = state]
<1>1. kids \in Sides /\ Other(kids) \in Sides /\ Other(kids) # kids
  BY Others DEF AreFibers
<1>2. Spawned(f, c, n, side)
  BY CloneOfChildren
<1>3. g = [m \in Node |-> IF m \in Range(Kids[n]) THEN new(m) ELSE c[m]]
  BY DEF ChildrenReconciled
<1> HIDE DEF kids, state, c, g
<1>4. AreFibers(c)
  BY <1>2 DEF Spawned
<1>5. ASSUME NEW k \in Range(Kids[n])
      PROVE  /\ k \in Node /\ k # n
             /\ DOMAIN g[k] = Sides
             /\ g[k][kids] = c[k][kids]
             /\ {"kids", "state", "props"} \subseteq DOMAIN g[k][Other(kids)]
             /\ g[k][Other(kids)].kids = c[k][Other(kids)].kids
             /\ g[k][Other(kids)].state = c[k][Other(kids)].state
             /\ g[k][Other(kids)].props = state
  <2>1. k \in Node /\ k # n
    BY TreeKids, TreeParent, NotOwnChild
  <2> DEFINE x == c[k]
             y == x[Other(kids)]
             z == [y EXCEPT !.fresh = TRUE, !.props = state]
  <2>2. DOMAIN x = Sides /\ {"kids", "state", "props"} \subseteq DOMAIN y
    BY <1>1, <1>4, <2>1 DEF AreFibers
  <2>3. /\ {"kids", "state", "props"} \subseteq DOMAIN z
        /\ z.kids = y.kids /\ z.state = y.state /\ z.props = state
    <3> HIDE DEF x, y
    <3> QED BY <2>2
  <2>4. new(k) = [x EXCEPT ![Other(kids)] = z]
    <3> HIDE DEF x
    <3>1. new(k) = [x EXCEPT ![Other(kids)].fresh = TRUE, ![Other(kids)].props = state]
      BY DEF x
    <3> QED BY <3>1, <2>2, <1>1
  <2> HIDE DEF x, z, new
  <2>5. g[k] = [x EXCEPT ![Other(kids)] = z]
    BY <2>1, <2>4, <1>3
  <2>6. DOMAIN g[k] = Sides /\ g[k][kids] = x[kids] /\ g[k][Other(kids)] = z
    BY <2>2, <2>5, <1>1
  <2> QED BY <2>1, <2>3, <2>6 DEF x
<1> HIDE DEF new
<1>6. \A m \in Node : m \notin Range(Kids[n]) => g[m] = c[m]
  BY <1>3
<1>7. g[n] = c[n]
  BY <1>6, NotOwnChild
<1>8. AreFibers(g)
  <2>1. DOMAIN g = Node
    BY <1>3
  <2>2. ASSUME NEW m \in Node
        PROVE  /\ DOMAIN g[m] = Sides
               /\ \A s \in Sides :
                    {"kids", "state", "props"} \subseteq DOMAIN g[m][s] /\ g[m][s].kids \in Sides
    <3>1. CASE m \in Range(Kids[n])
      <4> SUFFICES ASSUME NEW s \in Sides
                   PROVE  {"kids", "state", "props"} \subseteq DOMAIN g[m][s]
                          /\ g[m][s].kids \in Sides
        BY <3>1, <1>5
      <4>1. CASE s = kids
        <5>1. g[m][s] = c[m][s]
          BY <4>1, <3>1, <1>5
        <5> QED BY <5>1, <1>4 DEF AreFibers
      <4>2. CASE s = Other(kids)
        BY <4>2, <3>1, <1>4, <1>5, <1>1 DEF AreFibers
      <4> QED BY <4>1, <4>2, <1>1, Others
    <3>2. CASE m \notin Range(Kids[n])
      BY <3>2, <1>4, <1>6, ZenonT(60) DEF AreFibers
    <3> QED BY <3>1, <3>2
  <2> QED BY <2>1, <2>2 DEF AreFibers
<1>9. /\ c[n][side].kids = Other(kids)
      /\ c[n][side].state = f[n][side].state /\ c[n][side].props = f[n][side].props
      /\ Alike(c[n][Other(side)], f[n][Other(side)])
      /\ \A k \in Range(Kids[n]) :
           /\ Alike(c[k][kids], f[k][kids])
           /\ c[k][Other(kids)].kids = f[k][kids].kids
           /\ c[k][Other(kids)].state = f[k][kids].state
      /\ \A m \in Node, s \in Sides :
           m # n /\ m \notin Range(Kids[n]) => Alike(c[m][s], f[m][s])
  BY <1>2 DEF Spawned, kids
<1>10. \A k \in Range(Kids[n]) :
           /\ Alike(g[k][kids], f[k][kids])
           /\ g[k][Other(kids)].kids = f[k][kids].kids
           /\ g[k][Other(kids)].state = f[k][kids].state
           /\ g[k][Other(kids)].props = state
  BY <1>5, <1>9
<1>11. \A m \in Node, s \in Sides :
           m # n /\ m \notin Range(Kids[n]) => Alike(g[m][s], f[m][s])
  BY <1>6, <1>9
<1>12. Spawned(f, g, n, side)
  BY <1>7, <1>8, <1>9, <1>10, <1>11 DEF Spawned, kids
<1> QED BY <1>10, <1>12 DEF g, kids, state

\* Writing one fiber.
LEMMA OneFiberSet ==
  ASSUME NEW f, AreFibers(f), NEW n \in Node, NEW side \in Sides, NEW x,
         {"kids", "state", "props"} \subseteq DOMAIN x, x.kids \in Sides
  PROVE  LET g == [f EXCEPT ![n][side] = x]
         IN  /\ AreFibers(g) /\ g[n][side] = x
             /\ \A m \in Node, s \in Sides : (m # n \/ s # side) => g[m][s] = f[m][s]
<1> DEFINE g == [f EXCEPT ![n][side] = x]
<1>1. DOMAIN f = Node /\ \A m \in Node : DOMAIN f[m] = Sides
  BY DEF AreFibers
<1>2. /\ DOMAIN g = Node /\ g[n] = [f[n] EXCEPT ![side] = x]
      /\ \A m \in Node : m # n => g[m] = f[m]
  BY <1>1
<1> HIDE DEF g
<1>3. /\ DOMAIN g[n] = Sides /\ g[n][side] = x
      /\ \A s \in Sides : s # side => g[n][s] = f[n][s]
  BY <1>1, <1>2
<1>4. \A m \in Node, s \in Sides : (m # n \/ s # side) => g[m][s] = f[m][s]
  BY <1>2, <1>3
<1>5. \A m \in Node, s \in Sides :
        {"kids", "state", "props"} \subseteq DOMAIN g[m][s] /\ g[m][s].kids \in Sides
  <2> SUFFICES ASSUME NEW m \in Node, NEW s \in Sides
               PROVE  {"kids", "state", "props"} \subseteq DOMAIN g[m][s] /\ g[m][s].kids \in Sides
    OBVIOUS
  <2>1. CASE m = n /\ s = side
    BY <2>1, <1>3
  <2>2. CASE m # n \/ s # side
    BY <2>2, <1>4 DEF AreFibers
  <2> QED BY <2>1, <2>2
<1>6. \A m \in Node : DOMAIN g[m] = Sides
  BY <1>1, <1>2, <1>3
<1>7. AreFibers(g)
  BY <1>2, <1>5, <1>6 DEF AreFibers
<1> QED BY <1>3, <1>4, <1>7 DEF g

\* The children are the other ones, with the new state as their props, or copied without
\* a new state.
SpawnedBy(f, h, g, n, side) ==
  LET kids == f[n][side].kids
  IN  /\ Restated(f, h, n, side) /\ Spawned(h, g, n, side)
      /\ \/ \A k \in Range(Kids[n]) : g[k][Other(kids)].props = h[n][side].state
         \/ /\ h[n][side].state = f[n][Other(side)].state
            /\ \A k \in Range(Kids[n]) : g[k][Other(kids)].props = h[k][kids].props

\* beginWork: that, or the children stay, and so does the state.
Begun(f, g, n, side) ==
  \/ Restated(f, g, n, side) /\ g[n][side].state = f[n][Other(side)].state
  \/ \E h : SpawnedBy(f, h, g, n, side)

\* A bailout clones the children or leaves them, in the state of the other fiber.
LEMMA BailedOutBegins ==
  ASSUME NEW f, NEW h, NEW n \in Node, NEW side \in Sides, NEW render,
         Restated(f, h, n, side), h[n][side].state = f[n][Other(side)].state
  PROVE  Begun(f, BailedOut(h, n, side, render), n, side)
<1>1. AreFibers(h) /\ h[n][side].kids = f[n][side].kids
  BY DEF Restated
<1>2. CASE HasChildWork(h, n, side, render)
  <2> DEFINE g == ChildrenCloned(h, n, side)
  <2>1. /\ Spawned(h, g, n, side)
        /\ \A k \in Range(Kids[n]) :
             g[k][Other(h[n][side].kids)].props = h[k][h[n][side].kids].props
    BY <1>1, CloneOfChildren
  <2> HIDE DEF g
  <2>2. SpawnedBy(f, h, g, n, side)
    BY <1>1, <2>1 DEF SpawnedBy
  <2>3. BailedOut(h, n, side, render) = g
    BY <1>2 DEF BailedOut, g
  <2> QED BY <2>2, <2>3 DEF Begun
<1>3. CASE ~HasChildWork(h, n, side, render)
  BY <1>3 DEF BailedOut, Begun
<1> QED BY <1>2, <1>3

\* A node that has rendered gives its state to the children.
LEMMA ReconciledBegins ==
  ASSUME NEW f, NEW h, NEW n \in Node, NEW side \in Sides, Restated(f, h, n, side)
  PROVE  Begun(f, ChildrenReconciled(h, n, side), n, side)
<1>1. AreFibers(h) /\ h[n][side].kids = f[n][side].kids
  BY DEF Restated
<1> DEFINE g == ChildrenReconciled(h, n, side)
<1>2. /\ Spawned(h, g, n, side)
      /\ \A k \in Range(Kids[n]) : g[k][Other(h[n][side].kids)].props = h[n][side].state
  BY <1>1, ReconciledChildren
<1> HIDE DEF g
<1>3. SpawnedBy(f, h, g, n, side)
  BY <1>1, <1>2 DEF SpawnedBy
<1> QED BY <1>3 DEF Begun, g

\* The three ways of beginning work, one by one ...
LEMMA BailsOutBegins ==
  ASSUME AreFibers(fiber), NEW n \in Node, NEW side \in Sides, NEW render,
         fiber[n][side].state = fiber[n][Other(side)].state,
         BeginBailsOut(n, side, render)
  PROVE  Begun(fiber, fiber', n, side)
<1>1. Restated(fiber, fiber, n, side)
  BY DEF Restated
<1>2. fiber' = BailedOut(fiber, n, side, render)
  BY DEF BeginBailsOut
<1> QED BY <1>1, <1>2, BailedOutBegins

LEMMA QueueBegins ==
  ASSUME AreFibers(fiber), NEW n \in Node, NEW side \in Sides, NEW render,
         fiber[n][side].state = fiber[n][Other(side)].state,
         BeginQueue(n, side, render)
  PROVE  Begun(fiber, fiber', n, side)
<1> DEFINE mine    == fiber[n][side]
           id      == IF mine.queue # fiber[n][Other(side)].queue THEN mine.queue
                      ELSE Other(mine.queue)
           result  == Processed(CloneOf(queues[n][mine.queue]), render)
           updated == IF mine.queue = 0 THEN [mine EXCEPT !.time = NoWork]
                      ELSE [mine EXCEPT !.time = result.remaining, !.state = result.state,
                                        !.queue = id, !.effect = result.queue.effects # <<>>]
           fibers  == [fiber EXCEPT ![n][side] = updated]
           same    == /\ ~mine.fresh
                      /\ mine.queue # 0 => ~result.changed /\ result.state = mine.state
<1>1. fiber' = IF same THEN BailedOut(fibers, n, side, render)
               ELSE ChildrenReconciled(fibers, n, side)
  BY DEF BeginQueue
<1>2. {"kids", "state", "props"} \subseteq DOMAIN mine /\ mine.kids \in Sides
  BY DEF AreFibers
<1> HIDE DEF id, result, mine
<1>3. /\ {"kids", "state", "props"} \subseteq DOMAIN updated
      /\ updated.kids = mine.kids /\ updated.props = mine.props
      /\ same => updated.state = mine.state
  BY <1>2
<1> HIDE DEF updated, same
<1>4. /\ AreFibers(fibers) /\ fibers[n][side] = updated
      /\ \A m \in Node, s \in Sides : (m # n \/ s # side) => fibers[m][s] = fiber[m][s]
  BY <1>2, <1>3, OneFiberSet
<1> HIDE DEF fibers
<1>5. Restated(fiber, fibers, n, side)
  BY <1>3, <1>4 DEF Restated, mine
<1>6. CASE same
  BY <1>1, <1>3, <1>4, <1>5, <1>6, BailedOutBegins DEF mine
<1>7. CASE ~same
  BY <1>1, <1>5, <1>7, ReconciledBegins
<1> QED BY <1>6, <1>7

LEMMA FunctionBegins ==
  ASSUME AreFibers(fiber), NEW n \in Node, NEW side \in Sides, NEW render,
         BeginFunction(n, side, render)
  PROVE  Begun(fiber, fiber', n, side)
<1> DEFINE mine    == fiber[n][side]
           old     == fiber[n][Other(side)]
           result  == HookProcessed(hooks[n], old.base, old.baseUpdate, render)
           updated == IF result.empty THEN [mine EXCEPT !.time = NoWork]
                      ELSE [mine EXCEPT !.time = result.remaining, !.state = result.state,
                                        !.base = result.base, !.baseUpdate = result.baseUpdate]
           same    == ~mine.fresh /\ updated.state = old.state
           new     == [updated EXCEPT !.effect = ~same]
           time    == IF same /\ old.time <= render THEN NoWork ELSE old.time
           left    == [old EXCEPT !.time = time]
           part    == [fiber EXCEPT ![n][side] = new]
           fibers  == [part EXCEPT ![n][Other(side)] = left]
           given   == [fiber EXCEPT
                         ![n][side] = [updated EXCEPT !.effect = ~same],
                         ![n][Other(side)].time = IF same /\ @ <= render THEN NoWork ELSE @]
<1>1. fiber' = IF same THEN BailedOut(given, n, side, render)
               ELSE ChildrenReconciled(given, n, side)
  BY DEF BeginFunction
<1>2. /\ {"kids", "state", "props"} \subseteq DOMAIN mine /\ mine.kids \in Sides
      /\ {"kids", "state", "props"} \subseteq DOMAIN old /\ old.kids \in Sides
      /\ Other(side) \in Sides /\ Other(side) # side
  BY Others DEF AreFibers
<1>3. given = fibers
  <2>1. DOMAIN fiber = Node /\ DOMAIN fiber[n] = Sides
    BY DEF AreFibers
  <2> HIDE DEF same, updated
  <2>2. part[n][Other(side)] = old
    BY <2>1, <1>2
  <2>3. given = [part EXCEPT ![n][Other(side)].time = IF same /\ @ <= render THEN NoWork ELSE @]
    BY <2>1, <1>2
  <2> HIDE DEF part
  <2>4. [part EXCEPT ![n][Other(side)].time = IF same /\ @ <= render THEN NoWork ELSE @]
          = [part EXCEPT ![n][Other(side)] =
               [part[n][Other(side)] EXCEPT !.time = IF same /\ @ <= render THEN NoWork ELSE @]]
    OBVIOUS
  <2> QED BY <2>2, <2>3, <2>4
<1> HIDE DEF result, mine, old, given
<1>4. /\ {"kids", "state", "props"} \subseteq DOMAIN updated
      /\ updated.kids = mine.kids /\ updated.props = mine.props
  BY <1>2
<1> HIDE DEF updated, time
<1>5. /\ {"kids", "state", "props"} \subseteq DOMAIN new
      /\ new.kids = mine.kids /\ new.props = mine.props /\ new.state = updated.state
      /\ {"kids", "state", "props"} \subseteq DOMAIN left
      /\ left.kids = old.kids /\ left.props = old.props /\ left.state = old.state
  <2> HIDE DEF same
  <2> QED BY <1>2, <1>4
<1> HIDE DEF new, left
<1>6. /\ AreFibers(part) /\ part[n][side] = new
      /\ \A m \in Node, s \in Sides : (m # n \/ s # side) => part[m][s] = fiber[m][s]
  BY <1>2, <1>5, OneFiberSet
<1> HIDE DEF part
<1>7. /\ AreFibers(fibers) /\ fibers[n][Other(side)] = left
      /\ \A m \in Node, s \in Sides : (m # n \/ s # Other(side)) => fibers[m][s] = part[m][s]
  BY <1>2, <1>5, <1>6, OneFiberSet
<1> HIDE DEF fibers
<1>8. fibers[n][side] = new /\ fibers[n][Other(side)] = left
      /\ \A m \in Node, s \in Sides : m # n => fibers[m][s] = fiber[m][s]
  BY <1>2, <1>6, <1>7
<1>9. Restated(fiber, fibers, n, side)
  <2> SUFFICES ASSUME NEW m \in Node, NEW s \in Sides
               PROVE  /\ fibers[m][s].kids = fiber[m][s].kids
                      /\ fibers[m][s].props = fiber[m][s].props
                      /\ (m # n \/ s # side) => fibers[m][s].state = fiber[m][s].state
    BY <1>7 DEF Restated
  <2>1. CASE m # n
    BY <2>1, <1>8
  <2>2. CASE m = n /\ s = side
    BY <2>2, <1>5, <1>8 DEF mine
  <2>3. CASE m = n /\ s = Other(side)
    BY <2>3, <1>5, <1>8 DEF old
  <2> QED BY <2>1, <2>2, <2>3, Others
<1>10. CASE same
  <2>1. fibers[n][side].state = fiber[n][Other(side)].state
    BY <1>5, <1>8, <1>10 DEF old
  <2> QED BY <1>1, <1>3, <1>9, <1>10, <2>1, BailedOutBegins
<1>11. CASE ~same
  BY <1>1, <1>3, <1>9, <1>11, ReconciledBegins
<1> QED BY <1>10, <1>11, ZenonT(60)

\* ... and all of them.
LEMMA WorkBegins ==
  ASSUME AreFibers(fiber), NEW n \in Node, NEW side \in Sides, NEW render,
         fiber[n][side].state = fiber[n][Other(side)].state,
         BeginWork(n, side, render)
  PROVE  Begun(fiber, fiber', n, side)
BY BailsOutBegins, QueueBegins, FunctionBegins DEF BeginWork
-----------------------------------------------------------------------------
(***************************************************************************)
(* The order in which a render goes through the tree.                      *)
(***************************************************************************)
\* The siblings that come after a node.
Later(n) ==
  LET siblings == Kids[Parent[n]]
  IN  { siblings[j] : j \in { i \in DOMAIN siblings : \E h \in DOMAIN siblings :
                                                        h < i /\ siblings[h] = n } }

\* The nodes that a render, being at this one, will get to from an ancestor.
After ==
  LET after[n \in Node] == IF n = Root THEN {} ELSE Later(n) \cup after[Parent[n]]
  IN  after

\* Later siblings have the same parent.
LEMMA LaterSiblings ==
  ASSUME NEW n \in Children
  PROVE  Later(n) \subseteq Range(Kids[Parent[n]]) /\ Later(n) \subseteq Children
<1>1. Later(n) \subseteq Range(Kids[Parent[n]])
  BY DEF Later, Range
<1> QED BY <1>1, TreeKids, TreeParent

\* After, which is defined by recursion, is what it says.
LEMMA AfterNodes ==
  /\ After[Root] = {}
  /\ \A n \in Children : After[n] = Later(n) \cup After[Parent[n]]
  /\ \A n \in Node : After[n] \subseteq Node
<1> DEFINE V == SUBSET Node
           step == [n \in Node |-> [v \in V |-> Later(n) \cup v]]
           out  == [n \in Node |-> {}]
           Eq(after) == after = [n \in Node |-> IF n = Root THEN {}
                                                ELSE Later(n) \cup after[Parent[n]]]
<1>1. \A n \in Node : IF n \in Children THEN \A v \in V : step[n][v] \in V ELSE out[n] \in V
  BY LaterSiblings DEF Children
<1>2. PICK after \in [Node -> V] : Computes(after, Node, Children, Parent, step, out)
  <2>1. Children \subseteq Children
    OBVIOUS
  <2> HIDE DEF step, out, Eq, V
  <2> QED BY <1>1, <2>1, AlongParents
<1>3. \A n \in Children : step[n][after[Parent[n]]] = Later(n) \cup after[Parent[n]]
  BY TreeParent
<1>4. Eq(after)
  BY <1>2, <1>3 DEF Children, Computes
<1> HIDE DEF step, out, V
<1>5. After = CHOOSE s : Eq(s)
  BY DEF After
<1>6. Eq(After)
  <2> HIDE DEF Eq
  <2> QED BY <1>4, <1>5
<1>7. After = [n \in Node |-> IF n = Root THEN {} ELSE Later(n) \cup After[Parent[n]]]
  BY <1>6
<1>8. After[Root] = {}
  BY <1>7, TreeAssumption
<1>9. \A n \in Children : After[n] = Later(n) \cup After[Parent[n]]
  BY <1>7, TreeParent DEF Children
<1> DEFINE G == { n \in Node : After[n] \subseteq Node }
<1>10. Node \subseteq G
  <2>1. Root \in G
    BY <1>8, TreeAssumption
  <2>2. \A n \in Children : Parent[n] \in G => n \in G
    BY <1>9, TreeParent, LaterSiblings DEF Children
  <2> HIDE DEF G
  <2> QED BY <2>1, <2>2, TreeInduction
<1> QED BY <1>8, <1>9, <1>10

\* A render does not come back.
LEMMA NotAfterItself == \A n \in Node : n \notin After[n]
<1>1. PICK depth \in [Node -> Nat] : \A n \in Children : depth[n] = depth[Parent[n]] + 1
  BY TreeDepth
<1> DEFINE G == { n \in Node : \A m \in After[n] : depth[m] <= depth[n] }
<1>2. Node \subseteq G
  <2>1. Root \in G
    BY AfterNodes, TreeAssumption
  <2>2. ASSUME NEW n \in Children, Parent[n] \in G PROVE n \in G
    <3>1. n \in Node /\ Parent[n] \in Node
      BY TreeParent
    <3>2. ASSUME NEW m \in After[n] PROVE depth[m] <= depth[n]
      <4>1. CASE m \in Later(n)
        <5>1. m \in Children /\ Parent[m] = Parent[n]
          BY <4>1, <3>1, LaterSiblings, TreeKids
        <5>2. depth[m] = depth[n] /\ depth[m] \in Nat
          BY <1>1, <3>1, <5>1
        <5> QED BY <5>2
      <4>2. CASE m \in After[Parent[n]]
        <5>1. m \in Node
          BY <3>1, <4>2, AfterNodes
        <5>2. depth[m] \in Nat /\ depth[Parent[n]] \in Nat /\ depth[n] = depth[Parent[n]] + 1
              /\ depth[m] <= depth[Parent[n]]
          BY <1>1, <2>2, <3>1, <4>2, <5>1
        <5> QED BY <5>2
      <4> QED BY <4>1, <4>2, AfterNodes
    <3> QED BY <3>1, <3>2
  <2> HIDE DEF G
  <2> QED BY <2>1, <2>2, TreeInduction
<1> SUFFICES ASSUME NEW n \in Node, n \in After[n] PROVE FALSE
  OBVIOUS
<1>3. n \in Children
  BY AfterNodes DEF Children
<1>4. CASE n \in Later(n)
  <2> DEFINE siblings == Kids[Parent[n]]
  <2>1. siblings \in Seq(Children) /\ IsInjective(siblings)
    BY <1>3, TreeKids, TreeParent
  <2>2. PICK i \in DOMAIN siblings, h \in DOMAIN siblings :
          h < i /\ siblings[h] = n /\ siblings[i] = n
    BY <1>4 DEF Later
  <2> HIDE DEF siblings
  <2>3. h = i
    BY <2>1, <2>2 DEF IsInjective
  <2> QED BY <2>1, <2>2, <2>3
<1>5. CASE n \in After[Parent[n]]
  <2>1. /\ Parent[n] \in Node /\ depth[n] \in Nat /\ depth[Parent[n]] \in Nat
        /\ depth[n] = depth[Parent[n]] + 1
    BY <1>1, <1>3, TreeParent
  <2>2. depth[n] <= depth[Parent[n]]
    BY <1>2, <1>5, <2>1
  <2> QED BY <2>1, <2>2
<1> QED BY <1>3, <1>4, <1>5, AfterNodes

\* Going down, to the first child.
LEMMA FirstChild ==
  ASSUME NEW n \in Node, Kids[n] # <<>>
  PROVE  LET k == Head(Kids[n])
         IN  k \in Range(Kids[n]) /\ After[k] \subseteq Range(Kids[n]) \cup After[n]
<1> DEFINE k == Head(Kids[n])
<1>1. Kids[n] \in Seq(Children)
  BY TreeKids
<1>2. 1 \in DOMAIN Kids[n] /\ k = Kids[n][1]
  BY <1>1
<1>3. k \in Range(Kids[n])
  BY <1>2 DEF Range
<1> HIDE DEF k
<1>4. k \in Children /\ Parent[k] = n
  BY <1>3, TreeKids
<1>5. After[k] = Later(k) \cup After[n] /\ Later(k) \subseteq Range(Kids[n])
  BY <1>4, AfterNodes, LaterSiblings
<1> QED BY <1>3, <1>5 DEF k

\* Completing, which is defined by recursion.
LEMMA CompletingNodes ==
  \A m \in Node :
    /\ Completing[m] = IF m # Root /\ IsLastChild(m) THEN <<m>> \o Completing[Parent[m]] ELSE <<m>>
    /\ Completing[m] \in Seq(Node) /\ Completing[m] # <<>>
<1> DEFINE again == { m \in Children : IsLastChild(m) }
           V == { s \in Seq(Node) : s # <<>> }
           step == [m \in Node |-> [v \in V |-> <<m>> \o v]]
           out  == [m \in Node |-> <<m>>]
           Eq(from) == from = [m \in Node |-> IF m # Root /\ IsLastChild(m)
                                                THEN <<m>> \o from[Parent[m]] ELSE <<m>>]
<1>1. \A m \in Node : IF m \in again THEN \A v \in V : step[m][v] \in V ELSE out[m] \in V
  <2>1. ASSUME NEW m \in Node, NEW v \in V PROVE <<m>> \o v \in V
    <3>1. <<m>> \o v \in Seq(Node) /\ Len(<<m>> \o v) = 1 + Len(v) /\ Len(v) \in Nat
      OBVIOUS
    <3>2. <<m>> \o v # <<>>
      BY <3>1
    <3> QED BY <3>1, <3>2
  <2>2. \A m \in Node : <<m>> \in V
    OBVIOUS
  <2> HIDE DEF V
  <2> QED BY <2>1, <2>2
<1>2. again \subseteq Children /\ \A m \in again : m \in Node /\ Parent[m] \in Node
  BY TreeParent
<1>3. PICK from \in [Node -> V] : Computes(from, Node, again, Parent, step, out)
  <2> HIDE DEF step, out, Eq, V, again
  <2> QED BY <1>1, <1>2, AlongParents
<1>4. \A m \in again : step[m][from[Parent[m]]] = <<m>> \o from[Parent[m]]
  BY <1>2
<1>5. \A m \in Node : m \in again <=> m # Root /\ IsLastChild(m)
  BY DEF Children
<1>6. Eq(from)
  <2> HIDE DEF again
  <2> QED BY <1>2, <1>3, <1>4, <1>5 DEF Computes
<1> HIDE DEF step, out, V
<1>7. Completing = CHOOSE s : Eq(s)
  BY DEF Completing
<1>8. Eq(Completing)
  <2> HIDE DEF Eq
  <2> QED BY <1>6, <1>7
<1>9. \A m \in Node : Completing[m] = IF m # Root /\ IsLastChild(m)
                                        THEN <<m>> \o Completing[Parent[m]] ELSE <<m>>
  BY <1>8
<1> DEFINE G == { m \in Node : Completing[m] \in Seq(Node) /\ Completing[m] # <<>> }
<1>10. ASSUME NEW m \in Node, ~(m # Root /\ IsLastChild(m)) PROVE m \in G
  <2>1. Completing[m] = <<m>>
    BY <1>9, <1>10
  <2>2. <<m>> \in Seq(Node) /\ <<m>> # <<>>
    OBVIOUS
  <2> QED BY <2>1, <2>2
<1>11. Node \subseteq G
  <2>1. Root \in G
    BY <1>10, TreeAssumption
  <2>2. ASSUME NEW m \in Children, Parent[m] \in G PROVE m \in G
    <3>1. CASE ~IsLastChild(m)
      BY <3>1, <1>10, TreeParent
    <3>2. CASE IsLastChild(m)
      <4> DEFINE s == Completing[Parent[m]]
                 t == Completing[m]
      <4>1. m \in Node /\ m # Root /\ t = <<m>> \o s
        BY <3>2, <1>9, TreeParent
      <4>2. s \in Seq(Node)
        BY <2>2
      <4> HIDE DEF s, t
      <4>3. t \in Seq(Node) /\ Len(t) = Len(s) + 1 /\ Len(s) \in Nat
        BY <4>1, <4>2
      <4>4. t # <<>>
        BY <4>3
      <4> QED BY <4>1, <4>3, <4>4 DEF t
    <3> QED BY <3>1, <3>2
  <2> HIDE DEF G
  <2> QED BY <2>1, <2>2, TreeInduction
<1> QED BY <1>9, <1>11

\* The last of those that completeUnitOfWork completes is the root or has a later sibling.
LEMMA LastCompleted ==
  ASSUME NEW n \in Node
  PROVE  LET last == Last(Completing[n])
         IN  /\ Completing[n] \in Seq(Node)
             /\ last \in Node /\ After[last] \subseteq After[n]
             /\ last = Root \/ ~IsLastChild(last)
<1>1. \A m \in Node : Completing[m] = IF m # Root /\ IsLastChild(m)
                                        THEN <<m>> \o Completing[Parent[m]] ELSE <<m>>
  BY CompletingNodes
<1> DEFINE G == { m \in Node : /\ Completing[m] \in Seq(Node) /\ Completing[m] # <<>>
                               /\ LET last == Last(Completing[m])
                                  IN  /\ last \in Node /\ After[last] \subseteq After[m]
                                      /\ last = Root \/ ~IsLastChild(last) }
<1>2. ASSUME NEW m \in Node, ~(m # Root /\ IsLastChild(m)) PROVE m \in G
  <2>1. Completing[m] = <<m>>
    BY <1>1, <1>2
  <2>2. Last(Completing[m]) = m /\ Completing[m] \in Seq(Node) /\ Completing[m] # <<>>
    BY <2>1 DEF Last
  <2> QED BY <1>2, <2>2
<1>3. Node \subseteq G
  <2>1. Root \in G
    BY <1>2, TreeAssumption
  <2>2. ASSUME NEW m \in Children, Parent[m] \in G PROVE m \in G
    <3>1. CASE ~IsLastChild(m)
      BY <3>1, <1>2, TreeParent
    <3>2. CASE IsLastChild(m)
      <4> DEFINE s == Completing[Parent[m]]
                 t == Completing[m]
      <4>1. m \in Node /\ m # Root /\ t = <<m>> \o s
        BY <3>2, <1>1, TreeParent
      <4>2. /\ s \in Seq(Node) /\ s # <<>> /\ Last(s) \in Node
            /\ After[Last(s)] \subseteq After[Parent[m]]
            /\ Last(s) = Root \/ ~IsLastChild(Last(s))
        BY <2>2
      <4>3. After[Parent[m]] \subseteq After[m]
        BY AfterNodes
      <4> HIDE DEF s, t
      <4>4. t \in Seq(Node) /\ Len(t) = Len(s) + 1 /\ Len(s) \in Nat /\ Len(s) >= 1
            /\ t[Len(t)] = s[Len(s)]
        BY <4>1, <4>2
      <4>5. t # <<>> /\ Last(t) = Last(s)
        BY <4>4 DEF Last
      <4> QED BY <4>1, <4>2, <4>3, <4>4, <4>5 DEF t
    <3> QED BY <3>1, <3>2
  <2> HIDE DEF G
  <2> QED BY <2>1, <2>2, TreeInduction
<1> QED BY <1>3

\* Going on: the next unit of work is after this one, and so is what comes after it.
LEMMA NextUnit ==
  ASSUME NEW n \in Node, FollowedBy(n) # None
  PROVE  /\ FollowedBy(n) \in After[n] /\ After[FollowedBy(n)] \subseteq After[n]
         /\ Last(Completing[n]) \in Children /\ FollowedBy(n) \in Children
         /\ Parent[FollowedBy(n)] = Parent[Last(Completing[n])]
<1> DEFINE last == Last(Completing[n])
           siblings == Kids[Parent[last]]
           i == CHOOSE i \in DOMAIN siblings : siblings[i] = last
           unit == siblings[1 + i]
<1>1. last \in Node /\ After[last] \subseteq After[n] /\ (last = Root \/ ~IsLastChild(last))
  BY LastCompleted
<1>2. last # Root /\ FollowedBy(n) = unit
  BY DEF FollowedBy
<1> HIDE DEF last
<1>3. last \in Children /\ Parent[last] \in Node
  BY <1>1, <1>2, TreeParent DEF Children
<1>4. /\ siblings \in Seq(Children) /\ IsInjective(siblings) /\ last \in Range(siblings)
      /\ last # Last(siblings)
  BY <1>1, <1>2, <1>3, TreeKids, TreeParent DEF IsLastChild
<1> HIDE DEF siblings
<1>5. i \in DOMAIN siblings /\ siblings[i] = last
  BY <1>4 DEF Range
<1> HIDE DEF i
<1>6. 1 + i \in DOMAIN siblings /\ i < 1 + i
  BY <1>4, <1>5 DEF Last
<1>7. unit \in Later(last)
  BY <1>5, <1>6 DEF Later, siblings
<1>8. unit \in Children /\ Parent[unit] = Parent[last]
  <2>1. unit \in Range(siblings)
    BY <1>6 DEF Range
  <2> HIDE DEF unit
  <2> QED BY <1>3, <2>1, TreeKids DEF siblings
<1>9. Later(unit) \subseteq Later(last)
  <2> SUFFICES ASSUME NEW m \in Later(unit) PROVE m \in Later(last)
    OBVIOUS
  <2>1. PICK j \in DOMAIN siblings, h \in DOMAIN siblings :
          h < j /\ siblings[h] = unit /\ siblings[j] = m
    BY <1>8 DEF Later, siblings
  <2>2. h = 1 + i
    BY <1>4, <1>6, <2>1 DEF IsInjective
  <2>3. i < j
    BY <1>4, <1>5, <2>1, <2>2
  <2> QED BY <1>5, <2>1, <2>3 DEF Later, siblings
<1> HIDE DEF unit
<1>10. After[unit] \subseteq After[last] /\ Later(last) \subseteq After[last]
  BY <1>3, <1>8, <1>9, AfterNodes
<1> QED BY <1>1, <1>2, <1>3, <1>7, <1>8, <1>10 DEF last
-----------------------------------------------------------------------------
(***************************************************************************)
(* The two trees: the one on the screen, and the one that a render makes   *)
(* of it, which shares with it what the render has not got to.             *)
(***************************************************************************)
\* In a tree the props of each child are the state of its parent.
Consistent(f, top) ==
  LET side == SideIn(f, top)
  IN  \A n \in Children : f[n][side[n]].props = f[Parent[n]][side[Parent[n]]].state

\* Where the other tree has a fiber of its own it shows the same state above the same
\* children, or has children of its own with its state as their props.
OneTree(f, top) ==
  LET side  == SideIn(f, top)
      other == SideIn(f, Other(top))
  IN  \A n \in Node : other[n] # side[n] =>
        \/ /\ f[n][other[n]].kids = f[n][side[n]].kids
           /\ f[n][other[n]].state = f[n][side[n]].state
        \/ /\ f[n][other[n]].kids # f[n][side[n]].kids
           /\ \A k \in Range(Kids[n]) : f[k][f[n][other[n]].kids].props = f[n][other[n]].state

\* A node that the render still has to get to.
Untouched(f, top, n) ==
  LET side  == SideIn(f, top)
      other == SideIn(f, Other(top))
  IN  other[n] # side[n] /\ f[n][other[n]].kids = f[n][side[n]].kids

\* Both trees are wired.
LEMMA BothSides ==
  ASSUME NEW f, AreFibers(f), NEW top \in Sides
  PROVE  /\ Wired(f, top, SideIn(f, top)) /\ Wired(f, Other(top), SideIn(f, Other(top)))
         /\ Other(top) \in Sides /\ Other(top) # top
BY Others, SidesAreWired

\* What is said of the two trees depends on nothing but what their fibers show.
LEMMA SimilarTrees ==
  ASSUME NEW f, AreFibers(f), NEW g, Similar(f, g), NEW top \in Sides
  PROVE  /\ Consistent(f, top) => Consistent(g, top)
         /\ OneTree(f, top) => OneTree(g, top)
         /\ \A n \in Node : Untouched(f, top, n) => Untouched(g, top, n)
<1> DEFINE side  == SideIn(f, top)
           other == SideIn(f, Other(top))
<1>1. /\ side \in [Node -> Sides] /\ other \in [Node -> Sides] /\ Other(top) \in Sides
  BY BothSides DEF Wired
<1>2. AreFibers(g) /\ \A n \in Node, s \in Sides :
        /\ g[n][s].kids = f[n][s].kids
        /\ g[n][s].state = f[n][s].state /\ g[n][s].props = f[n][s].props
  BY DEF Similar, Alike
<1>3. SideIn(g, top) = side /\ SideIn(g, Other(top)) = other
  <2>1. \A n \in Node : g[n][side[n]].kids = f[n][side[n]].kids
    BY <1>1, <1>2
  <2>2. \A n \in Node : g[n][other[n]].kids = f[n][other[n]].kids
    BY <1>1, <1>2
  <2> QED BY <1>1, <1>2, <2>1, <2>2, SameSides
<1>4. /\ Consistent(f, top) <=> \A n \in Children :
                                 f[n][side[n]].props = f[Parent[n]][side[Parent[n]]].state
      /\ Consistent(g, top) <=> \A n \in Children :
                                 g[n][side[n]].props = g[Parent[n]][side[Parent[n]]].state
  BY <1>3 DEF Consistent
<1>5. /\ OneTree(f, top) <=> \A n \in Node : other[n] # side[n] =>
           \/ /\ f[n][other[n]].kids = f[n][side[n]].kids
              /\ f[n][other[n]].state = f[n][side[n]].state
           \/ /\ f[n][other[n]].kids # f[n][side[n]].kids
              /\ \A k \in Range(Kids[n]) : f[k][f[n][other[n]].kids].props = f[n][other[n]].state
      /\ OneTree(g, top) <=> \A n \in Node : other[n] # side[n] =>
           \/ /\ g[n][other[n]].kids = g[n][side[n]].kids
              /\ g[n][other[n]].state = g[n][side[n]].state
           \/ /\ g[n][other[n]].kids # g[n][side[n]].kids
              /\ \A k \in Range(Kids[n]) : g[k][g[n][other[n]].kids].props = g[n][other[n]].state
  BY <1>3 DEF OneTree
<1>6. \A n \in Node :
        /\ Untouched(f, top, n) <=> other[n] # side[n] /\ f[n][other[n]].kids = f[n][side[n]].kids
        /\ Untouched(g, top, n) <=> other[n] # side[n] /\ g[n][other[n]].kids = g[n][side[n]].kids
  BY <1>3 DEF Untouched
<1> HIDE DEF side, other
<1>7. \A n \in Children : n \in Node /\ Parent[n] \in Node
  BY TreeParent
<1>8. \A n \in Node : \A k \in Range(Kids[n]) : k \in Node
  <2>1. \A n \in Node : \A k \in Range(Kids[n]) : k \in Children
    BY TreeKids
  <2> QED BY <2>1, <1>7
<1>9. \A n \in Node, s \in Sides : f[n][s].kids \in Sides
  BY DEF AreFibers
<1>10. Consistent(f, top) => Consistent(g, top)
  BY <1>1, <1>2, <1>4, <1>7
<1>11. \A n \in Node : Untouched(f, top, n) => Untouched(g, top, n)
  <2>1. \A n \in Node : /\ side[n] \in Sides /\ other[n] \in Sides
                        /\ g[n][other[n]].kids = f[n][other[n]].kids
                        /\ g[n][side[n]].kids = f[n][side[n]].kids
    BY <1>1, <1>2
  <2> QED BY <1>6, <2>1
<1>12. OneTree(f, top) => OneTree(g, top)
  <2> SUFFICES ASSUME OneTree(f, top), NEW n \in Node, other[n] # side[n]
               PROVE  \/ /\ g[n][other[n]].kids = g[n][side[n]].kids
                         /\ g[n][other[n]].state = g[n][side[n]].state
                      \/ /\ g[n][other[n]].kids # g[n][side[n]].kids
                         /\ \A k \in Range(Kids[n]) :
                                 g[k][g[n][other[n]].kids].props = g[n][other[n]].state
    BY <1>5
  <2>1. /\ g[n][other[n]].kids = f[n][other[n]].kids /\ g[n][side[n]].kids = f[n][side[n]].kids
        /\ g[n][other[n]].state = f[n][other[n]].state /\ g[n][side[n]].state = f[n][side[n]].state
        /\ f[n][other[n]].kids \in Sides
    BY <1>1, <1>2, <1>9
  <2>2. \A k \in Range(Kids[n]) : g[k][f[n][other[n]].kids].props = f[k][f[n][other[n]].kids].props
    BY <1>2, <1>8, <2>1
  <2>3. \/ /\ f[n][other[n]].kids = f[n][side[n]].kids
           /\ f[n][other[n]].state = f[n][side[n]].state
        \/ /\ f[n][other[n]].kids # f[n][side[n]].kids
           /\ \A k \in Range(Kids[n]) : f[k][f[n][other[n]].kids].props = f[n][other[n]].state
    BY <1>5
  <2> QED BY <2>1, <2>2, <2>3
<1> QED BY <1>10, <1>11, <1>12

\* What a render has finished is consistent in itself.
LEMMA FinishedTree ==
  ASSUME NEW f, AreFibers(f), NEW top \in Sides, Consistent(f, top), OneTree(f, top)
  PROVE  Consistent(f, Other(top))
<1> DEFINE side  == SideIn(f, top)
           other == SideIn(f, Other(top))
<1>1. Wired(f, top, side) /\ Wired(f, Other(top), other)
  BY BothSides
<1>2. \A n \in Children : f[n][side[n]].props = f[Parent[n]][side[Parent[n]]].state
  BY DEF Consistent
<1>3. \A n \in Node : other[n] # side[n] =>
           \/ /\ f[n][other[n]].kids = f[n][side[n]].kids
              /\ f[n][other[n]].state = f[n][side[n]].state
           \/ /\ f[n][other[n]].kids # f[n][side[n]].kids
              /\ \A k \in Range(Kids[n]) : f[k][f[n][other[n]].kids].props = f[n][other[n]].state
  BY DEF OneTree
<1>4. Consistent(f, Other(top)) <=>
        \A n \in Children : f[n][other[n]].props = f[Parent[n]][other[Parent[n]]].state
  BY DEF Consistent
<1> HIDE DEF side, other
<1> SUFFICES ASSUME NEW n \in Children
             PROVE  f[n][other[n]].props = f[Parent[n]][other[Parent[n]]].state
  BY <1>4
<1> DEFINE p == Parent[n]
<1>5. p \in Node /\ n \in Range(Kids[p])
  BY TreeParent
<1>6. other[n] = f[p][other[p]].kids /\ side[n] = f[p][side[p]].kids
  BY <1>1 DEF Wired
<1>7. f[n][side[n]].props = f[p][side[p]].state
  BY <1>2
<1> HIDE DEF p
<1>8. CASE other[p] = side[p]
  BY <1>6, <1>7, <1>8, SMTT(60) DEF p
<1>9. CASE other[p] # side[p] /\ f[p][other[p]].kids = f[p][side[p]].kids
  BY <1>3, <1>5, <1>6, <1>7, <1>9 DEF p
<1>10. CASE other[p] # side[p] /\ f[p][other[p]].kids # f[p][side[p]].kids
  BY <1>3, <1>5, <1>6, <1>10 DEF p
<1> QED BY <1>8, <1>9, <1>10

\* prepareFreshStack: there is just a root of its own, the copy.
LEMMA FreshTree ==
  ASSUME NEW f, AreFibers(f), NEW top \in Sides, Consistent(f, top)
  PROVE  LET g == WorkInProgress(f, Root, top)
         IN  /\ AreFibers(g) /\ Consistent(g, top) /\ OneTree(g, top) /\ Untouched(g, top, Root)
<1> DEFINE g     == WorkInProgress(f, Root, top)
           side  == SideIn(f, top)
           other == [side EXCEPT ![Root] = Other(top)]
<1>1. Root \in Node
  BY TreeAssumption
<1>2. Wired(f, top, side) /\ Other(top) \in Sides /\ Other(top) # top
  BY BothSides
<1>3. \A n \in Children : f[n][side[n]].props = f[Parent[n]][side[Parent[n]]].state
  BY DEF Consistent
<1>4. /\ AreFibers(g)
      /\ Alike(g[Root][Other(top)], f[Root][top]) /\ Alike(g[Root][top], f[Root][top])
      /\ \A m \in Node, s \in Sides : m # Root => Alike(g[m][s], f[m][s])
  BY <1>1, CopyOfFiber
<1> HIDE DEF g, side
<1>5. /\ side \in [Node -> Sides] /\ side[Root] = top
      /\ \A n \in Children : side[n] = f[Parent[n]][side[Parent[n]]].kids
  BY <1>2 DEF Wired
<1>6. \A n \in Node : Alike(g[n][side[n]], f[n][side[n]]) /\ Alike(g[n][other[n]], f[n][side[n]])
  <2> SUFFICES ASSUME NEW n \in Node
               PROVE  Alike(g[n][side[n]], f[n][side[n]]) /\ Alike(g[n][other[n]], f[n][side[n]])
    OBVIOUS
  <2>1. CASE n = Root
    BY <2>1, <1>4, <1>5
  <2>2. CASE n # Root
    BY <2>2, <1>4, <1>5
  <2> QED BY <2>1, <2>2
<1>7. /\ other \in [Node -> Sides] /\ other[Root] = Other(top)
      /\ \A n \in Node : n # Root => other[n] = side[n]
  BY <1>1, <1>2, <1>5
<1> HIDE DEF other
<1>8. SideIn(g, top) = side
  <2>1. Wired(g, top, side)
    BY <1>5, <1>6, TreeParent DEF Wired, Alike
  <2> QED BY <1>4, <2>1, WiredIsSides
<1>9. SideIn(g, Other(top)) = other
  <2>1. \A n \in Children : other[n] = g[Parent[n]][other[Parent[n]]].kids
    BY <1>5, <1>6, <1>7, TreeParent DEF Alike
  <2>2. Wired(g, Other(top), other)
    BY <1>7, <2>1 DEF Wired
  <2> QED BY <1>2, <1>4, <2>2, WiredIsSides
<1>10. Consistent(g, top)
  BY <1>3, <1>6, <1>8, TreeParent DEF Consistent, Alike
<1>11. OneTree(g, top)
  BY <1>6, <1>8, <1>9 DEF OneTree, Alike
<1>12. Untouched(g, top, Root)
  BY <1>1, <1>2, <1>5, <1>6, <1>7, <1>8, <1>9 DEF Untouched, Alike
<1> QED BY <1>4, <1>10, <1>11, <1>12 DEF g

\* What a render of a node leaves of the two trees.
StillOneTree(f, g, top, n) ==
  LET side == SideIn(f, Other(top))[n]
  IN  /\ AreFibers(g) /\ Consistent(g, top) /\ OneTree(g, top)
      /\ \A m \in Node : m # n /\ Untouched(f, top, m) => Untouched(g, top, m)
      /\ g[n][side].kids # f[n][side].kids =>
           \A k \in Range(Kids[n]) : Untouched(g, top, k)

\* The children stay.
LEMMA RestatedTree ==
  ASSUME NEW f, AreFibers(f), NEW g, NEW top \in Sides, NEW n \in Node,
         Consistent(f, top), OneTree(f, top), Untouched(f, top, n),
         LET side == SideIn(f, Other(top))[n]
         IN  Restated(f, g, n, side) /\ g[n][side].state = f[n][Other(side)].state
  PROVE  StillOneTree(f, g, top, n)
<1> DEFINE side  == SideIn(f, top)
           other == SideIn(f, Other(top))
<1>1. /\ side \in [Node -> Sides] /\ other \in [Node -> Sides] /\ Other(top) \in Sides
  BY BothSides DEF Wired
<1>2. \A m \in Children : f[m][side[m]].props = f[Parent[m]][side[Parent[m]]].state
  BY DEF Consistent
<1>3. \A m \in Node : other[m] # side[m] =>
           \/ /\ f[m][other[m]].kids = f[m][side[m]].kids
              /\ f[m][other[m]].state = f[m][side[m]].state
           \/ /\ f[m][other[m]].kids # f[m][side[m]].kids
              /\ \A k \in Range(Kids[m]) : f[k][f[m][other[m]].kids].props = f[m][other[m]].state
  BY DEF OneTree
<1>4. other[n] # side[n] /\ f[n][other[n]].kids = f[n][side[n]].kids
  BY DEF Untouched
<1>5. Restated(f, g, n, other[n]) /\ g[n][other[n]].state = f[n][Other(other[n])].state
  OBVIOUS
<1>6. \A m \in Node : Untouched(f, top, m) <=>
                        other[m] # side[m] /\ f[m][other[m]].kids = f[m][side[m]].kids
  BY DEF Untouched
<1> HIDE DEF side, other
<1>7. Other(other[n]) = side[n]
  BY <1>1, <1>4, Others
<1>8. /\ AreFibers(g)
      /\ \A m \in Node, s \in Sides : g[m][s].kids = f[m][s].kids /\ g[m][s].props = f[m][s].props
      /\ \A m \in Node, s \in Sides : m # n \/ s # other[n] => g[m][s].state = f[m][s].state
  BY <1>5 DEF Restated
<1>9. \A m \in Node : /\ g[m][side[m]].kids = f[m][side[m]].kids
                      /\ g[m][other[m]].kids = f[m][other[m]].kids
                      /\ g[m][side[m]].props = f[m][side[m]].props
                      /\ g[m][side[m]].state = f[m][side[m]].state
                      /\ m # n => g[m][other[m]].state = f[m][other[m]].state
  <2> SUFFICES ASSUME NEW m \in Node
               PROVE  /\ g[m][side[m]].kids = f[m][side[m]].kids
                      /\ g[m][other[m]].kids = f[m][other[m]].kids
                      /\ g[m][side[m]].props = f[m][side[m]].props
                      /\ g[m][side[m]].state = f[m][side[m]].state
                      /\ m # n => g[m][other[m]].state = f[m][other[m]].state
    OBVIOUS
  <2>1. side[m] \in Sides /\ other[m] \in Sides /\ (m # n \/ side[m] # other[n])
    BY <1>1, <1>4
  <2> QED BY <1>8, <2>1
<1>10. SideIn(g, top) = side /\ SideIn(g, Other(top)) = other
  BY <1>1, <1>8, <1>9, SameSides DEF side, other
<1>11. Consistent(g, top)
  BY <1>2, <1>9, <1>10, TreeParent DEF Consistent
<1>12. \A m \in Node : Untouched(g, top, m) <=>
                        other[m] # side[m] /\ g[m][other[m]].kids = g[m][side[m]].kids
  BY <1>10 DEF Untouched
<1>13. \A m \in Node : Untouched(f, top, m) => Untouched(g, top, m)
  BY <1>6, <1>9, <1>12
<1>14. \A m \in Node : \A k \in Range(Kids[m]) : k \in Node
  <2>1. \A m \in Node : \A k \in Range(Kids[m]) : k \in Children
    BY TreeKids
  <2> QED BY <2>1, TreeParent
<1>15. OneTree(g, top)
  <2> SUFFICES ASSUME NEW m \in Node, other[m] # side[m]
               PROVE  \/ /\ g[m][other[m]].kids = g[m][side[m]].kids
                         /\ g[m][other[m]].state = g[m][side[m]].state
                      \/ /\ g[m][other[m]].kids # g[m][side[m]].kids
                         /\ \A k \in Range(Kids[m]) :
                                 g[k][g[m][other[m]].kids].props = g[m][other[m]].state
    BY <1>10 DEF OneTree
  <2>1. CASE m = n
    BY <2>1, <1>4, <1>5, <1>7, <1>9
  <2>2. CASE m # n
    <3>1. f[m][other[m]].kids \in Sides
      BY <1>1 DEF AreFibers
    <3>2. \A k \in Range(Kids[m]) :
               g[k][f[m][other[m]].kids].props = f[k][f[m][other[m]].kids].props
      BY <1>8, <1>14, <3>1
    <3> QED BY <1>3, <1>9, <2>2, <3>2
  <2> QED BY <2>1, <2>2
<1>16. g[n][other[n]].kids = f[n][other[n]].kids
  BY <1>9, SMTT(60)
<1> QED BY <1>8, <1>11, <1>13, <1>15, <1>16 DEF StillOneTree, other

\* The children are the other ones.
LEMMA SpawnedTree ==
  ASSUME NEW f, AreFibers(f), NEW g, NEW top \in Sides, NEW n \in Node,
         Consistent(f, top), OneTree(f, top), Untouched(f, top, n), NEW h,
         SpawnedBy(f, h, g, n, SideIn(f, Other(top))[n])
  PROVE  StillOneTree(f, g, top, n)
<1> DEFINE side  == SideIn(f, top)
           other == SideIn(f, Other(top))
           mine  == other[n]
           kids  == f[n][mine].kids
           news  == [m \in Node |-> IF m \in Range(Kids[n]) THEN Other(kids) ELSE other[m]]
<1>1. /\ side \in [Node -> Sides] /\ side[Root] = top /\ Other(top) \in Sides
      /\ other \in [Node -> Sides] /\ other[Root] = Other(top)
      /\ \A m \in Children : side[m] = f[Parent[m]][side[Parent[m]]].kids
      /\ \A m \in Children : other[m] = f[Parent[m]][other[Parent[m]]].kids
  <2>1. Wired(f, top, side) /\ Wired(f, Other(top), other) /\ Other(top) \in Sides
    BY BothSides
  <2> HIDE DEF side, other
  <2> QED BY <2>1 DEF Wired
<1>2. \A m \in Children : f[m][side[m]].props = f[Parent[m]][side[Parent[m]]].state
  BY DEF Consistent
<1>3. \A m \in Node : other[m] # side[m] =>
           \/ /\ f[m][other[m]].kids = f[m][side[m]].kids
              /\ f[m][other[m]].state = f[m][side[m]].state
           \/ /\ f[m][other[m]].kids # f[m][side[m]].kids
              /\ \A k \in Range(Kids[m]) : f[k][f[m][other[m]].kids].props = f[m][other[m]].state
  BY DEF OneTree
<1>4. mine # side[n] /\ kids = f[n][side[n]].kids
  BY SMTT(60) DEF Untouched
<1>5. /\ Restated(f, h, n, mine) /\ Spawned(h, g, n, mine)
      /\ \/ \A k \in Range(Kids[n]) : g[k][Other(kids)].props = h[n][mine].state
         \/ /\ h[n][mine].state = f[n][Other(mine)].state
            /\ \A k \in Range(Kids[n]) : g[k][Other(kids)].props = h[k][kids].props
  <2>1. SpawnedBy(f, h, g, n, mine)
    OBVIOUS
  <2> HIDE DEF mine
  <2> QED BY <2>1 DEF SpawnedBy
<1>6. \A m \in Node : Untouched(f, top, m) <=>
                        other[m] # side[m] /\ f[m][other[m]].kids = f[m][side[m]].kids
  BY DEF Untouched
<1> HIDE DEF side, other
<1>7. /\ mine \in Sides /\ side[n] \in Sides /\ Other(mine) = side[n]
      /\ kids \in Sides /\ Other(kids) \in Sides /\ Other(kids) # kids
  BY <1>1, <1>4, Others DEF AreFibers
<1>8. \A k \in Range(Kids[n]) :
        /\ k \in Children /\ k \in Node /\ Parent[k] = n /\ k # n /\ k # Root
        /\ side[k] = kids /\ other[k] = kids
  <2> SUFFICES ASSUME NEW k \in Range(Kids[n])
               PROVE  /\ k \in Children /\ k \in Node /\ Parent[k] = n /\ k # n /\ k # Root
                      /\ side[k] = kids /\ other[k] = kids
    OBVIOUS
  <2>1. k \in Children /\ Parent[k] = n
    BY TreeKids
  <2>2. k \in Node /\ k # n /\ k # Root
    BY <2>1, TreeParent, NotOwnChild, SMTT(60)
  <2> QED BY <1>1, <1>4, <2>1, <2>2
<1>9. /\ AreFibers(h)
      /\ \A m \in Node, s \in Sides : h[m][s].kids = f[m][s].kids /\ h[m][s].props = f[m][s].props
      /\ \A m \in Node, s \in Sides : m # n \/ s # mine => h[m][s].state = f[m][s].state
      /\ h[n][mine].kids = kids
  BY <1>5, <1>7 DEF Restated
<1> HIDE DEF mine
<1>10. /\ AreFibers(g)
       /\ g[n][mine].kids = Other(kids) /\ g[n][mine].state = h[n][mine].state
       /\ Alike(g[n][side[n]], h[n][side[n]])
       /\ \A k \in Range(Kids[n]) :
            /\ Alike(g[k][kids], h[k][kids])
            /\ g[k][Other(kids)].kids = h[k][kids].kids
            /\ g[k][Other(kids)].state = h[k][kids].state
       /\ \A m \in Node, s \in Sides :
            m # n /\ m \notin Range(Kids[n]) => Alike(g[m][s], h[m][s])
       /\ g[n][mine].props = h[n][mine].props
  BY <1>5, <1>7, <1>9 DEF Spawned
<1>11. Alike(g[n][side[n]], f[n][side[n]])
  BY <1>4, <1>7, <1>9, <1>10 DEF Alike
<1>12. ASSUME NEW k \in Range(Kids[n])
       PROVE  /\ Alike(g[k][kids], f[k][kids])
              /\ g[k][Other(kids)].kids = f[k][kids].kids
              /\ g[k][Other(kids)].state = f[k][kids].state
              /\ h[k][kids].props = f[k][kids].props
  <2>1. k \in Node /\ k # n
    BY <1>8
  <2>2. h[k][kids].kids = f[k][kids].kids /\ h[k][kids].props = f[k][kids].props
        /\ h[k][kids].state = f[k][kids].state
    BY <1>7, <1>9, <2>1
  <2> QED BY <1>10, <2>2 DEF Alike
<1>13. ASSUME NEW m \in Node, m # n, m \notin Range(Kids[n]), NEW s \in Sides
       PROVE  Alike(g[m][s], f[m][s])
  <2>1. /\ h[m][s].kids = f[m][s].kids /\ h[m][s].props = f[m][s].props
        /\ h[m][s].state = f[m][s].state
    BY <1>9, <1>13, SMTT(60)
  <2> QED BY <1>10, <1>13, <2>1 DEF Alike
<1>14. \A k \in Range(Kids[n]) : g[k][Other(kids)].props = g[n][mine].state
  <2>1. CASE \A k \in Range(Kids[n]) : g[k][Other(kids)].props = h[n][mine].state
    BY <2>1, <1>10, SMTT(60)
  <2>2. CASE /\ h[n][mine].state = f[n][Other(mine)].state
             /\ \A k \in Range(Kids[n]) : g[k][Other(kids)].props = h[k][kids].props
    <3>1. \A k \in Range(Kids[n]) : f[k][kids].props = f[n][side[n]].state
      BY <1>2, <1>8
    <3> QED BY <2>2, <3>1, <1>7, <1>10, <1>12
  <2> QED BY <1>5, <2>1, <2>2
<1> HIDE DEF kids
<1>15. \A m \in Node : Alike(g[m][side[m]], f[m][side[m]])
  <2> SUFFICES ASSUME NEW m \in Node PROVE Alike(g[m][side[m]], f[m][side[m]])
    OBVIOUS
  <2>1. CASE m = n
    BY <2>1, <1>11
  <2>2. CASE m \in Range(Kids[n])
    BY <2>2, <1>8, <1>12
  <2>3. CASE m # n /\ m \notin Range(Kids[n])
    BY <2>3, <1>1, <1>13
  <2> QED BY <2>1, <2>2, <2>3
<1>16. SideIn(g, top) = side
  BY <1>10, <1>15, SameSides DEF side, Alike
<1>17. /\ news \in [Node -> Sides]
       /\ \A k \in Range(Kids[n]) : news[k] = Other(kids)
       /\ \A m \in Node : m \notin Range(Kids[n]) => news[m] = other[m]
  BY <1>1, <1>7, <1>8
<1> HIDE DEF news
<1>18. Wired(g, Other(top), news)
  <2>1. news[Root] = Other(top)
    BY <1>1, <1>8, <1>17, TreeAssumption
  <2>2. ASSUME NEW m \in Children PROVE news[m] = g[Parent[m]][news[Parent[m]]].kids
    <3>1. m \in Node /\ Parent[m] \in Node /\ other[m] = f[Parent[m]][other[Parent[m]]].kids
          /\ (m \in Range(Kids[n]) <=> Parent[m] = n)
      BY <1>1, TreeParent
    <3>2. CASE Parent[m] = n
      <4>1. news[n] = mine
        BY <1>17, NotOwnChild DEF mine
      <4> QED BY <3>1, <3>2, <4>1, <1>10, <1>17
    <3>3. CASE Parent[m] \in Range(Kids[n])
      <4>1. m \notin Range(Kids[n]) /\ other[Parent[m]] = kids /\ news[Parent[m]] = Other(kids)
        BY <3>1, <3>3, <1>8, <1>17
      <4> QED BY <3>1, <3>3, <4>1, <1>12, <1>17
    <3>4. CASE Parent[m] # n /\ Parent[m] \notin Range(Kids[n])
      <4>1. news[m] = other[m] /\ news[Parent[m]] = other[Parent[m]] /\ other[Parent[m]] \in Sides
        BY <3>1, <3>4, <1>1, <1>17
      <4>2. Alike(g[Parent[m]][other[Parent[m]]], f[Parent[m]][other[Parent[m]]])
        BY <3>1, <3>4, <4>1, <1>13
      <4> QED BY <3>1, <4>1, <4>2 DEF Alike
    <3> QED BY <3>2, <3>3, <3>4
  <2> QED BY <1>17, <2>1, <2>2 DEF Wired
<1>19. SideIn(g, Other(top)) = news
  BY <1>1, <1>10, <1>18, WiredIsSides
<1>20. Consistent(g, top)
  <2>1. \A m \in Children : m \in Node /\ Parent[m] \in Node
    BY TreeParent
  <2>2. \A m \in Children : g[m][side[m]].props = g[Parent[m]][side[Parent[m]]].state
    BY <1>2, <1>15, <2>1 DEF Alike
  <2> QED BY <1>16, <2>2 DEF Consistent
<1>21. \A m \in Node : Untouched(g, top, m) <=>
                         news[m] # side[m] /\ g[m][news[m]].kids = g[m][side[m]].kids
  BY <1>16, <1>19 DEF Untouched
<1>22. ASSUME NEW m \in Node, m # n, m \notin Range(Kids[n])
       PROVE  /\ news[m] = other[m] /\ other[m] \in Sides
              /\ Alike(g[m][other[m]], f[m][other[m]]) /\ Alike(g[m][side[m]], f[m][side[m]])
  BY <1>1, <1>13, <1>15, <1>17, <1>22
<1>23. \A k \in Range(Kids[n]) :
         /\ news[k] # side[k] /\ g[k][news[k]].kids = g[k][side[k]].kids
         /\ g[k][news[k]].state = g[k][side[k]].state
  <2> SUFFICES ASSUME NEW k \in Range(Kids[n])
               PROVE  /\ news[k] # side[k] /\ g[k][news[k]].kids = g[k][side[k]].kids
                      /\ g[k][news[k]].state = g[k][side[k]].state
    OBVIOUS
  <2>1. news[k] = Other(kids) /\ side[k] = kids
    BY <1>8, <1>17
  <2> QED BY <2>1, <1>7, <1>12 DEF Alike
<1>24. \A m \in Node : m # n /\ Untouched(f, top, m) => Untouched(g, top, m)
  <2> SUFFICES ASSUME NEW m \in Node, m # n, Untouched(f, top, m) PROVE Untouched(g, top, m)
    OBVIOUS
  <2>1. other[m] # side[m] /\ f[m][other[m]].kids = f[m][side[m]].kids
    BY <1>6
  <2>2. m \notin Range(Kids[n])
    BY <2>1, <1>8
  <2> QED BY <2>1, <2>2, <1>21, <1>22 DEF Alike
<1>25. \A k \in Range(Kids[n]) : Untouched(g, top, k)
  BY <1>8, <1>21, <1>23
<1>26. OneTree(g, top)
  <2> SUFFICES ASSUME NEW m \in Node, news[m] # side[m]
               PROVE  \/ /\ g[m][news[m]].kids = g[m][side[m]].kids
                         /\ g[m][news[m]].state = g[m][side[m]].state
                      \/ /\ g[m][news[m]].kids # g[m][side[m]].kids
                         /\ \A k \in Range(Kids[m]) :
                                 g[k][g[m][news[m]].kids].props = g[m][news[m]].state
    BY <1>16, <1>19 DEF OneTree
  <2>1. CASE m = n
    <3>1. news[n] = mine
      BY <1>17, NotOwnChild DEF mine
    <3>2. g[n][side[n]].kids = kids
      BY <1>4, <1>11 DEF Alike, kids
    <3> QED BY <2>1, <3>1, <3>2, <1>7, <1>10, <1>14
  <2>2. CASE m \in Range(Kids[n])
    BY <2>2, <1>23, SMTT(60)
  <2>3. CASE m # n /\ m \notin Range(Kids[n])
    <3>1. /\ news[m] = other[m]
          /\ g[m][other[m]].kids = f[m][other[m]].kids /\ g[m][side[m]].kids = f[m][side[m]].kids
          /\ g[m][other[m]].state = f[m][other[m]].state
          /\ g[m][side[m]].state = f[m][side[m]].state
          /\ f[m][other[m]].kids \in Sides
      BY <2>3, <1>1, <1>22 DEF Alike, AreFibers
    <3>2. ASSUME NEW k \in Range(Kids[m])
          PROVE  g[k][f[m][other[m]].kids].props = f[k][f[m][other[m]].kids].props
      <4>1. k \in Children /\ Parent[k] = m
        BY TreeKids
      <4>2. k \in Node /\ k \notin Range(Kids[n])
        BY <4>1, <2>3, <1>8, TreeParent
      <4>3. CASE k = n
        <5>1. g[n][mine].props = f[n][mine].props
          BY <1>7, <1>9, <1>10
        <5>2. g[n][side[n]].props = f[n][side[n]].props
          BY <1>11 DEF Alike
        <5>3. \A s \in Sides : s = mine \/ s = side[n]
          BY <1>7, Others
        <5> QED BY <4>3, <3>1, <5>1, <5>2, <5>3
      <4>4. CASE k # n
        BY <4>2, <4>4, <3>1, <1>13 DEF Alike
      <4> QED BY <4>3, <4>4
    <3> QED BY <1>3, <2>3, <3>1, <3>2
  <2> QED BY <2>1, <2>2, <2>3
<1> QED BY <1>10, <1>20, <1>24, <1>25, <1>26 DEF StillOneTree

\* However work on a node begins.
LEMMA BegunTree ==
  ASSUME NEW f, AreFibers(f), NEW g, NEW top \in Sides, NEW n \in Node,
         Consistent(f, top), OneTree(f, top), Untouched(f, top, n),
         Begun(f, g, n, SideIn(f, Other(top))[n])
  PROVE  StillOneTree(f, g, top, n)
<1> DEFINE side == SideIn(f, Other(top))[n]
<1>1. CASE Restated(f, g, n, side) /\ g[n][side].state = f[n][Other(side)].state
  BY <1>1, RestatedTree
<1>2. CASE \E h : SpawnedBy(f, h, g, n, side)
  BY <1>2, SpawnedTree
<1> QED BY <1>1, <1>2 DEF Begun
-----------------------------------------------------------------------------
(***************************************************************************)
(* The actions that leave both trees as they are.                          *)
(***************************************************************************)
LEMMA SimilarIsTransitive ==
  ASSUME NEW f, NEW g, NEW h, Similar(f, g), Similar(g, h)
  PROVE  Similar(f, h)
BY DEF Similar, Alike

LEMMA SimilarItself == ASSUME NEW f, AreFibers(f) PROVE Similar(f, f)
BY DEF Similar, Alike

\* Writing to other fields of fibers.
LEMMA QueuesAreSimilar ==
  ASSUME AreFibers(fiber), NEW n PROVE Similar(fiber, WithQueues(n))
<1> DEFINE new(s) == IF s \in Living(n) THEN [fiber[n][s] EXCEPT !.queue = QueueOf(n, s)]
                     ELSE fiber[n][s]
           g == [fiber EXCEPT ![n] = [s \in Sides |-> new(s)]]
<1>1. g = WithQueues(n)
  BY DEF WithQueues
<1>2. DOMAIN fiber = Node
  BY DEF AreFibers
<1>3. CASE n \notin Node
  <2>1. Similar(fiber, fiber)
    BY SimilarItself
  <2>2. /\ DOMAIN g = Node /\ \A m \in Node : g[m] = fiber[m]
    BY <1>2, <1>3
  <2> HIDE DEF g
  <2>3. AreFibers(g)
    BY <2>2 DEF AreFibers
  <2>4. Similar(fiber, g)
    BY <2>2, <2>3 DEF Similar, Alike
  <2> QED BY <2>4, <1>1
<1>4. CASE n \in Node
  <2>1. ASSUME NEW s \in Sides
        PROVE  {"kids", "state", "props"} \subseteq DOMAIN new(s) /\ Alike(new(s), fiber[n][s])
    <3>1. {"kids", "state", "props"} \subseteq DOMAIN fiber[n][s]
      BY <1>4 DEF AreFibers
    <3> QED BY <3>1 DEF Alike
  <2> HIDE DEF new
  <2>2. /\ DOMAIN g = Node /\ g[n] = [s \in Sides |-> new(s)]
        /\ \A m \in Node : m # n => g[m] = fiber[m]
    BY <1>2, <1>4
  <2> HIDE DEF g
  <2>3. \A m \in Node, s \in Sides : /\ {"kids", "state", "props"} \subseteq DOMAIN g[m][s]
                                     /\ Alike(g[m][s], fiber[m][s])
    <3> SUFFICES ASSUME NEW m \in Node, NEW s \in Sides
                 PROVE  /\ {"kids", "state", "props"} \subseteq DOMAIN g[m][s]
                        /\ Alike(g[m][s], fiber[m][s])
      OBVIOUS
    <3>1. CASE m = n
      BY <3>1, <2>1, <2>2
    <3>2. CASE m # n
      BY <3>2, <2>2 DEF AreFibers, Alike
    <3> QED BY <3>1, <3>2
  <2>4. \A m \in Node : DOMAIN g[m] = Sides
    BY <2>2 DEF AreFibers
  <2>5. \A m \in Node, s \in Sides : g[m][s].kids \in Sides
    BY <2>3 DEF AreFibers, Alike
  <2>6. AreFibers(g)
    BY <2>2, <2>3, <2>4, <2>5 DEF AreFibers
  <2> QED BY <1>1, <2>3, <2>6 DEF Similar
<1> QED BY <1>3, <1>4

\* Marking an update writes times.
LEMMA MarkedIsSimilar ==
  ASSUME NEW f, AreFibers(f), NEW n, NEW expiration
  PROVE  Similar(f, Marked(f, n, expiration))
<1> DEFINE above == CHOOSE above :
                      above = [m \in Node |-> IF m = Root THEN {}
                                              ELSE {Parent[m]} \cup above[Parent[m]]]
           raised(time) == Max({time, expiration})
           new(m, s) == IF m = n THEN [f[m][s] EXCEPT !.time = raised(@)]
                        ELSE IF m \in above[n] THEN [f[m][s] EXCEPT !.childTime = raised(@)]
                        ELSE f[m][s]
           g == Marked(f, n, expiration)
<1>1. g = [m \in Node |-> [s \in Sides |-> new(m, s)]]
  BY DEF Marked
<1> HIDE DEF above, raised, g
<1>2. ASSUME NEW m \in Node, NEW s \in Sides
      PROVE  /\ {"kids", "state", "props"} \subseteq DOMAIN new(m, s)
             /\ Alike(new(m, s), f[m][s])
  <2>1. {"kids", "state", "props"} \subseteq DOMAIN f[m][s]
    BY DEF AreFibers
  <2> QED BY <2>1 DEF Alike
<1> HIDE DEF new
<1>3. DOMAIN g = Node /\ \A m \in Node : DOMAIN g[m] = Sides
  BY <1>1
<1>4. \A m \in Node, s \in Sides : g[m][s] = new(m, s)
  BY <1>1
<1>5. \A m \in Node, s \in Sides : g[m][s].kids \in Sides
  BY <1>2, <1>4 DEF AreFibers, Alike
<1>6. AreFibers(g)
  BY <1>2, <1>3, <1>4, <1>5 DEF AreFibers
<1> QED BY <1>2, <1>4, <1>6 DEF Similar, g

\* So does making one.
LEMMA UpdateIsSimilar ==
  ASSUME AreFibers(fiber), NEW u, NEW priority, NEW isInsideReact, NEW isDiscrete,
         MakeUpdate(u, priority, isInsideReact, isDiscrete)
  PROVE  Similar(fiber, fiber')
<1> DEFINE n == Target[u]
           expiration == ComputedExpiration(RequestedTime(isInsideReact), priority)
           fibers == IF n \in Functions THEN fiber ELSE WithQueues(n)
<1>1. fiber' = fiber \/ fiber' = Marked(fibers, n, expiration)
  BY DEF MakeUpdate, ScheduleUpdate
<1>2. Similar(fiber, fibers)
  BY SimilarItself, QueuesAreSimilar
<1> HIDE DEF n, expiration, fibers
<1>3. Similar(fibers, Marked(fibers, n, expiration))
  BY <1>2, MarkedIsSimilar DEF Similar
<1> QED BY <1>1, <1>2, <1>3, SimilarItself, SimilarIsTransitive

\* Resetting a child time leaves what fibers show ...
LEMMA ResetIsSimilar ==
  ASSUME NEW f, AreFibers(f), NEW n \in Node, NEW side \in Sides, NEW render
  PROVE  Similar(f, ChildTimeReset(f, n, side, render))
<1> DEFINE mine  == f[n][side]
           times == UNION { {f[k][mine.kids].time, f[k][mine.kids].childTime} :
                            k \in Range(Kids[n]) }
           new   == [mine EXCEPT !.childTime = Max({NoWork} \cup times)]
           g     == [f EXCEPT ![n][side] = new]
<1>1. ChildTimeReset(f, n, side, render) \in {f, g}
  BY DEF ChildTimeReset
<1> HIDE DEF times
<1>2. {"kids", "state", "props"} \subseteq DOMAIN mine
  BY DEF AreFibers
<1>3. {"kids", "state", "props"} \subseteq DOMAIN new /\ Alike(new, mine)
  <2> HIDE DEF mine
  <2> QED BY <1>2 DEF Alike
<1>4. new.kids \in Sides
  <2>1. mine.kids \in Sides
    BY DEF AreFibers
  <2> HIDE DEF new, mine
  <2> QED BY <1>3, <2>1 DEF Alike
<1> HIDE DEF new
<1>5. /\ AreFibers(g) /\ g[n][side] = new
      /\ \A m \in Node, s \in Sides : (m # n \/ s # side) => g[m][s] = f[m][s]
  BY <1>3, <1>4, OneFiberSet
<1> HIDE DEF g
<1>6. \A m \in Node, s \in Sides : Alike(g[m][s], f[m][s])
  BY <1>3, <1>5 DEF Alike
<1> QED BY <1>1, <1>5, <1>6, SimilarItself DEF Similar

\* ... and so does completeUnitOfWork, whose loop does it fiber by fiber.
LEMMA ResetsAreSimilar ==
  ASSUME AreFibers(fiber), NEW side \in [Node -> Sides], NEW done \in Seq(Node), NEW render
  PROVE  Similar(fiber, ChildTimesReset(side, done, render))
<1> DEFINE Reset(f, i) == ChildTimeReset(f, done[i], side[done[i]], render)
           Upto(f, k) == f = [i \in 0 .. k |-> IF i = 0 THEN fiber ELSE Reset(f[i - 1], i)]
           Some == { k \in Nat : \E f : Upto(f, k) }
           n == Len(done)
<1>1. Nat \subseteq Some
  <2>1. 0 \in Some
    <3> DEFINE g == [i \in 0 .. 0 |-> fiber]
    <3> HIDE DEF Reset
    <3>1. \A i \in 0 .. 0 : i = 0
      OBVIOUS
    <3>2. g = [i \in 0 .. 0 |-> IF i = 0 THEN fiber ELSE Reset(g[i - 1], i)]
      BY <3>1
    <3> HIDE DEF g
    <3>3. Upto(g, 0)
      BY <3>2
    <3> HIDE DEF Upto
    <3> QED BY <3>3
  <2>2. ASSUME NEW k \in Nat, k \in Some PROVE k + 1 \in Some
    <3>1. PICK f : Upto(f, k)
      BY <2>2
    <3> DEFINE g == [i \in 0 .. k + 1 |-> IF i = 0 THEN fiber ELSE Reset(f[i - 1], i)]
    <3> HIDE DEF Reset
    <3>2. \A i \in 0 .. k : g[i] = f[i]
      <4> SUFFICES ASSUME NEW i \in 0 .. k PROVE g[i] = f[i]
        OBVIOUS
      <4>1. f[i] = IF i = 0 THEN fiber ELSE Reset(f[i - 1], i)
        BY <3>1
      <4>2. i \in 0 .. k + 1
        BY <2>2
      <4>3. g[i] = IF i = 0 THEN fiber ELSE Reset(f[i - 1], i)
        BY <4>2
      <4> HIDE DEF g
      <4> QED BY <4>1, <4>3
    <3>3. \A i \in 0 .. k + 1 : i # 0 => i - 1 \in 0 .. k /\ g[i - 1] = f[i - 1]
      <4> HIDE DEF g, Upto
      <4> QED BY <3>2, <2>2
    <3>4. g = [i \in 0 .. k + 1 |-> IF i = 0 THEN fiber ELSE Reset(g[i - 1], i)]
      BY <3>3
    <3> HIDE DEF g
    <3>5. Upto(g, k + 1)
      BY <3>4
    <3> HIDE DEF Upto
    <3> QED BY <3>5
  <2> HIDE DEF Some
  <2> QED BY <2>1, <2>2, SetInduction
<1>2. n \in Nat /\ \A i \in 1 .. n : done[i] \in Node /\ side[done[i]] \in Sides
  OBVIOUS
<1> DEFINE after == CHOOSE f : Upto(f, n)
<1>3. ChildTimesReset(side, done, render) = after[n]
  BY DEF ChildTimesReset
<1>4. Upto(after, n)
  <2>1. \E f : Upto(f, n)
    BY <1>1, <1>2
  <2> HIDE DEF Upto
  <2> QED BY <2>1
<1> HIDE DEF after, n
<1>5. after[0] = fiber /\ \A i \in 1 .. n : after[i] = Reset(after[i - 1], i)
  <2> HIDE DEF Reset
  <2> QED BY <1>2, <1>4
<1> HIDE DEF Upto
<1> DEFINE Fine == { i \in Nat : i <= n => Similar(fiber, after[i]) }
<1>6. Nat \subseteq Fine
  <2>1. 0 \in Fine
    BY <1>5, SimilarItself
  <2>2. ASSUME NEW i \in Nat, i \in Fine PROVE i + 1 \in Fine
    <3> SUFFICES ASSUME i + 1 <= n PROVE Similar(fiber, after[i + 1])
      OBVIOUS
    <3>1. Similar(fiber, after[i]) /\ i + 1 \in 1 .. n
      BY <1>2, <2>2
    <3>2. after[i + 1] = Reset(after[i], i + 1)
      <4> HIDE DEF Reset
      <4>1. (i + 1) - 1 = i
        OBVIOUS
      <4>2. after[i + 1] = Reset(after[(i + 1) - 1], i + 1)
        BY <1>5, <3>1
      <4> QED BY <4>1, <4>2
    <3>3. Similar(after[i], Reset(after[i], i + 1))
      BY <1>2, <3>1, ResetIsSimilar DEF Similar
    <3> HIDE DEF Reset
    <3> QED BY <3>1, <3>2, <3>3, SimilarIsTransitive
  <2> HIDE DEF Fine
  <2> QED BY <2>1, <2>2, SetInduction
<1> QED BY <1>2, <1>3, <1>6
-----------------------------------------------------------------------------
(***************************************************************************)
(* The call stack: only what is called last can be in the loop of a render *)
(* or calling back what has been committed.                                *)
(***************************************************************************)
IsQuiet(frame) ==
  /\ "at" \in DOMAIN frame
  /\ frame.at # "workLoop" /\ frame.at # "completeUnitOfWork" /\ frame.at # "layout"
Quiet(frames) == IsSeq(frames) /\ \A i \in DOMAIN frames : IsQuiet(frames[i])

CallStack ==
  /\ IsSeq(stack)
  /\ stack # <<>> => "at" \in DOMAIN Head(stack) /\ Quiet(Tail(stack))
  /\ At("workLoop") \/ At("completeUnitOfWork") => work.busy
  /\ At("completeUnitOfWork") => work.unit \in Node \ {None}

\* Sequences of calls outside the loop.
LEMMA QuietFrames ==
  /\ Quiet(<<>>)
  /\ \A frame : IsQuiet(frame) => Quiet(<<frame>>)
  /\ \A s, t : Quiet(s) /\ Quiet(t) => Quiet(s \o t)
  /\ \A f, g : IsQuiet(f) /\ IsQuiet(g) => Quiet(<<f, g>>)
<1>1. Quiet(<<>>)
  <2>1. <<>> \in Seq({}) /\ DOMAIN <<>> = {}
    OBVIOUS
  <2> QED BY <2>1 DEF Quiet, IsSeq
<1>2. ASSUME NEW frame, IsQuiet(frame) PROVE Quiet(<<frame>>)
  <2>1. <<frame>> \in Seq({frame}) /\ DOMAIN <<frame>> = {1} /\ <<frame>>[1] = frame
    OBVIOUS
  <2> QED BY <1>2, <2>1 DEF Quiet, IsSeq
<1>3. ASSUME NEW s, NEW t, Quiet(s), Quiet(t) PROVE Quiet(s \o t)
  <2>1. PICK S, T : s \in Seq(S) /\ t \in Seq(T)
    BY <1>3 DEF Quiet, IsSeq
  <2> DEFINE U == S \cup T
  <2>2. s \in Seq(U) /\ t \in Seq(U)
    BY <2>1
  <2> HIDE DEF U
  <2>3. s \o t \in Seq(U) /\ Len(s \o t) = Len(s) + Len(t) /\ Len(s) \in Nat /\ Len(t) \in Nat
    BY <2>2
  <2>4. ASSUME NEW i \in DOMAIN (s \o t) PROVE IsQuiet((s \o t)[i])
    <3>1. i \in 1 .. Len(s) + Len(t)
      BY <2>3
    <3>2. CASE i \in 1 .. Len(s)
      <4>1. (s \o t)[i] = s[i] /\ i \in DOMAIN s
        BY <2>2, <3>2
      <4> QED BY <1>3, <4>1 DEF Quiet
    <3>3. CASE i \notin 1 .. Len(s)
      <4>1. (s \o t)[i] = t[i - Len(s)] /\ i - Len(s) \in DOMAIN t
        BY <2>2, <2>3, <3>1, <3>3
      <4> QED BY <1>3, <4>1 DEF Quiet
    <3> QED BY <3>2, <3>3
  <2> QED BY <2>3, <2>4 DEF Quiet, IsSeq
<1>4. ASSUME NEW f, NEW g, IsQuiet(f), IsQuiet(g) PROVE Quiet(<<f, g>>)
  <2> DEFINE s == <<f, g>>
  <2>1. s \in Seq({f, g}) /\ DOMAIN s = {1, 2} /\ s[1] = f /\ s[2] = g
    OBVIOUS
  <2> HIDE DEF s
  <2>2. Quiet(s)
    BY <1>4, <2>1 DEF Quiet, IsSeq
  <2> QED BY <2>2 DEF s
<1> QED BY <1>1, <1>2, <1>3, <1>4

\* A call on top of quiet ones.
LEMMA OnTop ==
  ASSUME NEW frames, Quiet(frames), NEW frame
  PROVE  LET s == <<frame>> \o frames
         IN  s # <<>> /\ Head(s) = frame /\ Tail(s) = frames /\ IsSeq(s)
<1>1. PICK S : frames \in Seq(S)
  BY DEF Quiet, IsSeq
<1> DEFINE T == S \cup {frame}
<1>2. frames \in Seq(T) /\ <<frame>> \in Seq(T)
  BY <1>1
<1> HIDE DEF T
<1> DEFINE s == <<frame>> \o frames
<1>3. /\ s \in Seq(T) /\ Len(s) = 1 + Len(frames) /\ Len(frames) \in Nat /\ s[1] = frame
      /\ \A i \in 1 .. Len(frames) : s[i + 1] = frames[i]
  BY <1>2
<1> HIDE DEF s
<1>4. s # <<>> /\ Head(s) = frame
  BY <1>3
<1>5. Tail(s) = frames
  BY <1>2, <1>3, <1>4
<1> QED BY <1>3, <1>4, <1>5 DEF s, IsSeq

\* What is left of the stack when one call or two have returned.
LEMMA QuietBelow ==
  ASSUME CallStack, stack # <<>>
  PROVE  Quiet(Tail(stack)) /\ Quiet(SubSeq(stack, 3, Len(stack)))
<1>1. PICK S : stack \in Seq(S)
  BY DEF CallStack, IsSeq
<1>2. Quiet(Tail(stack))
  BY DEF CallStack
<1>3. Len(stack) \in Nat /\ Len(stack) >= 1
  BY <1>1
<1>4. SubSeq(stack, 3, Len(stack)) = [i \in 1 .. (Len(stack) - 3 + 1) |-> stack[i + 3 - 1]]
  BY <1>1, <1>3
<1>5. CASE Len(stack) <= 2
  <2>1. 1 .. (Len(stack) - 3 + 1) = {}
    BY <1>3, <1>5
  <2>2. SubSeq(stack, 3, Len(stack)) = <<>>
    BY <1>4, <2>1
  <2> QED BY <1>2, <2>2, QuietFrames
<1>6. CASE Len(stack) >= 3
  <2> DEFINE t == SubSeq(stack, 3, Len(stack))
  <2>1. t \in Seq(S) /\ Len(t) = Len(stack) - 2
    BY <1>1, <1>3, <1>6
  <2>2. \A i \in 1 .. Len(stack) - 2 : t[i] = stack[i + 2]
    BY <1>1, <1>3, <1>6
  <2>3. \A i \in 1 .. Len(stack) - 2 :
             Tail(stack)[i + 1] = stack[i + 2] /\ i + 1 \in DOMAIN Tail(stack)
    BY <1>1, <1>3, <1>6
  <2>4. DOMAIN t = 1 .. Len(stack) - 2
    BY <2>1
  <2> HIDE DEF t
  <2>5. \A i \in DOMAIN t : IsQuiet(t[i])
    BY <1>2, <2>2, <2>3, <2>4 DEF Quiet
  <2>6. Quiet(t)
    BY <2>1, <2>5 DEF Quiet, IsSeq
  <2> QED BY <1>2, <2>6 DEF t
<1> QED BY <1>2, <1>3, <1>5, <1>6

\* The calls that the code makes, of updates, effects, events and renders.
LEMMA QuietCalls ==
  /\ Quiet(FlushPassiveEffects) /\ \A queue : Quiet(FlushSyncCallbackQueue(queue))
  /\ \A event : IsQuiet(EventFrame(event))
  /\ \A todo, isSync, wrapped : IsQuiet(RootCall(todo, isSync, wrapped))
  /\ \A task : IsQuiet([at |-> "task", task |-> task])
  /\ \A some : IsQuiet([at |-> "passive", passive |-> some])
  /\ IsQuiet(Frame("flush")) /\ IsQuiet(Frame("flushPassiveEffects"))
<1>1. /\ IsQuiet(Frame("flushPassiveEffects")) /\ IsQuiet(Frame("flushSyncCallbackQueue"))
      /\ IsQuiet(Frame("flush"))
  BY DEF Frame, IsQuiet
<1>2. Quiet(FlushPassiveEffects) /\ \A queue : Quiet(FlushSyncCallbackQueue(queue))
  BY <1>1, QuietFrames DEF FlushPassiveEffects, FlushSyncCallbackQueue
<1>3. \A event : IsQuiet(EventFrame(event))
  BY DEF EventFrame, IsQuiet
<1>4. \A todo, isSync, wrapped : IsQuiet(RootCall(todo, isSync, wrapped))
  BY DEF RootCall, IsQuiet
<1>5. \A task : IsQuiet([at |-> "task", task |-> task])
  BY DEF IsQuiet
<1>6. \A some : IsQuiet([at |-> "passive", passive |-> some])
  BY DEF IsQuiet
<1> QED BY <1>1, <1>2, <1>3, <1>4, <1>5, <1>6

\* A stack whose last call is not in the loop is quiet, and so it is with another
\* call in its place or with more on top.
LEMMA QuietStack ==
  ASSUME CallStack, stack # <<>>, IsQuiet(Head(stack))
  PROVE  Quiet(stack)
<1>1. PICK S : stack \in Seq(S)
  BY DEF CallStack, IsSeq
<1>2. stack = <<Head(stack)>> \o Tail(stack)
  BY <1>1
<1>3. Quiet(<<Head(stack)>>) /\ Quiet(Tail(stack))
  BY QuietFrames DEF CallStack
<1> QED BY <1>2, <1>3, QuietFrames

LEMMA ContinuationIsQuiet ==
  ASSUME CallStack, stack # <<>>, NEW todo, ReturnContinuation(todo)
  PROVE  Quiet(stack')
<1>1. \/ stack' = <<RootCall(todo, TRUE, Head(stack).wrapped)>> \o Tail(stack)
      \/ stack' = SubSeq(stack, 3, Len(stack))
  BY DEF ReturnContinuation, Goto
<1> QED BY <1>1, QuietBelow, QuietCalls, QuietFrames

LEMMA NullIsQuiet ==
  ASSUME CallStack, stack # <<>>, NEW r, ReturnNull(r)
  PROVE  Quiet(stack')
<1>1. stack' = Tail(stack) \/ stack' = SubSeq(stack, 3, Len(stack))
  BY DEF ReturnNull
<1> QED BY <1>1, QuietBelow

\* A call that is in some other place.
LEMMA Elsewhere ==
  ASSUME CallStack, NEW place, At(place), place # "workLoop", place # "completeUnitOfWork"
  PROVE  /\ stack # <<>> /\ "at" \in DOMAIN Head(stack) /\ Head(stack).at = place
         /\ ~At("completeUnitOfWork") /\ Quiet(Tail(stack))
         /\ place # "layout" => Quiet(stack)
<1>1. /\ stack # <<>> /\ "at" \in DOMAIN Head(stack) /\ Head(stack).at = place
      /\ ~At("completeUnitOfWork") /\ Quiet(Tail(stack))
  BY DEF CallStack, At
<1>2. place # "layout" => IsQuiet(Head(stack))
  BY <1>1 DEF IsQuiet
<1> QED BY <1>1, <1>2, QuietStack
-----------------------------------------------------------------------------
(***************************************************************************)
(* The screen shows one tree.                                              *)
(***************************************************************************)
\* The nodes that the render still has to get to are untouched.
CursorUntouched ==
  work.busy /\ work.unit # None =>
    \A n \in After[work.unit] \cup (IF At("completeUnitOfWork") THEN {} ELSE {work.unit}) :
      Untouched(fiber, current, n)

\* The inductive invariant.
ScreenInv ==
  /\ FinishedInv /\ AreFibers(fiber) /\ CallStack
  /\ {"busy", "unit", "time", "effects"} \subseteq DOMAIN work /\ work.unit \in Node \cup {None}
  /\ Consistent(fiber, current)
  /\ work.busy \/ root.finishedWork # 0 => OneTree(fiber, current)
  /\ CursorUntouched

\* The invariant says what the user is promised.
LEMMA ScreenInvImplies == ScreenInv => NoTearing
<1> SUFFICES ASSUME ScreenInv, NEW n \in Children
             PROVE  fiber[n][Side[n]].props = Shown[Parent[n]]
  BY DEF NoTearing
<1>1. fiber[n][Side[n]].props = fiber[Parent[n]][Side[Parent[n]]].state
  BY DEF ScreenInv, Consistent, Side
<1>2. Parent[n] \in Node
  BY TreeParent
<1> QED BY <1>1, <1>2 DEF Shown

\* At first every fiber shows the first state, and points to the same side.
LEMMA InitScreen == Init => ScreenInv
<1> SUFFICES ASSUME Init PROVE ScreenInv
  OBVIOUS
<1>1. FinishedInv
  BY InitFinished
<1>2. /\ fiber = [n \in Node |-> [s \in Sides |->
           IF n = Root THEN [Mounted EXCEPT !.queue = s]
           ELSE IF s = 1 THEN Mounted ELSE NoFiber]]
      /\ current = 1 /\ stack = <<>> /\ root.finishedWork = 0
      /\ work = [busy |-> FALSE, unit |-> None, time |-> NoWork, effects |-> <<>>]
  BY DEF Init, TreeInit
<1>3. \A n \in Node, s \in Sides :
        /\ {"kids", "state", "props"} \subseteq DOMAIN fiber[n][s]
        /\ fiber[n][s].kids = 1 /\ fiber[n][s].state = <<>> /\ fiber[n][s].props = <<>>
  BY <1>2 DEF Mounted, NoFiber
<1>4. AreFibers(fiber)
  BY <1>2, <1>3 DEF AreFibers, Sides
<1>5. Consistent(fiber, current)
  <2>1. current \in Sides
    BY <1>2 DEF Sides
  <2>2. SideIn(fiber, current) \in [Node -> Sides]
    BY <1>4, <2>1, SidesAreWired DEF Wired
  <2> QED BY <1>3, <2>2, TreeParent DEF Consistent
<1>6. CallStack
  BY <1>2, QuietFrames DEF CallStack, At, Quiet
<1> QED BY <1>1, <1>2, <1>4, <1>5, <1>6 DEF ScreenInv, CursorUntouched

\* An action that leaves both trees and the render as they are.
Stays ==
  /\ Similar(fiber, fiber') /\ current' = current /\ work' = work
  /\ root'.finishedWork = root.finishedWork
  /\ ~At("completeUnitOfWork")
  /\ CallStack' /\ ~At("workLoop")' /\ ~At("completeUnitOfWork")'
  /\ At("layout")' => CallCallback

\* A stack with no call in the loop.
LEMMA QuietCallStack ==
  ASSUME Quiet(stack')
  PROVE  CallStack' /\ ~At("workLoop")' /\ ~At("completeUnitOfWork")' /\ ~At("layout")'
<1>1. PICK S : stack' \in Seq(S)
  BY DEF Quiet, IsSeq
<1>2. CASE stack' = <<>>
  BY <1>1, <1>2 DEF CallStack, At, IsSeq
<1>3. CASE stack' # <<>>
  <2>1. Len(stack') \in Nat /\ Len(stack') >= 1 /\ Head(stack') = stack'[1] /\ 1 \in DOMAIN stack'
    BY <1>1, <1>3
  <2>2. /\ Tail(stack') \in Seq(S) /\ DOMAIN Tail(stack') = 1 .. Len(stack') - 1
        /\ \A i \in 1 .. Len(stack') - 1 :
                Tail(stack')[i] = stack'[i + 1] /\ i + 1 \in DOMAIN stack'
    BY <1>1, <1>3, <2>1
  <2>3. IsQuiet(Head(stack')) /\ \A i \in DOMAIN Tail(stack') : IsQuiet(Tail(stack')[i])
    BY <2>1, <2>2 DEF Quiet
  <2>4. Quiet(Tail(stack'))
    BY <2>2, <2>3 DEF Quiet, IsSeq
  <2> QED BY <1>1, <2>3, <2>4 DEF CallStack, At, IsSeq, IsQuiet
<1> QED BY <1>2, <1>3

\* Such an action keeps the invariant.
LEMMA StaysPreserves ==
  ASSUME ScreenInv, FinishedInv', Stays
  PROVE  ScreenInv'
<1>1. CallStack' /\ ~At("workLoop")' /\ ~At("completeUnitOfWork")'
  BY DEF Stays
<1>2. /\ AreFibers(fiber) /\ Similar(fiber, fiber') /\ current \in Sides /\ AreFibers(fiber')
      /\ current' = current /\ work' = work /\ root'.finishedWork = root.finishedWork
  BY DEF ScreenInv, Stays, FinishedInv, Similar
<1>3. /\ Consistent(fiber, current) => Consistent(fiber', current)
      /\ OneTree(fiber, current) => OneTree(fiber', current)
      /\ \A n \in Node : Untouched(fiber, current, n) => Untouched(fiber', current, n)
  BY <1>2, SimilarTrees
<1>4. Consistent(fiber', current')
  BY <1>2, <1>3 DEF ScreenInv
<1>5. work'.busy \/ root'.finishedWork # 0 => OneTree(fiber', current')
  BY <1>2, <1>3 DEF ScreenInv
<1>6. CursorUntouched'
  <2> SUFFICES ASSUME work.busy, work.unit # None,
                      NEW n \in After[work.unit] \cup {work.unit}
               PROVE  Untouched(fiber', current', n)
    BY <1>1, <1>2 DEF CursorUntouched
  <2>1. work.unit \in Node
    BY DEF ScreenInv
  <2>2. n \in Node
    BY <2>1, AfterNodes
  <2>3. Untouched(fiber, current, n)
    BY DEF ScreenInv, CursorUntouched, Stays
  <2> QED BY <1>2, <1>3, <2>2, <2>3
<1> QED BY <1>1, <1>2, <1>4, <1>5, <1>6 DEF ScreenInv

\* What most actions do to the stack.
LEMMA CallsStay ==
  ASSUME ScreenInv,
         \/ \E event \in Events : BeginEvent(event)
         \/ EndEvent \/ BeginFlush \/ FlushNext \/ BeginPassiveEffects
         \/ Yield \/ BeginCommit \/ CommitNothing \/ BeginRenderRoot \/ CommitReturns
         \/ \E task \in tasks : RunTask(task)
         \/ Tick
  PROVE  Stays
<1> USE DEF ScreenInv
<1>1. FinishedInv /\ CallStack /\ AreFibers(fiber)
  OBVIOUS
<1>2. Kept
  BY <1>1, QuietActionsKeep, SchedulingKeeps
<1>3. fiber' = fiber /\ work' = work
  <2>1. ASSUME NEW event \in Events, BeginEvent(event) PROVE fiber' = fiber /\ work' = work
    BY <2>1 DEF BeginEvent, treeVars
  <2>2. CASE EndEvent \/ BeginFlush \/ FlushNext \/ BeginPassiveEffects
    BY <2>2 DEF EndEvent, BeginFlush, FlushNext, BeginPassiveEffects, treeVars
  <2>3. CASE Yield \/ BeginCommit \/ CommitNothing \/ BeginRenderRoot \/ CommitReturns
    BY <2>3 DEF Yield, BeginCommit, CommitNothing, BeginRenderRoot, CommitReturns, treeVars
  <2>4. ASSUME NEW task \in tasks, RunTask(task) PROVE fiber' = fiber /\ work' = work
    BY <2>4 DEF RunTask, treeVars
  <2>5. CASE Tick
    BY <2>5 DEF Tick, treeVars
  <2> QED BY <2>1, <2>2, <2>3, <2>4, <2>5
<1>4. ~At("completeUnitOfWork") /\ Quiet(stack')
  <2>1. ASSUME NEW event \in Events, BeginEvent(event)
        PROVE  ~At("completeUnitOfWork") /\ Quiet(stack')
    <3>1. stack = <<>> /\ ~At("completeUnitOfWork")
      BY <2>1 DEF BeginEvent, At
    <3>2. \E frames : Quiet(frames) /\ Call(frames)
      <4>1. Quiet(<<EventFrame(event)>>)
        BY QuietCalls, QuietFrames
      <4>2. Quiet(FlushPassiveEffects \o <<EventFrame(event)>>)
        BY <4>1, QuietCalls, QuietFrames
      <4>3. Quiet(FlushSyncCallbackQueue(syncQueue')
                    \o <<Frame("flushPassiveEffects"), EventFrame(event)>>)
        <5>2. Quiet(<<Frame("flushPassiveEffects"), EventFrame(event)>>)
          BY QuietCalls, QuietFrames
        <5> QED BY <5>2, QuietCalls, QuietFrames
      <4> QED BY <2>1, <4>1, <4>2, <4>3 DEF BeginEvent
    <3>3. PICK frames : Quiet(frames) /\ stack' = frames \o stack
      BY <3>2 DEF Call
    <3> QED BY <3>1, <3>3, QuietFrames
  <2>2. CASE EndEvent
    <3>1. /\ ~At("completeUnitOfWork") /\ Quiet(Tail(stack))
      BY <2>2, <1>1, Elsewhere DEF EndEvent
    <3>2. \E frames : Quiet(frames) /\ stack' = frames \o Tail(stack)
      BY <2>2, QuietCalls, QuietFrames DEF EndEvent
    <3> QED BY <3>1, <3>2, QuietFrames
  <2>3. CASE BeginFlush
    <3>1. ~At("completeUnitOfWork") /\ Quiet(Tail(stack))
      BY <2>3, <1>1, Elsewhere DEF BeginFlush
    <3>2. stack' = <<Frame("flush")>> \o Tail(stack)
      BY <2>3 DEF BeginFlush, Goto
    <3> QED BY <3>1, <3>2, QuietCalls, QuietFrames
  <2>4. CASE FlushNext
    <3>1. ~At("completeUnitOfWork") /\ Quiet(Tail(stack)) /\ Quiet(stack)
      BY <2>4, <1>1, Elsewhere DEF FlushNext
    <3>2. \/ stack' = Tail(stack)
          \/ stack' = <<RootCall(Head(syncQueue).todo, TRUE, Head(syncQueue).wrapped)>> \o stack
      BY <2>4 DEF FlushNext, Return, Call
    <3> QED BY <3>1, <3>2, QuietCalls, QuietFrames
  <2>5. CASE BeginPassiveEffects
    <3>1. ~At("completeUnitOfWork") /\ Quiet(Tail(stack))
      BY <2>5, <1>1, Elsewhere DEF BeginPassiveEffects
    <3>2. \/ stack' = Tail(stack)
          \/ stack' = <<[at |-> "passive", passive |-> passive]>> \o Tail(stack)
      BY <2>5 DEF BeginPassiveEffects, Return, Goto
    <3>3. IsQuiet([at |-> "passive", passive |-> passive])
      BY QuietCalls
    <3> QED BY <3>1, <3>2, <3>3, QuietFrames
  <2>6. CASE Yield
    <3>1. At("workLoop") /\ stack # <<>> /\ ~At("completeUnitOfWork")
      BY <2>6 DEF Yield, At
    <3>2. ReturnContinuation(Head(stack).todo)
      BY <2>6 DEF Yield
    <3> QED BY <1>1, <3>1, <3>2, ContinuationIsQuiet
  <2>7. CASE BeginCommit
    <3>1. ~At("completeUnitOfWork") /\ Quiet(Tail(stack)) /\ "at" \in DOMAIN Head(stack)
      BY <2>7, <1>1, Elsewhere DEF BeginCommit
    <3> DEFINE frame == [Head(stack) EXCEPT !.at = "commit"]
    <3>2. IsQuiet(frame)
      BY <3>1 DEF IsQuiet
    <3> HIDE DEF frame
    <3>3. stack' = FlushPassiveEffects \o <<frame>> \o Tail(stack)
      BY <2>7 DEF BeginCommit, frame
    <3> QED BY <3>1, <3>2, <3>3, QuietCalls, QuietFrames
  <2>8. CASE CommitNothing
    <3>1. ~At("completeUnitOfWork") /\ Quiet(Tail(stack)) /\ "at" \in DOMAIN Head(stack)
      BY <2>8, <1>1, Elsewhere DEF CommitNothing
    <3> DEFINE frame == [Head(stack) EXCEPT !.at = "committed"]
    <3>2. IsQuiet(frame)
      BY <3>1 DEF IsQuiet
    <3> HIDE DEF frame
    <3>3. stack' = <<frame>> \o Tail(stack)
      BY <2>8 DEF CommitNothing, Goto, frame
    <3> QED BY <3>1, <3>2, <3>3, QuietFrames
  <2>9. CASE BeginRenderRoot
    <3>1. /\ stack # <<>> /\ ~At("completeUnitOfWork") /\ Quiet(Tail(stack))
          /\ "at" \in DOMAIN Head(stack)
      BY <2>9, <1>1, Elsewhere DEF BeginRenderRoot
    <3> DEFINE frame == [Head(stack) EXCEPT !.at = "prepare"]
    <3>2. IsQuiet(frame)
      BY <3>1 DEF IsQuiet
    <3> HIDE DEF frame
    <3>3. \/ ReturnNull(root) \/ ReturnContinuation(Commit)
          \/ stack' = FlushPassiveEffects \o <<frame>> \o Tail(stack)
      BY <2>9 DEF BeginRenderRoot, frame
    <3> QED BY <1>1, <3>1, <3>2, <3>3, QuietCalls, QuietFrames, ContinuationIsQuiet, NullIsQuiet
  <2>10. CASE CommitReturns
    <3>1. stack # <<>> /\ ~At("completeUnitOfWork") /\ ReturnNull(root)
      BY <2>10, <1>1, Elsewhere DEF CommitReturns
    <3> QED BY <1>1, <3>1, NullIsQuiet
  <2>11. ASSUME NEW task \in tasks, RunTask(task)
         PROVE  ~At("completeUnitOfWork") /\ Quiet(stack')
    <3>1. stack = <<>> /\ ~At("completeUnitOfWork")
      BY <2>11 DEF RunTask, At
    <3>2. \/ stack' = stack
          \/ \E frames : Quiet(frames) /\ stack' = frames \o stack
      <4>1. Quiet(<<Frame("flush")>>) /\ Quiet(FlushPassiveEffects)
        BY QuietCalls, QuietFrames
      <4>2. ASSUME NEW didTimeout
            PROVE  Quiet(<<RootCall(task.todo, didTimeout, TRUE), [at |-> "task", task |-> task]>>)
        BY QuietCalls, QuietFrames
      <4> QED BY <2>11, <4>1, <4>2 DEF RunTask, Call
    <3> QED BY <3>1, <3>2, QuietFrames
  <2>12. CASE Tick
    BY <2>12, QuietFrames DEF Tick, At
  <2> QED BY <2>1, <2>2, <2>3, <2>4, <2>5, <2>6, <2>7, <2>8, <2>9, <2>10, <2>11, <2>12
<1> QED BY <1>1, <1>2, <1>3, <1>4, QuietCallStack, SimilarItself DEF Stays, Kept

\* Updates, and what calls those who make them.
LEMMA UpdatesStay ==
  ASSUME ScreenInv,
         \/ \E u \in Update : EventUpdate(u)
         \/ RunPassiveEffect \/ CallCallback \/ EndCommit
  PROVE  Stays
<1>1. FinishedInv /\ CallStack /\ AreFibers(fiber)
  BY DEF ScreenInv
<1>2. Kept
  BY <1>1, SchedulingKeeps
<1>3. Similar(fiber, fiber) 
  BY <1>1, SimilarItself
<1>4. ASSUME NEW u \in Update, EventUpdate(u) PROVE Stays
  <2>1. /\ ~At("completeUnitOfWork") /\ Quiet(Tail(stack)) /\ "at" \in DOMAIN Head(stack)
        /\ Head(stack).at = "event"
    BY <1>1, <1>4, Elsewhere DEF EventUpdate
  <2> DEFINE frame == [Head(stack) EXCEPT !.updates = @ + 1]
  <2>2. IsQuiet(frame)
    BY <2>1 DEF IsQuiet
  <2> HIDE DEF frame
  <2>3. stack' = <<frame>> \o Tail(stack) /\ work' = work
    BY <1>4 DEF EventUpdate, Goto, frame
  <2>4. Quiet(stack')
    BY <2>1, <2>2, <2>3, QuietFrames
  <2>5. Similar(fiber, fiber')
    BY <1>1, <1>4, UpdateIsSimilar DEF EventUpdate
  <2> QED BY <1>2, <2>1, <2>3, <2>4, <2>5, QuietCallStack DEF Stays, Kept
<1>5. CASE RunPassiveEffect
  <2> DEFINE mine == Head(stack).passive
             left == UNION { Reactions(n) : n \in Range(mine.nodes) } \ MadeUpdates
  <2>1. ~At("completeUnitOfWork") /\ Quiet(Tail(stack)) /\ Quiet(stack)
    BY <1>1, <1>5, Elsewhere DEF RunPassiveEffect
  <2>2. work' = work
    BY <1>5 DEF RunPassiveEffect
  <2>3. CASE left = {}
    <3>1. fiber' = fiber /\ stack' = FlushSyncCallbackQueue(syncQueue) \o Tail(stack)
      BY <1>5, <2>3 DEF RunPassiveEffect, treeVars
    <3>2. Quiet(stack')
      BY <2>1, <3>1, QuietCalls, QuietFrames
    <3> QED BY <1>2, <1>3, <2>1, <2>2, <3>1, <3>2, QuietCallStack DEF Stays, Kept
  <2>4. CASE left # {}
    <3>1. stack' = stack /\ \E u \in left : MakeUpdate(u, mine.priority, TRUE, FALSE)
      BY <1>5, <2>4 DEF RunPassiveEffect
    <3> HIDE DEF left, mine
    <3>2. Similar(fiber, fiber')
      BY <1>1, <3>1, UpdateIsSimilar
    <3> QED BY <1>2, <2>1, <2>2, <3>1, <3>2, QuietCallStack DEF Stays, Kept
  <2> QED BY <2>3, <2>4
<1>6. CASE CallCallback
  <2> DEFINE u == Head(Head(stack).callbacks)
             v == Reaction[u]
             frame == [Head(stack) EXCEPT !.callbacks = Tail(@)]
  <2>1. /\ ~At("completeUnitOfWork") /\ Quiet(Tail(stack)) /\ "at" \in DOMAIN Head(stack)
        /\ Head(stack).at = "layout" /\ At("layout")
    BY <1>1, <1>6, Elsewhere DEF CallCallback
  <2>2. "at" \in DOMAIN frame /\ frame.at = "layout"
    BY <2>1
  <2>3. stack' = <<frame>> \o Tail(stack) /\ work' = work
    BY <1>6 DEF CallCallback, Goto
  <2> HIDE DEF frame
  <2>4. CallStack' /\ ~At("workLoop")' /\ ~At("completeUnitOfWork")'
    <3>1. stack' # <<>> /\ Head(stack') = frame /\ Tail(stack') = Tail(stack) /\ IsSeq(stack')
      BY <2>1, <2>3, OnTop
    <3> QED BY <2>1, <2>2, <3>1 DEF CallStack, At
  <2>5. MakeUpdate(v, "immediate", TRUE, FALSE) \/ fiber' = fiber
    BY <1>6 DEF CallCallback
  <2> HIDE DEF v
  <2>6. Similar(fiber, fiber')
    BY <1>1, <1>3, <2>5, UpdateIsSimilar
  <2> QED BY <1>2, <1>6, <2>1, <2>3, <2>4, <2>6 DEF Stays, Kept
<1>7. CASE EndCommit
  <2> DEFINE frame == [Head(stack) EXCEPT !.at = "committed", !.effects = <<>>]
  <2>1. /\ ~At("completeUnitOfWork") /\ Quiet(Tail(stack)) /\ "at" \in DOMAIN Head(stack)
    BY <1>1, <1>7, Elsewhere DEF EndCommit
  <2>2. IsQuiet(frame)
    BY <2>1 DEF IsQuiet
  <2>3. /\ stack' = FlushSyncCallbackQueue(syncQueue') \o <<frame>> \o Tail(stack)
        /\ work' = work /\ fiber' = fiber
    BY <1>7 DEF EndCommit, treeVars
  <2> HIDE DEF frame
  <2>4. Quiet(stack')
    BY <2>1, <2>2, <2>3, QuietCalls, QuietFrames
  <2> QED BY <1>2, <1>3, <2>1, <2>3, <2>4, QuietCallStack DEF Stays, Kept
<1> QED BY <1>4, <1>5, <1>6, <1>7

\* A fresh stack, or the render in progress.
LEMMA PrepareScreen ==
  ASSUME ScreenInv, FinishedInv', Prepare
  PROVE  ScreenInv'
<1> DEFINE frame == Head(stack)
           loop  == [frame EXCEPT !.at = "workLoop"]
<1>1. /\ FinishedInv /\ CallStack /\ AreFibers(fiber) /\ current \in Sides /\ current' = current
      /\ {"busy", "unit", "time", "effects"} \subseteq DOMAIN work /\ work.unit \in Node \cup {None}
      /\ Consistent(fiber, current) /\ At("prepare") /\ PrepareStack(frame.todo)
  BY DEF ScreenInv, FinishedInv, Prepare
<1>2. /\ stack # <<>> /\ ~At("completeUnitOfWork") /\ Quiet(Tail(stack))
      /\ "at" \in DOMAIN frame
  BY <1>1, Elsewhere
<1>3. \/ Quiet(stack')
      \/ stack' = <<loop>> \o Tail(stack)
  <2>1. ReturnContinuation(now) \/ stack' = <<loop>> \o Tail(stack)
    BY DEF Prepare, Goto
  <2> QED BY <2>1, <1>1, <1>2, ContinuationIsQuiet
<1>4. "at" \in DOMAIN loop /\ loop.at = "workLoop"
  BY <1>2
<1> HIDE DEF loop, frame
<1>5. IsSeq(stack') /\ ~At("completeUnitOfWork")'
      /\ (stack' # <<>> => "at" \in DOMAIN Head(stack') /\ Quiet(Tail(stack')))
  <2>1. CASE Quiet(stack')
    BY <2>1, QuietCallStack DEF CallStack
  <2>2. CASE stack' = <<loop>> \o Tail(stack)
    <3>1. Head(stack') = loop /\ Tail(stack') = Tail(stack) /\ IsSeq(stack')
      BY <2>2, <1>2, OnTop
    <3> QED BY <3>1, <1>2, <1>4 DEF At
  <2> QED BY <1>3, <2>1, <2>2
<1>6. CASE work.busy /\ UNCHANGED <<fiber, work, root>>
  <2>1. CallStack'
    BY <1>5, <1>6 DEF CallStack
  <2>2. CursorUntouched'
    BY <1>1, <1>2, <1>5, <1>6 DEF ScreenInv, CursorUntouched
  <2> QED BY <1>1, <1>6, <2>1, <2>2 DEF ScreenInv
<1>7. CASE /\ fiber' = WorkInProgress(fiber, Root, current)
           /\ work' = [busy |-> TRUE, unit |-> Root, time |-> frame.todo, effects |-> <<>>]
  <2>1. /\ AreFibers(fiber') /\ Consistent(fiber', current) /\ OneTree(fiber', current)
        /\ Untouched(fiber', current, Root)
    BY <1>1, <1>7, FreshTree
  <2>2. CallStack'
    BY <1>5, <1>7 DEF CallStack
  <2>3. CursorUntouched'
    BY <1>1, <1>7, <2>1, AfterNodes DEF CursorUntouched
  <2> QED BY <1>1, <1>7, <2>1, <2>2, <2>3, TreeAssumption DEF ScreenInv
<1> QED BY <1>1, <1>6, <1>7 DEF PrepareStack

\* One unit of work: the node itself was untouched, and so are those after it.
LEMMA PerformScreen ==
  ASSUME ScreenInv, FinishedInv', PerformUnitOfWork
  PROVE  ScreenInv'
<1> DEFINE n      == work.unit
           side   == SideIn(fiber, Other(current))[n]
           spawns == Kids[n] # <<>> /\ fiber'[n][side].kids # fiber[n][side].kids
           frame  == [Head(stack) EXCEPT !.at = "completeUnitOfWork"]
<1>1. /\ FinishedInv /\ CallStack /\ AreFibers(fiber) /\ current \in Sides
      /\ {"busy", "unit", "time", "effects"} \subseteq DOMAIN work /\ work.unit \in Node \cup {None}
      /\ Consistent(fiber, current) /\ At("workLoop") /\ work.unit # None
  BY DEF ScreenInv, FinishedInv, PerformUnitOfWork
<1>2. work.busy /\ ~At("completeUnitOfWork") /\ n \in Node
  BY <1>1 DEF CallStack, At
<1>3. OneTree(fiber, current) /\ \A m \in After[n] \cup {n} : Untouched(fiber, current, m)
  BY <1>1, <1>2 DEF ScreenInv, CursorUntouched
<1>4. /\ BeginWork(n, side, work.time) /\ current' = current
      /\ IF spawns THEN work' = [work EXCEPT !.unit = Head(Kids[n])] /\ stack' = stack
                   ELSE stack' = <<frame>> \o Tail(stack) /\ work' = work
      /\ root' = root
  BY DEF PerformUnitOfWork, BeginWork, Goto
<1> HIDE DEF spawns
<1>5. side \in Sides /\ fiber[n][side].state = fiber[n][Other(side)].state
  <2> DEFINE here == SideIn(fiber, current)[n]
  <2>1. side \in Sides /\ here \in Sides
    BY <1>1, <1>2, BothSides DEF Wired
  <2>2. side # here /\ fiber[n][side].kids = fiber[n][here].kids
    BY <1>3 DEF Untouched
  <2>3. fiber[n][side].state = fiber[n][here].state
    BY <1>2, <1>3, <2>2 DEF OneTree
  <2> HIDE DEF side, here
  <2>4. here = Other(side)
    BY <2>1, <2>2, Others
  <2> QED BY <2>1, <2>3, <2>4
<1>6. StillOneTree(fiber, fiber', current, n)
  <2>1. Begun(fiber, fiber', n, side)
    <3> HIDE DEF n, side
    <3> QED BY <1>1, <1>2, <1>4, <1>5, WorkBegins
  <2> HIDE DEF n
  <2> QED BY <1>1, <1>2, <1>3, <2>1, BegunTree
<1>7. /\ AreFibers(fiber') /\ Consistent(fiber', current) /\ OneTree(fiber', current)
      /\ \A m \in Node : m # n /\ Untouched(fiber, current, m) => Untouched(fiber', current, m)
      /\ spawns => \A k \in Range(Kids[n]) : Untouched(fiber', current, k)
  BY <1>6 DEF StillOneTree, spawns
<1> HIDE DEF n, side
<1>8. \A m \in After[n] : Untouched(fiber', current, m)
  BY <1>2, <1>3, <1>7, AfterNodes, NotAfterItself
<1>9. CASE spawns
  <2>1. /\ Head(Kids[n]) \in Range(Kids[n])
        /\ After[Head(Kids[n])] \subseteq Range(Kids[n]) \cup After[n]
        /\ Head(Kids[n]) \in Node
    <3>1. Kids[n] # <<>>
      BY <1>9 DEF spawns
    <3> QED BY <3>1, <1>2, FirstChild, TreeKids, TreeParent
  <2>2. /\ work'.unit = Head(Kids[n]) /\ work'.busy = work.busy
        /\ DOMAIN work' = DOMAIN work /\ stack' = stack
    BY <1>1, <1>4, <1>9
  <2>3. CallStack'
    BY <1>1, <1>2, <2>2 DEF CallStack, At
  <2>4. CursorUntouched'
    BY <1>2, <1>4, <1>7, <1>8, <1>9, <2>1, <2>2 DEF CursorUntouched, At
  <2> QED BY <1>1, <1>2, <1>4, <1>7, <2>1, <2>2, <2>3, <2>4 DEF ScreenInv
<1>10. CASE ~spawns
  <2>1. stack # <<>> /\ "at" \in DOMAIN Head(stack) /\ Quiet(Tail(stack))
    BY <1>1 DEF CallStack, At
  <2>2. "at" \in DOMAIN frame /\ frame.at = "completeUnitOfWork"
    BY <2>1
  <2>3. stack' = <<frame>> \o Tail(stack) /\ work' = work
    BY <1>4, <1>10
  <2> HIDE DEF frame
  <2>4. stack' # <<>> /\ Head(stack') = frame /\ Tail(stack') = Tail(stack) /\ IsSeq(stack')
    BY <2>1, <2>3, OnTop
  <2>5. CallStack'
    BY <1>1, <1>2, <2>1, <2>2, <2>3, <2>4 DEF CallStack, n
  <2>6. At("completeUnitOfWork")'
    BY <2>2, <2>4 DEF At
  <2>7. CursorUntouched'
    BY <1>4, <1>8, <2>3, <2>6 DEF CursorUntouched, n
  <2> QED BY <1>1, <1>4, <1>7, <2>3, <2>5, <2>7 DEF ScreenInv
<1> QED BY <1>9, <1>10

\* Going on to the next unit, which was after the fibers that are completed.
LEMMA CompleteScreen ==
  ASSUME ScreenInv, FinishedInv', CompleteUnitOfWork
  PROVE  ScreenInv'
<1> DEFINE n     == work.unit
           side  == SideIn(fiber, Other(current))
           done  == Completing[n]
           frame == [Head(stack) EXCEPT !.at = "workLoop"]
           unit  == FollowedBy(n)
<1>1. /\ FinishedInv /\ CallStack /\ AreFibers(fiber) /\ current \in Sides
      /\ {"busy", "unit", "time", "effects"} \subseteq DOMAIN work
      /\ Consistent(fiber, current) /\ At("completeUnitOfWork")
  BY DEF ScreenInv, FinishedInv, CompleteUnitOfWork
<1>2. /\ work.busy /\ n \in Node /\ n # None /\ stack # <<>>
      /\ "at" \in DOMAIN Head(stack) /\ Quiet(Tail(stack))
  BY <1>1 DEF CallStack, At
<1>3. OneTree(fiber, current)
  BY <1>2 DEF ScreenInv
<1>4. /\ fiber' = ChildTimesReset(side, done, work.time)
      /\ stack' = <<frame>> \o Tail(stack) /\ current' = current /\ root' = root
      /\ \E effects : work' = [work EXCEPT !.unit = unit, !.effects = effects]
  BY DEF CompleteUnitOfWork, Goto
<1>5. Similar(fiber, fiber')
  <2>1. side \in [Node -> Sides]
    BY <1>1, BothSides DEF Wired
  <2>2. done \in Seq(Node)
    BY <1>2, LastCompleted
  <2> HIDE DEF side, done
  <2> QED BY <1>1, <1>4, <2>1, <2>2, ResetsAreSimilar
<1>6. /\ AreFibers(fiber') /\ Consistent(fiber', current) /\ OneTree(fiber', current)
      /\ \A m \in Node : Untouched(fiber, current, m) => Untouched(fiber', current, m)
  BY <1>1, <1>3, <1>5, SimilarTrees DEF Similar
<1>7. "at" \in DOMAIN frame /\ frame.at = "workLoop"
  BY <1>2
<1> HIDE DEF frame
<1>8. stack' # <<>> /\ Head(stack') = frame /\ Tail(stack') = Tail(stack) /\ IsSeq(stack')
  BY <1>2, <1>4, OnTop
<1> HIDE DEF unit
<1>9. /\ DOMAIN work' = DOMAIN work /\ work'.unit = unit /\ work'.busy = work.busy
  BY <1>1, <1>4
<1>10. unit # None => unit \in After[n] /\ After[unit] \subseteq After[n]
  BY <1>2, NextUnit DEF unit
<1>11. unit \in Node \cup {None}
  BY <1>2, <1>10, AfterNodes
<1>12. \A m \in After[n] : Untouched(fiber', current, m)
  <2>1. \A m \in After[n] : m \in Node /\ Untouched(fiber, current, m)
    BY <1>2, AfterNodes DEF ScreenInv, CursorUntouched
  <2> QED BY <2>1, <1>6
<1> HIDE DEF n
<1>13. CallStack' /\ ~At("completeUnitOfWork")'
  BY <1>2, <1>7, <1>8, <1>9 DEF CallStack, At
<1>14. CursorUntouched'
  BY <1>4, <1>9, <1>10, <1>12, <1>13 DEF CursorUntouched
<1> QED BY <1>1, <1>4, <1>6, <1>9, <1>11, <1>13, <1>14 DEF ScreenInv

\* The last unit is done: no node is left to get to.
LEMMA FinishScreen ==
  ASSUME ScreenInv, FinishedInv', FinishRender
  PROVE  ScreenInv'
<1>1. /\ FinishedInv /\ CallStack /\ AreFibers(fiber)
      /\ {"busy", "unit", "time", "effects"} \subseteq DOMAIN work /\ work.unit \in Node \cup {None}
      /\ Consistent(fiber, current) /\ At("workLoop") /\ stack # <<>>
  BY DEF ScreenInv, FinishRender, At
<1>2. work.busy /\ OneTree(fiber, current)
  BY <1>1 DEF ScreenInv, CallStack
<1>3. /\ fiber' = fiber /\ current' = current /\ work' = [work EXCEPT !.busy = FALSE]
      /\ ReturnContinuation(Commit)
  BY DEF FinishRender, treeVars
<1>4. CallStack'
  BY <1>1, <1>3, ContinuationIsQuiet, QuietCallStack
<1>5. DOMAIN work' = DOMAIN work /\ work'.unit = work.unit /\ ~work'.busy
  BY <1>1, <1>3
<1> QED BY <1>1, <1>2, <1>3, <1>4, <1>5 DEF ScreenInv, CursorUntouched

\* The finished tree becomes the one on the screen.
LEMMA CommitScreen ==
  ASSUME ScreenInv, FinishedInv', CommitTree
  PROVE  ScreenInv'
<1> DEFINE side == SideIn(fiber, root.finishedWork)
           callbacks == FlattenSeq([i \in DOMAIN work.effects |->
                          CallbacksOf(work.effects[i], side[work.effects[i]])])
           effects == Those(work.effects, Functions)
           frame == [Head(stack) EXCEPT !.at = "layout", !.callbacks = callbacks,
                                        !.effects = effects]
<1>1. /\ FinishedInv /\ CallStack /\ AreFibers(fiber) /\ current \in Sides
      /\ Consistent(fiber, current) /\ At("commit") /\ root.finishedWork = Other(current)
      /\ OneTree(fiber, current)
  BY DEF ScreenInv, FinishedInv, CommitTree
<1>2. /\ fiber' = fiber /\ current' = Other(current)
      /\ work' = [busy |-> FALSE, unit |-> None, effects |-> <<>>,
                  time |-> IF work.busy THEN NoWork ELSE work.time]
      /\ root'.finishedWork = 0
  BY <1>1 DEF CommitTree, RootCommitted
<1>3. Quiet(Tail(stack)) /\ "at" \in DOMAIN Head(stack)
  BY <1>1, Elsewhere
<1>4. stack' = <<frame>> \o Tail(stack)
  BY DEF CommitTree, Goto
<1>5. "at" \in DOMAIN frame /\ frame.at = "layout"
  <2> HIDE DEF callbacks, effects
  <2> QED BY <1>3
<1> HIDE DEF frame
<1>6. CallStack'
  <2>1. stack' # <<>> /\ Head(stack') = frame /\ Tail(stack') = Tail(stack) /\ IsSeq(stack')
    BY <1>3, <1>4, OnTop
  <2> QED BY <1>3, <1>5, <2>1 DEF CallStack, At
<1>7. Consistent(fiber', current')
  BY <1>1, <1>2, FinishedTree
<1> QED BY <1>1, <1>2, <1>6, <1>7 DEF ScreenInv, CursorUntouched

\* Every step.
LEMMA ScreenStep == ScreenInv /\ [Next]_vars => ScreenInv'
<1> SUFFICES ASSUME ScreenInv, [Next]_vars PROVE ScreenInv'
  OBVIOUS
<1>1. FinishedInv'
  BY StepPreserves DEF ScreenInv
<1>2. CASE Stays
  BY <1>1, <1>2, StaysPreserves
<1>3. CASE UNCHANGED vars
  <2>1. /\ fiber' = fiber /\ current' = current /\ stack' = stack /\ work' = work /\ root' = root
    BY <1>3 DEF vars, treeVars, loopVars
  <2> QED BY <1>1, <2>1 DEF ScreenInv, CallStack, CursorUntouched, At
<1>4. CASE Next
  <2>1. \/ Prepare \/ CompleteUnitOfWork \/ FinishRender \/ CommitTree \/ PerformUnitOfWork
        \/ Stays
    BY <1>4, CallsStay, UpdatesStay DEF Next, Step
  <2> QED BY <2>1, <1>1, <1>2, PrepareScreen, CompleteScreen, FinishScreen,
       CommitScreen, PerformScreen
<1> QED BY <1>3, <1>4

\* No tearing: on the screen every component has the props that its parent gave it in the state
\* that it shows.
THEOREM ScreenIsOneTree == Spec => []NoTearing
<1>1. Init => ScreenInv
  BY InitScreen
<1>2. ScreenInv /\ [Next]_vars => ScreenInv'
  BY ScreenStep
<1>3. ScreenInv => NoTearing
  BY ScreenInvImplies
<1> QED BY <1>1, <1>2, <1>3, PTL DEF Spec
-----------------------------------------------------------------------------
(***************************************************************************)
(* Expiration times, for every batch size and every time of the clock: a   *)
(* bucket lies behind the time at which it was computed, by more than the  *)
(* priority's delay and by no more than one batch beyond it.               *)
(***************************************************************************)
\* Interactive updates are rounded to less than any other update's delay, as the
\* constants of ReactFiberExpirationTime.js are (150 + 100 ms, 5000 ms).
HighBeforeLow == HighExpiration + HighBatch <= LowExpiration

\* Not before the clock is about to run out.
Clock == Never + LowExpiration + LowBatch + 1 .. Offset

\* ceiling rounds up, by at least 1 and by no more than its precision.
LEMMA CeilingBounds ==
  ASSUME NEW n \in Nat, NEW p \in Nat \ {0}
  PROVE  /\ Ceiling(n, p) \in Int
         /\ n < Ceiling(n, p) /\ Ceiling(n, p) <= n + p
<1> DEFINE q == n \div p
<1>1. q \in Int /\ p * q <= n /\ n < p * q + p
  <2>1. q \in Int /\ n % p \in 0 .. p - 1 /\ n = p * q + (n % p)
    BY SMT
  <2>2. p * q \in Int
    BY <2>1
  <2> QED
    BY <2>1, <2>2
<1>2. (q + 1) * p = p * q + p
  BY <1>1, SMT
<1>3. Ceiling(n, p) = p * q + p
  BY <1>2 DEF Ceiling
<1>4. p * q \in Int
  BY <1>1
<1> HIDE DEF q
<1> QED
  BY <1>1, <1>3, <1>4

\* ... and never rounds a larger number to less.
LEMMA CeilingMonotone ==
  ASSUME NEW m \in Nat, NEW n \in Nat, m <= n, NEW p \in Nat \ {0}
  PROVE  Ceiling(m, p) <= Ceiling(n, p)
<1>1. m \div p \in Int /\ n \div p \in Int /\ m \div p <= n \div p
  BY SMT
<1>2. (m \div p + 1) * p <= (n \div p + 1) * p
  BY <1>1, SMT
<1> QED
  BY <1>2 DEF Ceiling

\* A bucket is behind the clock by the delay and by one batch at most.
LEMMA BucketBounds ==
  ASSUME NEW time \in Int, time <= Offset,
         NEW delay \in Nat, NEW batch \in Nat \ {0}
  PROVE  /\ Bucket(time, delay, batch) \in Int
         /\ Bucket(time, delay, batch) < time - delay
         /\ time - delay - batch <= Bucket(time, delay, batch)
<1> DEFINE n == Offset - time + delay
<1>1. Offset \in Nat
  BY ExpirationAssumption
<1>2. n \in Nat
  BY <1>1
<1>3. /\ Ceiling(n, batch) \in Int
      /\ n < Ceiling(n, batch) /\ Ceiling(n, batch) <= n + batch
  BY <1>2, CeilingBounds
<1> QED
  BY <1>1, <1>3 DEF Bucket

\* The constants, one by one.
LEMMA ConstantTypes ==
  /\ Offset \in Nat /\ HighExpiration \in Nat /\ LowExpiration \in Nat
  /\ HighBatch \in Nat \ {0} /\ LowBatch \in Nat \ {0}
BY ExpirationAssumption

\* An update is not expired when it is made: its level is below the time, and an
\* interactive one has to be rendered before any other one of that time.
THEOREM LevelsInOrder ==
  ASSUME HighBeforeLow, NEW time \in Clock
  PROVE  /\ Never < ExpirationOf(time, "normal")
         /\ ExpirationOf(time, "normal") < ExpirationOf(time, "userBlocking")
         /\ ExpirationOf(time, "userBlocking") < time /\ time < Sync
<1>1. time \in Int /\ time <= Offset /\ Never + LowExpiration + LowBatch + 1 <= time
  BY ConstantTypes DEF Clock, Never
<1>2. /\ ExpirationOf(time, "normal") \in Int
      /\ ExpirationOf(time, "normal") < time - LowExpiration
      /\ time - LowExpiration - LowBatch <= ExpirationOf(time, "normal")
  BY <1>1, ConstantTypes, BucketBounds DEF ExpirationOf
<1>3. /\ ExpirationOf(time, "userBlocking") \in Int
      /\ ExpirationOf(time, "userBlocking") < time - HighExpiration
      /\ time - HighExpiration - HighBatch <= ExpirationOf(time, "userBlocking")
  BY <1>1, ConstantTypes, BucketBounds DEF ExpirationOf
<1> QED
  BY <1>1, <1>2, <1>3, ConstantTypes DEF HighBeforeLow, Never, Sync

\* Of two updates of one priority the one that was made first is never rendered
\* after the other (inferred from the levels alone).
THEOREM EarlierIsNotLess ==
  ASSUME NEW early \in Clock, NEW late \in Clock, late <= early,
         NEW priority \in Priorities
  PROVE  ExpirationOf(late, priority) <= ExpirationOf(early, priority)
<1>1. /\ early \in Int /\ early <= Offset /\ late \in Int
  BY ConstantTypes DEF Clock, Never
<1>2. ASSUME NEW delay \in Nat, NEW batch \in Nat \ {0}
      PROVE  Bucket(late, delay, batch) <= Bucket(early, delay, batch)
  <2> DEFINE m == Offset - early + delay
             n == Offset - late + delay
  <2>1. m \in Nat /\ n \in Nat /\ m <= n
    BY <1>1, ConstantTypes
  <2>2. Ceiling(m, batch) <= Ceiling(n, batch)
    BY <2>1, CeilingMonotone
  <2>3. Ceiling(m, batch) \in Int /\ Ceiling(n, batch) \in Int
    BY <2>1, CeilingBounds
  <2> HIDE DEF m, n
  <2>4. Offset - Ceiling(n, batch) <= Offset - Ceiling(m, batch)
    BY <2>2, <2>3, ConstantTypes
  <2> QED
    BY <2>4 DEF Bucket, m, n
<1>3. CASE priority = "immediate"
  BY <1>3, ConstantTypes DEF ExpirationOf, Sync
<1>4. CASE priority = "userBlocking"
  BY <1>2, <1>4, ConstantTypes DEF ExpirationOf
<1>5. CASE priority = "normal"
  BY <1>2, <1>5, ConstantTypes DEF ExpirationOf
<1>6. CASE priority = "idle"
  BY <1>6 DEF ExpirationOf, Never
<1> QED
  BY <1>3, <1>4, <1>5, <1>6 DEF Priorities

\* inferPriorityFromExpirationTime gives back the priority that an update has just
\* got its level from: its root is scheduled as the update was.
THEOREM PriorityIsInferred ==
  ASSUME HighBeforeLow, NEW time \in Clock, NEW priority \in Priorities
  PROVE  PriorityOf(time, ExpirationOf(time, priority)) = priority
<1>1. time \in Int /\ time <= Offset /\ Never + LowExpiration + LowBatch + 1 <= time
  BY ConstantTypes DEF Clock, Never
<1>2. CASE priority = "immediate"
  BY <1>2 DEF ExpirationOf, PriorityOf
<1>3. CASE priority = "idle"
  <2>1. ExpirationOf(time, priority) = Never /\ Never # Sync
    BY <1>3, ConstantTypes DEF ExpirationOf, Never, Sync
  <2> QED
    BY <1>3, <2>1 DEF PriorityOf
<1>4. CASE priority = "userBlocking"
  <2> DEFINE fresh == ExpirationOf(time, "userBlocking")
  <2>1. /\ fresh \in Int /\ fresh < time
        /\ time - HighExpiration - HighBatch <= fresh
    BY <1>1, ConstantTypes, BucketBounds DEF ExpirationOf
  <2>2. fresh # Never /\ fresh # Sync
    BY LevelsInOrder, <2>1, <1>1, ConstantTypes DEF Never, Sync, HighBeforeLow
  <2>3. time - fresh <= HighExpiration + HighBatch /\ ~(time <= fresh)
    BY <1>1, <2>1, ConstantTypes
  <2> HIDE DEF fresh
  <2>4. PriorityOf(time, fresh) = "userBlocking"
    BY <2>2, <2>3 DEF PriorityOf
  <2> QED
    BY <1>4, <2>4 DEF fresh
<1>5. CASE priority = "normal"
  <2> DEFINE fresh == ExpirationOf(time, "normal")
  <2>1. /\ fresh \in Int /\ fresh < time - LowExpiration
        /\ time - LowExpiration - LowBatch <= fresh
    BY <1>1, ConstantTypes, BucketBounds DEF ExpirationOf
  <2>2. fresh # Never /\ fresh # Sync
    BY <2>1, <1>1, ConstantTypes DEF Never, Sync
  <2>3. /\ ~(time - fresh <= HighExpiration + HighBatch)
        /\ time - fresh <= LowExpiration + LowBatch /\ ~(time <= fresh)
    BY <1>1, <2>1, ConstantTypes DEF HighBeforeLow
  <2> HIDE DEF fresh
  <2>4. PriorityOf(time, fresh) = "normal"
    BY <2>2, <2>3 DEF PriorityOf
  <2> QED
    BY <1>5, <2>4 DEF fresh
<1> QED
  BY <1>2, <1>3, <1>4, <1>5 DEF Priorities
-----------------------------------------------------------------------------
(***************************************************************************)
(* The updates: what the loops over them compute, for every list.          *)
(***************************************************************************)
\* The results that a loop over a list has after each of its elements.
InTurn(f, n, base, V) == f \in [0 .. n -> V] /\ f[0] = base

\* An update makes a state of a state.
LEMMA AppliedIsState ==
  ASSUME NEW U, NEW x \in Seq(U), NEW u \in U
  PROVE  Applied(x, u) \in Seq(U)
<1>1. CASE u \in Noops
  BY <1>1 DEF Applied
<1>2. CASE u \notin Noops /\ u \in Replacing
  BY <1>2 DEF Applied
<1>3. CASE u \notin Noops /\ u \notin Replacing
  BY <1>3 DEF Applied
<1> QED BY <1>1, <1>2, <1>3

\* AppliedSome, one update after the other.
LEMMA AppliedInTurn ==
  ASSUME NEW U, NEW state \in Seq(U), NEW updates \in Seq(U), NEW some
  PROVE  \E f : /\ InTurn(f, Len(updates), state, Seq(U))
                /\ f[Len(updates)] = AppliedSome(state, updates, some)
                /\ \A i \in 1 .. Len(updates) :
                     f[i] = IF updates[i] \in some THEN Applied(f[i - 1], updates[i])
                            ELSE f[i - 1]
<1> DEFINE n   == Len(updates)
           V   == Seq(U)
           act == [i \in 1 .. n |-> [v \in V |->
                    IF updates[i] \in some THEN Applied(v, updates[i]) ELSE v]]
           Eq(f) == f = [i \in 0 .. n |-> IF i = 0 THEN state
                           ELSE IF updates[i] \in some THEN Applied(f[i - 1], updates[i])
                           ELSE f[i - 1]]
<1>1. n \in Nat /\ \A i \in 1 .. n : updates[i] \in U
  OBVIOUS
<1>2. \A i \in 1 .. n, v \in V :
        /\ act[i][v] = IF updates[i] \in some THEN Applied(v, updates[i]) ELSE v
        /\ act[i][v] \in V
  BY <1>1, AppliedIsState
<1> HIDE DEF act, n
<1>3. PICK f \in [0 .. n -> V] : Counts(f, n, state, act)
  <2>1. state \in V /\ \A i \in 1 .. n : \A v \in V : act[i][v] \in V
    BY <1>2
  <2> HIDE DEF V
  <2> QED BY <1>1, <2>1, CountingUp
<1>4. Eq(f)
  <2>1. \A i \in 1 .. n : i - 1 \in 0 .. n /\ f[i - 1] \in V
    BY <1>1, <1>3
  <2>2. \A i \in 0 .. n : i = 0 \/ i \in 1 .. n
    BY <1>1
  <2> HIDE DEF V
  <2> QED BY <1>2, <1>3, <2>1, <2>2 DEF Counts
<1>5. \E g : Eq(g)
  BY <1>4
<1> DEFINE h == CHOOSE g : Eq(g)
<1>6. AppliedSome(state, updates, some) = h[n] /\ Eq(h)
  BY <1>5, Zenon DEF AppliedSome, n
<1> HIDE DEF h
<1>7. h[0] = state /\ \A i \in 1 .. n :
        h[i] = IF updates[i] \in some THEN Applied(h[i - 1], updates[i]) ELSE h[i - 1]
  BY <1>1, <1>6
<1> HIDE DEF V
<1> DEFINE Good == { i \in 0 .. n : h[i] \in V }
<1>8. 0 .. n \subseteq Good
  <2>1. 0 \in Good
    BY <1>1, <1>7 DEF V
  <2>2. \A i \in 1 .. n : i - 1 \in Good => i \in Good
    <3> SUFFICES ASSUME NEW i \in 1 .. n, h[i - 1] \in V PROVE h[i] \in V
      BY <1>1
    <3>1. updates[i] \in U /\ h[i] = IF updates[i] \in some THEN Applied(h[i - 1], updates[i])
                                    ELSE h[i - 1]
      BY <1>1, <1>7
    <3> QED BY <3>1, AppliedIsState DEF V
  <2> HIDE DEF Good
  <2> QED BY <1>1, <2>1, <2>2, UpTo
<1>9. h = [i \in 0 .. n |-> h[i]]
  BY <1>6
<1>10. h \in [0 .. n -> V]
  BY <1>8, <1>9
<1> QED BY <1>6, <1>7, <1>10 DEF InTurn, n, V

\* What a hook does with an update.
LEMMA HookAppliedIsState ==
  ASSUME NEW U, \A u \in U : eager[u] = <<>> \/ eager[u][1] \in Seq(U),
         NEW x \in Seq(U), NEW u \in U
  PROVE  HookApplied(x, u) \in Seq(U)
BY AppliedIsState DEF HookApplied

\* HookAppliedSome, one update after the other.
LEMMA HookAppliedInTurn ==
  ASSUME NEW U, \A u \in U : eager[u] = <<>> \/ eager[u][1] \in Seq(U),
         NEW state \in Seq(U), NEW updates \in Seq(U), NEW some
  PROVE  \E f : /\ InTurn(f, Len(updates), state, Seq(U))
                /\ f[Len(updates)] = HookAppliedSome(state, updates, some)
                /\ \A i \in 1 .. Len(updates) :
                     f[i] = IF updates[i] \in some THEN HookApplied(f[i - 1], updates[i])
                            ELSE f[i - 1]
<1> DEFINE n   == Len(updates)
           V   == Seq(U)
           act == [i \in 1 .. n |-> [v \in V |->
                    IF updates[i] \in some THEN HookApplied(v, updates[i]) ELSE v]]
           Eq(f) == f = [i \in 0 .. n |-> IF i = 0 THEN state
                           ELSE IF updates[i] \in some THEN HookApplied(f[i - 1], updates[i])
                           ELSE f[i - 1]]
<1>1. n \in Nat /\ \A i \in 1 .. n : updates[i] \in U
  OBVIOUS
<1>2. \A i \in 1 .. n, v \in V :
        /\ act[i][v] = IF updates[i] \in some THEN HookApplied(v, updates[i]) ELSE v
        /\ act[i][v] \in V
  BY <1>1, HookAppliedIsState
<1> HIDE DEF act, n
<1>3. PICK f \in [0 .. n -> V] : Counts(f, n, state, act)
  <2>1. state \in V /\ \A i \in 1 .. n : \A v \in V : act[i][v] \in V
    BY <1>2
  <2> HIDE DEF V
  <2> QED BY <1>1, <2>1, CountingUp
<1>4. Eq(f)
  <2>1. \A i \in 1 .. n : i - 1 \in 0 .. n /\ f[i - 1] \in V
    BY <1>1, <1>3
  <2>2. \A i \in 0 .. n : i = 0 \/ i \in 1 .. n
    BY <1>1
  <2> HIDE DEF V
  <2> QED BY <1>2, <1>3, <2>1, <2>2 DEF Counts
<1>5. \E g : Eq(g)
  BY <1>4
<1> DEFINE h == CHOOSE g : Eq(g)
<1>6. HookAppliedSome(state, updates, some) = h[n] /\ Eq(h)
  BY <1>5, Zenon DEF HookAppliedSome, n
<1> HIDE DEF h
<1>7. h[0] = state /\ \A i \in 1 .. n :
        h[i] = IF updates[i] \in some THEN HookApplied(h[i - 1], updates[i]) ELSE h[i - 1]
  BY <1>1, <1>6
<1> HIDE DEF V
<1> DEFINE Good == { i \in 0 .. n : h[i] \in V }
<1>8. 0 .. n \subseteq Good
  <2>1. 0 \in Good
    BY <1>1, <1>7 DEF V
  <2>2. \A i \in 1 .. n : i - 1 \in Good => i \in Good
    <3> SUFFICES ASSUME NEW i \in 1 .. n, h[i - 1] \in V PROVE h[i] \in V
      BY <1>1
    <3>1. updates[i] \in U /\ h[i] = IF updates[i] \in some THEN HookApplied(h[i - 1], updates[i])
                                    ELSE h[i - 1]
      BY <1>1, <1>7
    <3> QED BY <3>1, HookAppliedIsState DEF V
  <2> HIDE DEF Good
  <2> QED BY <1>1, <2>1, <2>2, UpTo
<1>9. h = [i \in 0 .. n |-> h[i]]
  BY <1>6
<1>10. h \in [0 .. n -> V]
  BY <1>8, <1>9
<1> QED BY <1>6, <1>7, <1>10 DEF InTurn, n, V

\* Those, one element after the other.
LEMMA ThoseInTurn ==
  ASSUME NEW U, NEW list \in Seq(U), NEW some
  PROVE  \E f : /\ InTurn(f, Len(list), <<>>, Seq(U))
                /\ f[Len(list)] = Those(list, some)
                /\ \A i \in 1 .. Len(list) :
                     f[i] = IF list[i] \in some THEN Append(f[i - 1], list[i])
                            ELSE f[i - 1]
<1> DEFINE n   == Len(list)
           V   == Seq(U)
           act == [i \in 1 .. n |-> [v \in V |->
                    IF list[i] \in some THEN Append(v, list[i]) ELSE v]]
           Eq(f) == f = [i \in 0 .. n |-> IF i = 0 THEN <<>>
                           ELSE IF list[i] \in some THEN Append(f[i - 1], list[i])
                           ELSE f[i - 1]]
<1>1. n \in Nat /\ \A i \in 1 .. n : list[i] \in U
  OBVIOUS
<1>2. \A i \in 1 .. n, v \in V :
        /\ act[i][v] = IF list[i] \in some THEN Append(v, list[i]) ELSE v
        /\ act[i][v] \in V
  BY <1>1
<1> HIDE DEF act, n
<1>3. PICK f \in [0 .. n -> V] : Counts(f, n, <<>>, act)
  <2>1. <<>> \in V /\ \A i \in 1 .. n : \A v \in V : act[i][v] \in V
    BY <1>2
  <2> HIDE DEF V
  <2> QED BY <1>1, <2>1, CountingUp
<1>4. Eq(f)
  <2>1. \A i \in 1 .. n : i - 1 \in 0 .. n /\ f[i - 1] \in V
    BY <1>1, <1>3
  <2>2. \A i \in 0 .. n : i = 0 \/ i \in 1 .. n
    BY <1>1
  <2> HIDE DEF V
  <2> QED BY <1>2, <1>3, <2>1, <2>2 DEF Counts
<1>5. \E g : Eq(g)
  BY <1>4
<1> DEFINE h == CHOOSE g : Eq(g)
<1>6. Those(list, some) = h[n] /\ Eq(h)
  BY <1>5, Zenon DEF Those, n
<1> HIDE DEF h
<1>7. h[0] = <<>> /\ \A i \in 1 .. n :
        h[i] = IF list[i] \in some THEN Append(h[i - 1], list[i]) ELSE h[i - 1]
  <2>1. 0 \in 0 .. n /\ \A i \in 1 .. n : i \in 0 .. n /\ i # 0
    BY <1>1
  <2> QED BY <1>6, <2>1, ZenonT(60)
<1> HIDE DEF V
<1> DEFINE Good == { i \in 0 .. n : h[i] \in V }
<1>8. 0 .. n \subseteq Good
  <2>1. 0 \in Good
    <3>1. <<>> \in V
      BY DEF V
    <3> QED BY <1>1, <1>7, <3>1
  <2>2. \A i \in 1 .. n : i - 1 \in Good => i \in Good
    <3> SUFFICES ASSUME NEW i \in 1 .. n, h[i - 1] \in V PROVE h[i] \in V
      BY <1>1
    <3>1. list[i] \in U /\ h[i] = IF list[i] \in some THEN Append(h[i - 1], list[i])
                                    ELSE h[i - 1]
      BY <1>1, <1>7
    <3>2. Append(h[i - 1], list[i]) \in V
      BY <3>1 DEF V
    <3> QED BY <3>1, <3>2
  <2> HIDE DEF Good
  <2> QED BY <1>1, <2>1, <2>2, UpTo
<1>9. h = [i \in 0 .. n |-> h[i]]
  BY <1>6
<1>10. h \in [0 .. n -> V]
  BY <1>8, <1>9
<1> QED BY <1>6, <1>7, <1>10 DEF InTurn, n, V

\* What an abstract state is the result of.
LEMMA ResultInTurn ==
  ASSUME NEW U, NEW updates \in Seq(U), NEW some
  PROVE  \E f : /\ InTurn(f, Len(updates), <<>>, Seq(U))
                /\ f[Len(updates)] = States!Result(updates, some)
                /\ \A i \in 1 .. Len(updates) :
                     f[i] = IF updates[i] \in some THEN Applied(f[i - 1], updates[i])
                            ELSE f[i - 1]
<1> DEFINE n   == Len(updates)
           V   == Seq(U)
           act == [i \in 1 .. n |-> [v \in V |->
                    IF updates[i] \in some THEN Applied(v, updates[i]) ELSE v]]
           Eq(f) == f = [i \in 0 .. n |-> IF i = 0 THEN <<>>
                           ELSE IF updates[i] \in some THEN Applied(f[i - 1], updates[i])
                           ELSE f[i - 1]]
<1>1. n \in Nat /\ \A i \in 1 .. n : updates[i] \in U
  OBVIOUS
<1>2. \A i \in 1 .. n, v \in V :
        /\ act[i][v] = IF updates[i] \in some THEN Applied(v, updates[i]) ELSE v
        /\ act[i][v] \in V
  BY <1>1, AppliedIsState
<1> HIDE DEF act, n
<1>3. PICK f \in [0 .. n -> V] : Counts(f, n, <<>>, act)
  <2>1. <<>> \in V /\ \A i \in 1 .. n : \A v \in V : act[i][v] \in V
    BY <1>2
  <2> HIDE DEF V
  <2> QED BY <1>1, <2>1, CountingUp
<1>4. Eq(f)
  <2>1. \A i \in 1 .. n : i - 1 \in 0 .. n /\ f[i - 1] \in V
    BY <1>1, <1>3
  <2>2. \A i \in 0 .. n : i = 0 \/ i \in 1 .. n
    BY <1>1
  <2> HIDE DEF V
  <2> QED BY <1>2, <1>3, <2>1, <2>2 DEF Counts
<1>5. \E g : Eq(g)
  BY <1>4
<1> DEFINE h == CHOOSE g : Eq(g)
<1>6. States!Result(updates, some) = h[n] /\ Eq(h)
  <2>1. \A x, u : States!Applied(x, u) = Applied(x, u)
    BY Zenon DEF Applied, States!Applied
  <2> QED BY <1>5, <2>1, Zenon DEF States!Result, n
<1> HIDE DEF h
<1>7. h[0] = <<>> /\ \A i \in 1 .. n :
        h[i] = IF updates[i] \in some THEN Applied(h[i - 1], updates[i]) ELSE h[i - 1]
  BY <1>1, <1>6
<1> HIDE DEF V
<1> DEFINE Good == { i \in 0 .. n : h[i] \in V }
<1>8. 0 .. n \subseteq Good
  <2>1. 0 \in Good
    <3>1. <<>> \in V
      BY DEF V
    <3> QED BY <1>1, <1>7, <3>1
  <2>2. \A i \in 1 .. n : i - 1 \in Good => i \in Good
    <3> SUFFICES ASSUME NEW i \in 1 .. n, h[i - 1] \in V PROVE h[i] \in V
      BY <1>1
    <3>1. updates[i] \in U /\ h[i] = IF updates[i] \in some THEN Applied(h[i - 1], updates[i])
                                    ELSE h[i - 1]
      BY <1>1, <1>7
    <3> QED BY <3>1, AppliedIsState DEF V
  <2> HIDE DEF Good
  <2> QED BY <1>1, <2>1, <2>2, UpTo
<1>9. h = [i \in 0 .. n |-> h[i]]
  BY <1>6
<1>10. h \in [0 .. n -> V]
  BY <1>8, <1>9
<1> QED BY <1>6, <1>7, <1>10 DEF InTurn, n, V
-----------------------------------------------------------------------------
\* The states that some of the first k updates of a list make of the initial one.
Possible(h) ==
  LET states[k \in 0 .. Len(h)] ==
        IF k = 0 THEN {<<>>}
        ELSE states[k - 1] \cup { Applied(x, h[k]) : x \in states[k - 1] }
  IN  states

LEMMA PossibleStates ==
  ASSUME NEW U, NEW h \in Seq(U)
  PROVE  /\ \A k \in 0 .. Len(h) : Possible(h)[k] \subseteq Seq(U)
         /\ Possible(h)[0] = {<<>>}
         /\ \A k \in 1 .. Len(h) :
              Possible(h)[k] =
                Possible(h)[k - 1] \cup { Applied(x, h[k]) : x \in Possible(h)[k - 1] }
<1> DEFINE n   == Len(h)
           V   == SUBSET Seq(U)
           act == [i \in 1 .. n |-> [v \in V |-> v \cup { Applied(x, h[i]) : x \in v }]]
           Eq(f) == f = [k \in 0 .. n |-> IF k = 0 THEN {<<>>}
                           ELSE f[k - 1] \cup { Applied(x, h[k]) : x \in f[k - 1] }]
<1>1. n \in Nat /\ \A i \in 1 .. n : h[i] \in U
  OBVIOUS
<1>2. \A i \in 1 .. n, v \in V :
        act[i][v] = v \cup { Applied(x, h[i]) : x \in v } /\ act[i][v] \in V
  <2> SUFFICES ASSUME NEW i \in 1 .. n, NEW v \in V
               PROVE  act[i][v] = v \cup { Applied(x, h[i]) : x \in v } /\ act[i][v] \in V
    OBVIOUS
  <2>1. \A x \in v : Applied(x, h[i]) \in Seq(U)
    BY <1>1, AppliedIsState
  <2> QED BY <2>1
<1> HIDE DEF act, n
<1>3. PICK f \in [0 .. n -> V] : Counts(f, n, {<<>>}, act)
  <2>1. {<<>>} \in V /\ \A i \in 1 .. n : \A v \in V : act[i][v] \in V
    BY <1>2
  <2> HIDE DEF V
  <2> QED BY <1>1, <2>1, CountingUp
<1>4. Eq(f)
  <2>1. \A i \in 1 .. n : i - 1 \in 0 .. n /\ f[i - 1] \in V
    BY <1>1, <1>3
  <2>2. \A i \in 0 .. n : i = 0 \/ i \in 1 .. n
    BY <1>1
  <2> HIDE DEF V
  <2>3. \A i \in 1 .. n :
          act[i][f[i - 1]] = f[i - 1] \cup { Applied(x, h[i]) : x \in f[i - 1] }
    BY <1>2, <2>1, Zenon
  <2>4. f = [k \in 0 .. n |-> IF k = 0 THEN {<<>>} ELSE act[k][f[k - 1]]]
    BY <1>3 DEF Counts
  <2> HIDE DEF act
  <2>5. \A k \in 0 .. n : (IF k = 0 THEN {<<>>} ELSE act[k][f[k - 1]])
                           = IF k = 0 THEN {<<>>}
                             ELSE f[k - 1] \cup { Applied(x, h[k]) : x \in f[k - 1] }
    BY <2>2, <2>3, Zenon
  <2> QED BY <2>4, <2>5, Zenon
<1>5. \E g : Eq(g)
  BY <1>4
<1> DEFINE p == CHOOSE g : Eq(g)
<1>6. Possible(h) = p /\ Eq(p)
  BY <1>5, Zenon DEF Possible, n
<1> HIDE DEF p
<1>7. /\ p[0] = {<<>>}
      /\ \A i \in 1 .. n : p[i] = p[i - 1] \cup { Applied(x, h[i]) : x \in p[i - 1] }
  <2>1. 0 \in 0 .. n /\ \A i \in 1 .. n : i \in 0 .. n /\ i # 0
    BY <1>1
  <2> QED BY <1>6, <2>1, ZenonT(60)
<1> DEFINE Good == { i \in 0 .. n : p[i] \subseteq Seq(U) }
<1>8. 0 .. n \subseteq Good
  <2>1. 0 \in Good
    <3>1. {<<>>} \subseteq Seq(U) /\ 0 \in 0 .. n
      BY <1>1
    <3> QED BY <1>7, <3>1, Zenon
  <2>2. \A i \in 1 .. n : i - 1 \in Good => i \in Good
    <3> SUFFICES ASSUME NEW i \in 1 .. n, p[i - 1] \subseteq Seq(U) PROVE p[i] \subseteq Seq(U)
      BY <1>1
    <3>1. h[i] \in U /\ p[i] = p[i - 1] \cup { Applied(x, h[i]) : x \in p[i - 1] }
      BY <1>1, <1>7
    <3>2. \A x \in p[i - 1] : Applied(x, h[i]) \in Seq(U)
      BY <3>1, AppliedIsState
    <3> QED BY <3>1, <3>2, Zenon
  <2> HIDE DEF Good
  <2> QED BY <1>1, <2>1, <2>2, UpTo
<1> QED BY <1>6, <1>7, <1>8 DEF n

\* One more update.
LEMMA PossibleNext ==
  ASSUME NEW U, NEW h \in Seq(U), NEW k \in 1 .. Len(h), NEW x \in Possible(h)[k - 1]
  PROVE  x \in Possible(h)[k] /\ Applied(x, h[k]) \in Possible(h)[k]
BY PossibleStates

\* Updates need not be applied.
LEMMA PossibleStays ==
  ASSUME NEW U, NEW h \in Seq(U), NEW k \in 0 .. Len(h), NEW j \in 0 .. k
  PROVE  Possible(h)[j] \subseteq Possible(h)[k]
<1> DEFINE Good == { i \in 0 .. Len(h) : j <= i => Possible(h)[j] \subseteq Possible(h)[i] }
<1>1. Len(h) \in Nat
  OBVIOUS
<1>2. 0 \in Good
  BY <1>1
<1>3. \A i \in 1 .. Len(h) : i - 1 \in Good => i \in Good
  <2> SUFFICES ASSUME NEW i \in 1 .. Len(h), i - 1 \in Good, j <= i
               PROVE  Possible(h)[j] \subseteq Possible(h)[i]
    BY <1>1
  <2>1. CASE j = i
    BY <2>1
  <2>2. CASE j # i
    <3>1. j <= i - 1
      BY <2>2
    <3>2. Possible(h)[j] \subseteq Possible(h)[i - 1]
      BY <3>1
    <3> QED BY <3>2, PossibleNext
  <2> QED BY <2>1, <2>2
<1> HIDE DEF Good
<1>4. 0 .. Len(h) \subseteq Good
  BY <1>1, <1>2, <1>3, UpTo
<1> QED BY <1>4 DEF Good

\* What comes later makes no difference.
LEMMA PossibleFront ==
  ASSUME NEW U, NEW g \in Seq(U), NEW h \in Seq(U), NEW n \in 0 .. Len(g), n <= Len(h),
         \A i \in 1 .. n : g[i] = h[i]
  PROVE  \A k \in 0 .. n : Possible(g)[k] = Possible(h)[k]
<1> DEFINE Good == { k \in 0 .. n : Possible(g)[k] = Possible(h)[k] }
<1>1. n \in Nat /\ 0 \in 0 .. n
  OBVIOUS
<1>2. 0 \in Good
  BY <1>1, PossibleStates, Zenon
<1>3. \A k \in 1 .. n : k - 1 \in Good => k \in Good
  <2> SUFFICES ASSUME NEW k \in 1 .. n, Possible(g)[k - 1] = Possible(h)[k - 1]
               PROVE  Possible(g)[k] = Possible(h)[k]
    OBVIOUS
  <2>1. k \in 1 .. Len(g) /\ k \in 1 .. Len(h) /\ g[k] = h[k]
    OBVIOUS
  <2>2. /\ Possible(g)[k] = Possible(g)[k - 1] \cup { Applied(x, g[k]) : x \in Possible(g)[k - 1] }
        /\ Possible(h)[k] = Possible(h)[k - 1] \cup { Applied(x, h[k]) : x \in Possible(h)[k - 1] }
    BY <2>1, PossibleStates
  <2> QED BY <2>1, <2>2
<1> HIDE DEF Good
<1>4. 0 .. n \subseteq Good
  BY <1>1, <1>2, <1>3, UpTo
<1> QED BY <1>4 DEF Good

\* A loop over the last updates of a list that applies some of them.
LEMMA LoopReaches ==
  ASSUME NEW U, NEW h \in Seq(U), NEW b \in 0 .. Len(h), NEW n, n = Len(h) - b, NEW f,
         f[0] \in Possible(h)[b],
         \A i \in 1 .. n : \/ f[i] = f[i - 1] \/ f[i] = Applied(f[i - 1], h[b + i])
                           \/ f[i] \in Possible(h)[b + i]
  PROVE  \A i \in 0 .. n : f[i] \in Possible(h)[b + i]
<1> DEFINE Good == { i \in 0 .. n : f[i] \in Possible(h)[b + i] }
<1>1. n \in Nat /\ Len(h) \in Nat /\ 0 \in 0 .. n /\ b + 0 = b
  OBVIOUS
<1>2. 0 \in Good
  BY <1>1
<1>3. \A i \in 1 .. n : i - 1 \in Good => i \in Good
  <2> SUFFICES ASSUME NEW i \in 1 .. n, f[i - 1] \in Possible(h)[b + (i - 1)]
               PROVE  f[i] \in Possible(h)[b + i]
    OBVIOUS
  <2>1. b + i \in 1 .. Len(h) /\ b + (i - 1) = (b + i) - 1
    BY <1>1
  <2>2. f[i - 1] \in Possible(h)[b + i] /\ Applied(f[i - 1], h[b + i]) \in Possible(h)[b + i]
    BY <2>1, PossibleNext
  <2> QED BY <2>2
<1> HIDE DEF Good
<1>4. 0 .. n \subseteq Good
  BY <1>1, <1>2, <1>3, UpTo
<1> QED BY <1>4 DEF Good

\* A loop that does nothing after some turn ends with what it has then.
LEMMA LoopSettles ==
  ASSUME NEW n \in Nat, NEW f, NEW m \in 0 .. n, \A i \in 1 .. n : i > m => f[i] = f[i - 1]
  PROVE  f[n] = f[m]
<1> DEFINE Good == { i \in 0 .. n : i >= m => f[i] = f[m] }
<1>1. 0 \in Good
  OBVIOUS
<1>2. \A i \in 1 .. n : i - 1 \in Good => i \in Good
  <2> SUFFICES ASSUME NEW i \in 1 .. n, i - 1 \in Good, i >= m PROVE f[i] = f[m]
    OBVIOUS
  <2>1. CASE i = m
    BY <2>1
  <2>2. CASE i # m
    BY <2>2
  <2> QED BY <2>1, <2>2
<1> HIDE DEF Good
<1>3. 0 .. n \subseteq Good
  BY <1>1, <1>2, UpTo
<1> QED BY <1>3 DEF Good

\* Each state that is possible is what some of the updates make of the initial one.
LEMMA PossibleIsResult ==
  ASSUME NEW U, NEW h \in Seq(U), IsInjective(h), NEW x \in Possible(h)[Len(h)]
  PROVE  \E some \in SUBSET Range(h) : x = States!Result(h, some)
<1> DEFINE n == Len(h)
           Path(f, k, some) ==
             /\ f[0] = <<>>
             /\ \A i \in 1 .. k : f[i] = IF h[i] \in some THEN Applied(f[i - 1], h[i]) ELSE f[i - 1]
           First(k) == { h[i] : i \in 1 .. k }
           Good == { k \in 0 .. n : \A y \in Possible(h)[k] :
                       \E some \in SUBSET First(k) : \E f : Path(f, k, some) /\ f[k] = y }
<1>1. n \in Nat /\ 0 \in 0 .. n /\ n \in 0 .. n /\ DOMAIN h = 1 .. n
  OBVIOUS
<1>2. 0 \in Good
  <2> SUFFICES ASSUME NEW y \in Possible(h)[0]
               PROVE  \E some \in SUBSET First(0) : \E f : Path(f, 0, some) /\ f[0] = y
    BY <1>1
  <2>1. y = <<>>
    BY PossibleStates
  <2>2. Path([i \in 0 .. 0 |-> <<>>], 0, {}) /\ [i \in 0 .. 0 |-> <<>>][0] = y
    BY <2>1
  <2>3. {} \in SUBSET First(0)
    OBVIOUS
  <2> HIDE DEF Path, First
  <2> QED BY <2>2, <2>3
<1>3. \A k \in 1 .. n : k - 1 \in Good => k \in Good
  <2> SUFFICES ASSUME NEW k \in 1 .. n, k - 1 \in Good, NEW y \in Possible(h)[k]
               PROVE  \E some \in SUBSET First(k) : \E f : Path(f, k, some) /\ f[k] = y
    <3>1. 1 .. n \subseteq 0 .. n
      BY <1>1
    <3> HIDE DEF Path, First
    <3> QED BY <3>1, Zenon
  <2>1. PICK z \in Possible(h)[k - 1] : y = z \/ y = Applied(z, h[k])
    <3>1. Possible(h)[k] =
            Possible(h)[k - 1] \cup { Applied(z, h[k]) : z \in Possible(h)[k - 1] }
      BY PossibleStates
    <3> QED BY <3>1, Zenon
  <2>a. PICK some \in SUBSET First(k - 1) : \E f : Path(f, k - 1, some) /\ f[k - 1] = z
    <3> HIDE DEF Path, First
    <3> QED BY DEF Good
  <2>2. PICK f : Path(f, k - 1, some) /\ f[k - 1] = z
    BY <2>a, Zenon
  <2> DEFINE more == IF y = z THEN some ELSE some \cup {h[k]}
             g    == [i \in 0 .. k |-> IF i = k THEN y ELSE f[i]]
  <2>3. \A i \in 1 .. k - 1 : h[i] # h[k]
    BY <1>1 DEF IsInjective
  <2>4. h[k] \notin some /\ more \in SUBSET First(k)
    <3>1. First(k - 1) \subseteq First(k) /\ h[k] \in First(k) /\ h[k] \notin First(k - 1)
      BY <1>1, <2>3
    <3> HIDE DEF First
    <3> QED BY <3>1
  <2>5. \A i \in 1 .. k - 1 : h[i] \in more <=> h[i] \in some
    BY <2>3
  <2>6. Path(g, k, more)
    <3>1. g[0] = <<>>
      BY <2>2
    <3>2. ASSUME NEW i \in 1 .. k - 1
          PROVE  g[i] = IF h[i] \in more THEN Applied(g[i - 1], h[i]) ELSE g[i - 1]
      <4>1. g[i] = f[i] /\ g[i - 1] = f[i - 1]
        OBVIOUS
      <4> HIDE DEF g, more
      <4> QED BY <2>2, <2>5, <4>1
    <3>3. g[k] = IF h[k] \in more THEN Applied(g[k - 1], h[k]) ELSE g[k - 1]
      <4>1. g[k] = y /\ g[k - 1] = z
        BY <2>2
      <4> HIDE DEF g
      <4> QED BY <2>1, <2>4, <4>1
    <3> HIDE DEF g, more
    <3>4. \A i \in 1 .. k : i = k \/ i \in 1 .. k - 1
      OBVIOUS
    <3> QED BY <3>1, <3>2, <3>3, <3>4
  <2>7. g[k] = y
    OBVIOUS
  <2> HIDE DEF g, more, Path, First
  <2> QED BY <2>4, <2>6, <2>7
<1> HIDE DEF Good
<1>4. 0 .. n \subseteq Good
  BY <1>1, <1>2, <1>3, UpTo
<1>a. PICK some \in SUBSET First(n) : \E f : Path(f, n, some) /\ f[n] = x
  <2> HIDE DEF Path, First
  <2> QED BY <1>1, <1>4 DEF Good
<1>5. PICK f : Path(f, n, some) /\ f[n] = x
  BY <1>a, Zenon
<1>6. PICK r : /\ InTurn(r, n, <<>>, Seq(U)) /\ r[n] = States!Result(h, some)
               /\ \A i \in 1 .. n : r[i] = IF h[i] \in some THEN Applied(r[i - 1], h[i]) ELSE r[i - 1]
  BY ResultInTurn
<1> DEFINE Same == { i \in 0 .. n : f[i] = r[i] }
<1>7. 0 .. n \subseteq Same
  <2>1. 0 \in Same
    BY <1>1, <1>5, <1>6 DEF InTurn
  <2>2. \A i \in 1 .. n : i - 1 \in Same => i \in Same
    BY <1>1, <1>5, <1>6
  <2> HIDE DEF Same
  <2> QED BY <1>1, <2>1, <2>2, UpTo
<1>8. First(n) = Range(h)
  BY <1>1 DEF Range
<1> HIDE DEF Path, First
<1> QED BY <1>1, <1>5, <1>6, <1>7, <1>8

-----------------------------------------------------------------------------
\* The least and the greatest of some numbers.
LEMMA LeastOf ==
  ASSUME NEW T, T \subseteq Nat, T # {}
  PROVE  Min(T) \in T /\ \A k \in T : Min(T) <= k
<1>1. PICK m \in T : \A k \in T : m <= k
  BY LeastElement
<1> QED BY <1>1, Zenon DEF Min

LEMMA GreatestOf ==
  ASSUME NEW N \in Nat, NEW T, T \subseteq 0 .. N, T # {}
  PROVE  Max(T) \in T /\ \A k \in T : k <= Max(T)
<1> DEFINE R == { N - k : k \in T }
<1>1. R \subseteq Nat /\ R # {}
  <2>1. \A k \in T : N - k \in Nat
    OBVIOUS
  <2> QED BY <2>1
<1>2. PICK r \in R : \A k \in R : r <= k
  BY <1>1, LeastElement
<1>3. PICK m \in T : r = N - m
  BY <1>2
<1>6. \A k \in T : k \in Nat
  BY ONLY T \subseteq 0 .. N, N \in Nat
<1>4. \A k \in T : m >= k
  <2> SUFFICES ASSUME NEW k \in T PROVE m >= k
    OBVIOUS
  <2>1. k \in Nat /\ m \in Nat
    BY <1>6, Zenon
  <2>4. N - k \in R
    BY Zenon
  <2>2. r <= N - k
    BY <1>2, <2>4, Zenon
  <2> QED BY <1>3, <2>1, <2>2
<1>5. Max(T) \in T /\ \A k \in T : Max(T) >= k
  BY <1>4, Zenon DEF Max
<1> HIDE DEF R
<1> QED BY <1>5

\* How many updates are done with.
LEMMA SettledBounds ==
  ASSUME NEW U, NEW updates \in Seq(U), NEW render
  PROVE  Settled(updates, render) \in 0 .. Len(updates)
<1> DEFINE skipped == { i \in DOMAIN updates : ~Sufficient(updates[i], render) }
<1>1. skipped \subseteq 1 .. Len(updates) /\ Len(updates) \in Nat
  OBVIOUS
<1>2. CASE skipped = {}
  BY <1>1, <1>2 DEF Settled
<1>3. CASE skipped # {}
  <2>1. Settled(updates, render) = Min(skipped) - 1
    BY <1>3 DEF Settled
  <2> HIDE DEF skipped
  <2>2. skipped \subseteq Nat
    BY <1>1
  <2>3. Min(skipped) \in skipped
    BY <1>3, <2>2, LeastOf
  <2>4. Min(skipped) \in 1 .. Len(updates)
    BY <1>1, <2>3
  <2> QED BY <1>1, <2>1, <2>4
<1> QED BY <1>2, <1>3

\* What is left to do is at some level.
LEMMA RemainingLevel ==
  ASSUME NEW updates, \A u \in Range(updates) : level[u] \in Levels, NEW render
  PROVE  Remaining(updates, render) \in Levels
<1> DEFINE T == {NoWork} \cup { level[u] : u \in { v \in Range(updates) : ~Sufficient(v, render) } }
<1>1. T \subseteq 0 .. Sync /\ T # {} /\ Sync \in Nat
  BY ConstantTypes DEF Levels, NoWork, Sync
<1>2. Max(T) \in T
  BY <1>1, GreatestOf
<1> HIDE DEF T
<1>3. Max(T) \in Levels
  BY <1>1, <1>2 DEF Levels, NoWork
<1> QED BY <1>3 DEF Remaining, T

\* A list of some of the elements of a list without repetition.
LEMMA SomeOfList ==
  ASSUME NEW U, NEW list \in Seq(U), IsInjective(list), NEW some
  PROVE  LET those == Those(list, some)
         IN  /\ those \in Seq(U) /\ IsInjective(those)
             /\ Range(those) = Range(list) \cap some
<1> DEFINE n == Len(list)
           First(k) == { list[i] : i \in 1 .. k }
<1>1. n \in Nat /\ 0 \in 0 .. n /\ n \in 0 .. n /\ DOMAIN list = 1 .. n
  OBVIOUS
<1>2. PICK f : /\ InTurn(f, n, <<>>, Seq(U)) /\ f[n] = Those(list, some)
               /\ \A i \in 1 .. n : f[i] = IF list[i] \in some THEN Append(f[i - 1], list[i])
                                           ELSE f[i - 1]
  BY ThoseInTurn
<1> DEFINE Good == { k \in 0 .. n : IsInjective(f[k]) /\ Range(f[k]) = First(k) \cap some }
<1>3. 0 \in Good
  BY <1>1, <1>2 DEF InTurn, IsInjective, Range
<1>4. \A k \in 1 .. n : k - 1 \in Good => k \in Good
  <2> SUFFICES ASSUME NEW k \in 1 .. n, k - 1 \in Good
               PROVE  IsInjective(f[k]) /\ Range(f[k]) = First(k) \cap some
    <3>1. 1 .. n \subseteq 0 .. n
      BY <1>1
    <3> HIDE DEF First
    <3> QED BY <3>1, Zenon
  <2> DEFINE s == f[k - 1]
             x == list[k]
  <2>1. First(k) = First(k - 1) \cup {x} /\ x \notin First(k - 1)
    BY <1>1 DEF IsInjective
  <2>2. s \in Seq(U) /\ x \in U /\ IsInjective(s) /\ Range(s) = First(k - 1) \cap some
    BY <1>1, <1>2 DEF InTurn
  <2>3. f[k] = IF x \in some THEN Append(s, x) ELSE s
    BY <1>2
  <2> HIDE DEF s, x, First
  <2>4. CASE x \notin some
    BY <2>1, <2>2, <2>3, <2>4
  <2>5. CASE x \in some
    <3>1. /\ Len(Append(s, x)) = Len(s) + 1 /\ DOMAIN Append(s, x) = 1 .. Len(s) + 1
          /\ DOMAIN s = 1 .. Len(s) /\ Len(s) \in Nat
          /\ Append(s, x)[Len(s) + 1] = x /\ \A i \in 1 .. Len(s) : Append(s, x)[i] = s[i]
      BY <2>2
    <3>2. Range(Append(s, x)) = Range(s) \cup {x}
      BY <3>1 DEF Range
    <3>3. x \notin Range(s)
      BY <2>1, <2>2
    <3>4. IsInjective(Append(s, x))
      BY <2>2, <3>1, <3>3 DEF IsInjective, Range
    <3> QED BY <2>1, <2>2, <2>3, <2>5, <3>2, <3>4
  <2> QED BY <2>4, <2>5
<1> HIDE DEF Good
<1>5. 0 .. n \subseteq Good
  BY <1>1, <1>3, <1>4, UpTo
<1>6. First(n) = Range(list)
  BY <1>1 DEF Range
<1>7. f[n] \in Seq(U)
  BY <1>1, <1>2 DEF InTurn
<1> HIDE DEF First
<1> QED BY <1>1, <1>2, <1>5, <1>6, <1>7 DEF Good

\* A state has an update in it, one that replaced it or, if the update changes
\* nothing, anything.
Counted(u, x) == u \in Noops \/ u \in Range(x) \/ Range(x) \cap Replacing # {}

LEMMA AppliedCounts ==
  ASSUME NEW U, NEW x \in Seq(U), NEW u \in U
  PROVE  Counted(u, Applied(x, u)) /\ \A v : Counted(v, x) => Counted(v, Applied(x, u))
<1>1. CASE u \in Noops
  <2>1. u \notin Replacing
    BY <1>1, UpdateAssumption
  <2>2. Applied(x, u) = x
    BY <1>1, <2>1, Zenon DEF Applied
  <2> QED BY <1>1, <2>2 DEF Counted
<1>2. CASE u \notin Noops /\ u \in Replacing
  <2>1. Applied(x, u) = <<u>>
    BY <1>2, Zenon DEF Applied
  <2>2. u \in Range(<<u>>)
    BY DEF Range
  <2> QED BY <1>2, <2>1, <2>2 DEF Counted
<1>3. CASE u \notin Noops /\ u \notin Replacing
  <2>1. Applied(x, u) = Append(x, u)
    BY <1>3, Zenon DEF Applied
  <2>2. u \in Range(Append(x, u)) /\ Range(x) \subseteq Range(Append(x, u))
    BY DEF Range
  <2> QED BY <2>1, <2>2 DEF Counted
<1> QED BY <1>1, <1>2, <1>3

\* What is applied is counted.
LEMMA AppliedAreCounted ==
  ASSUME NEW U, NEW state \in Seq(U), NEW updates \in Seq(U), NEW some
  PROVE  \A u \in Range(updates) \cap some : Counted(u, AppliedSome(state, updates, some))
<1> DEFINE n == Len(updates)
<1>1. n \in Nat /\ 0 \in 0 .. n /\ n \in 0 .. n /\ DOMAIN updates = 1 .. n
  OBVIOUS
<1>2. PICK f : /\ InTurn(f, n, state, Seq(U)) /\ f[n] = AppliedSome(state, updates, some)
               /\ \A i \in 1 .. n : f[i] = IF updates[i] \in some
                                             THEN Applied(f[i - 1], updates[i]) ELSE f[i - 1]
  BY AppliedInTurn
<1> DEFINE Good == { k \in 0 .. n : \A i \in 1 .. k : updates[i] \in some =>
                                      Counted(updates[i], f[k]) }
<1>3. 0 \in Good
  BY <1>1
<1>4. \A k \in 1 .. n : k - 1 \in Good => k \in Good
  <2> SUFFICES ASSUME NEW k \in 1 .. n, k - 1 \in Good, NEW i \in 1 .. k, updates[i] \in some
               PROVE  Counted(updates[i], f[k])
    BY <1>1
  <2>1. f[k - 1] \in Seq(U) /\ updates[k] \in U
    BY <1>1, <1>2 DEF InTurn
  <2>2. f[k] = IF updates[k] \in some THEN Applied(f[k - 1], updates[k]) ELSE f[k - 1]
    BY <1>2
  <2>3. CASE i = k
    BY <2>1, <2>2, <2>3, AppliedCounts
  <2>4. CASE i # k
    <3>1. Counted(updates[i], f[k - 1])
      BY <2>4
    <3> QED BY <2>1, <2>2, <3>1, AppliedCounts
  <2> QED BY <2>3, <2>4
<1> HIDE DEF Good
<1>5. 0 .. n \subseteq Good
  BY <1>1, <1>3, <1>4, UpTo
<1> QED BY <1>1, <1>2, <1>5 DEF Good, Range

-----------------------------------------------------------------------------
\* A list has the updates of another one after the first b of them.
Rest(updates, h, b) ==
  /\ b \in 0 .. Len(h) /\ updates \in Seq(Range(h)) /\ Len(updates) = Len(h) - b
  /\ \A i \in 1 .. Len(updates) : updates[i] = h[b + i]

\* Links that lead from one update to the next, from the one after b on, to the
\* last, and from that back to the first or nowhere.
LEMMA LinkedAreListed ==
  ASSUME IsFiniteSet(MadeUpdates), NEW h \in Seq(MadeUpdates), IsInjective(h),
         NEW links \in [Update -> Update \cup {None}], NEW b \in 0 .. Len(h) - 1,
         \A i \in b + 1 .. Len(h) - 1 : links[h[i]] = h[i + 1],
         links[h[Len(h)]] \in {None, h[b + 1]}
  PROVE  Rest(Listed(links, h[b + 1]), h, b)
<1> DEFINE first == h[b + 1]
           n     == Cardinality(MadeUpdates)
           L     == Len(h) - b
           V     == Update \cup {None}
           follow == [u \in V |-> IF u = None THEN None ELSE links[u]]
           act   == [i \in 1 .. n |-> follow]
           Eq(f) == f = [i \in 0 .. n |-> IF i = 0 THEN first ELSE follow[f[i - 1]]]
           Is(f, i) == f[i] \in {None, first} /\ \A j \in 1 .. i - 1 : f[j] \notin {None, first}
<1>1. /\ Len(h) \in Nat /\ b \in Nat /\ b + 1 \in 1 .. Len(h) /\ L \in 1 .. Len(h)
      /\ DOMAIN h = 1 .. Len(h)
      /\ \A i \in 1 .. Len(h) : h[i] \in MadeUpdates
  OBVIOUS
<1>2. MadeUpdates \subseteq Update /\ None \notin MadeUpdates
  BY UpdateAssumption DEF MadeUpdates
<1>3. n \in Nat /\ Len(h) <= n
  <2>1. h \in Injection(1 .. Len(h), MadeUpdates)
    BY <1>1 DEF Injection
  <2>2. Cardinality(1 .. Len(h)) = Len(h)
    <3>1. 1 \in Int /\ Len(h) \in Int /\ ~(1 > Len(h)) /\ Len(h) - 1 + 1 = Len(h)
      BY <1>1
    <3> QED BY <3>1, FS_Interval
  <2> QED BY <2>1, <2>2, FS_Injection, FS_CardinalityType
<1>4. first \in V /\ first # None /\ \A i \in 1 .. n : \A v \in V : act[i][v] \in V
  BY <1>1, <1>2
<1>5. \E g : Eq(g)
  <2> HIDE DEF follow, V, first
  <2>1. PICK f \in [0 .. n -> V] : Counts(f, n, first, act)
    BY <1>3, <1>4, CountingUp
  <2>2. Eq(f)
    BY <1>3, <2>1 DEF Counts
  <2> QED BY <2>2
<1> DEFINE after == CHOOSE f : Eq(f)
<1>6. Eq(after)
  <2> HIDE DEF Eq
  <2> QED BY <1>5
<1>7. Listed(links, first) = [i \in 1 .. CHOOSE i \in 1 .. n : Is(after, i) |-> after[i - 1]]
  BY <1>4, Zenon DEF Listed
<1> HIDE DEF after, Eq, act
<1>8. /\ after[0] = first
      /\ \A i \in 1 .. n : after[i] = follow[after[i - 1]]
  <2>1. 0 \in 0 .. n /\ \A i \in 1 .. n : i \in 0 .. n /\ i # 0
    BY <1>3
  <2> HIDE DEF follow, first
  <2> QED BY <1>6, <2>1, ZenonT(60) DEF Eq
<1>9. \A i \in 0 .. L - 1 : after[i] = h[b + 1 + i]
  <2> DEFINE Good == { i \in 0 .. L - 1 : after[i] = h[b + 1 + i] }
  <2>1. 0 \in Good
    BY <1>1, <1>8
  <2>2. \A i \in 1 .. L - 1 : i - 1 \in Good => i \in Good
    <3> SUFFICES ASSUME NEW i \in 1 .. L - 1, after[i - 1] = h[b + 1 + (i - 1)]
                 PROVE  after[i] = h[b + 1 + i]
      <4>1. 1 .. L - 1 \subseteq 0 .. L - 1
        BY <1>1
      <4> QED BY <4>1, Zenon
    <3>1. i \in 1 .. n /\ b + 1 + (i - 1) = b + i /\ b + i \in b + 1 .. Len(h) - 1
          /\ b + i \in 1 .. Len(h) /\ (b + i) + 1 = b + 1 + i
      BY <1>1, <1>3
    <3>2. follow[h[b + i]] = links[h[b + i]]
      BY <1>1, <1>2, <3>1
    <3> HIDE DEF follow
    <3> QED BY <1>8, <3>1, <3>2
  <2> HIDE DEF Good
  <2>3. 0 .. L - 1 \subseteq Good
    <3>1. L - 1 \in Nat
      BY <1>1
    <3> QED BY <2>1, <2>2, <3>1, UpTo
  <2> QED BY <2>3 DEF Good
<1>10. after[L] \in {None, first}
  <2>1. L \in 1 .. n /\ L - 1 \in 0 .. L - 1 /\ b + 1 + (L - 1) = Len(h)
    BY <1>1, <1>3
  <2>2. follow[h[Len(h)]] = links[h[Len(h)]]
    BY <1>1, <1>2
  <2> HIDE DEF follow
  <2> QED BY <1>8, <1>9, <2>1, <2>2
<1>11. \A i \in 1 .. L - 1 : after[i] \notin {None, first}
  <2> SUFFICES ASSUME NEW i \in 1 .. L - 1 PROVE after[i] \notin {None, first}
    OBVIOUS
  <2>1. b + 1 + i \in 1 .. Len(h) /\ b + 1 + i # b + 1 /\ i \in 0 .. L - 1
    BY <1>1
  <2>2. h[b + 1 + i] # h[b + 1] /\ h[b + 1 + i] # None
    BY <1>1, <1>2, <2>1 DEF IsInjective
  <2> QED BY <1>9, <2>1, <2>2
<1> HIDE DEF first, follow
<1>12. (CHOOSE i \in 1 .. n : Is(after, i)) = L
  <2> DEFINE c == CHOOSE i \in 1 .. n : Is(after, i)
  <2>1. L \in 1 .. n /\ Is(after, L)
    BY <1>1, <1>3, <1>10, <1>11
  <2>2. c \in 1 .. n /\ Is(after, c)
    <3> HIDE DEF Is
    <3> QED BY <2>1
  <2> HIDE DEF c
  <2>3. ~(c < L)
    BY <1>11, <2>1, <2>2
  <2>4. ~(L < c)
    BY <2>1, <2>2
  <2> QED BY <2>1, <2>2, <2>3, <2>4 DEF c
<1>13. Listed(links, first) = [i \in 1 .. L |-> h[b + i]]
  <2>1. Listed(links, first) = [i \in 1 .. L |-> after[i - 1]]
    <3> HIDE DEF Is
    <3> QED BY <1>7, <1>12
  <2>2. \A i \in 1 .. L : after[i - 1] = h[b + i]
    BY <1>1, <1>9
  <2> QED BY <2>1, <2>2
<1>14. \A i \in 1 .. L : h[b + i] \in Range(h)
  BY <1>1 DEF Range
<1>15. [i \in 1 .. L |-> h[b + i]] \in Seq(Range(h))
  BY <1>1, <1>14
<1> QED BY <1>1, <1>13, <1>15 DEF Rest, first

\* A list is one of what is on it.
LEMMA ListOfItsOwn ==
  ASSUME NEW U, NEW h \in Seq(U)
  PROVE  /\ h \in Seq(Range(h)) /\ Range(h) \subseteq U
         /\ Len(h) \in Nat /\ DOMAIN h = 1 .. Len(h)
BY DEF Range

\* The first elements of a list without repetition.
LEMMA FrontOfRest ==
  ASSUME NEW h, IsInjective(h), NEW b, NEW updates, Rest(updates, h, b), h \in Seq(Range(h)),
         NEW m \in 0 .. Len(updates)
  PROVE  \A i \in 1 .. Len(updates) :
           updates[i] \in Range(SubSeq(updates, 1, m)) <=> i <= m
<1> DEFINE front == SubSeq(updates, 1, m)
<1>1. /\ updates \in Seq(Range(h)) /\ Len(updates) \in Nat /\ Len(h) \in Nat /\ b \in 0 .. Len(h)
      /\ Len(updates) = Len(h) - b /\ DOMAIN h = 1 .. Len(h)
      /\ \A i \in 1 .. Len(updates) : updates[i] = h[b + i] /\ b + i \in 1 .. Len(h)
  BY DEF Rest
<1>2. /\ front \in Seq(Range(h)) /\ DOMAIN front = 1 .. m
      /\ \A i \in 1 .. m : front[i] = updates[i]
  BY <1>1
<1> HIDE DEF front
<1>3. Range(front) = { updates[i] : i \in 1 .. m }
  BY <1>2 DEF Range
<1>4. ASSUME NEW i \in 1 .. Len(updates), NEW j \in 1 .. Len(updates), i # j
      PROVE  updates[i] # updates[j]
  <2>1. updates[i] = h[b + i] /\ updates[j] = h[b + j]
    BY <1>1
  <2>2. b + i \in DOMAIN h /\ b + j \in DOMAIN h
    <3>1. \A k \in 1 .. Len(updates) : b + k \in 1 .. Len(h)
      BY <1>1
    <3>2. DOMAIN h = 1 .. Len(h)
      BY <1>1
    <3> QED BY <3>1, <3>2
  <2>3. b + i # b + j
    <3>1. b \in Int
      BY <1>1
    <3> QED BY <3>1, <1>4
  <2> QED BY <2>1, <2>2, <2>3 DEF IsInjective
<1>5. ASSUME NEW i \in 1 .. Len(updates) PROVE updates[i] \in Range(front) <=> i <= m
  <2>1. CASE i <= m
    <3>1. i \in 1 .. m
      BY <1>1, <2>1
    <3> QED BY <1>3, <2>1, <3>1
  <2>2. CASE ~(i <= m)
    <3>1. ASSUME NEW j \in 1 .. m PROVE updates[i] # updates[j]
      <4>1. j \in 1 .. Len(updates) /\ i # j
        BY <1>1, <2>2
      <4> QED BY <1>4, <4>1
    <3> QED BY <1>3, <2>2, <3>1
  <2> QED BY <2>1, <2>2
<1> QED BY <1>5 DEF front

\* What the last updates of a list make of a state that those before make.
LEMMA RestApplied ==
  ASSUME NEW h \in Seq(Update), IsInjective(h), NEW b, NEW updates, Rest(updates, h, b),
         NEW base \in Possible(h)[b]
  PROVE  /\ \A some : AppliedSome(base, updates, some) \in Possible(h)[Len(h)]
         /\ \A m \in 0 .. Len(updates) :
              AppliedSome(base, updates, Range(SubSeq(updates, 1, m))) \in Possible(h)[b + m]
<1> DEFINE n == Len(updates)
           U == Range(h)
<1>1. /\ Len(h) \in Nat /\ b \in 0 .. Len(h) /\ n \in Nat /\ n = Len(h) - b
      /\ b + n = Len(h) /\ h \in Seq(U) /\ DOMAIN h = 1 .. Len(h)
      /\ updates \in Seq(U)
  <2>1. b \in 0 .. Len(h) /\ updates \in Seq(U) /\ n = Len(h) - b
    BY DEF Rest
  <2>2. Len(h) \in Nat /\ h \in Seq(U) /\ DOMAIN h = 1 .. Len(h)
    BY ListOfItsOwn
  <2> HIDE DEF n
  <2> QED BY <2>1, <2>2
<1>2. \A i \in 1 .. n : updates[i] = h[b + i] /\ b + i \in 1 .. Len(h)
  BY <1>1 DEF Rest
<1>3. base \in Seq(U)
  BY <1>1, PossibleStates
<1> HIDE DEF U
<1>4. ASSUME NEW some
      PROVE  \E f : /\ f[0] = base /\ f[n] = AppliedSome(base, updates, some)
                    /\ \A i \in 0 .. n : f[i] \in Possible(h)[b + i]
                    /\ \A i \in 1 .. n : updates[i] \notin some => f[i] = f[i - 1]
  <2>1. PICK f : /\ InTurn(f, n, base, Seq(U))
                 /\ f[n] = AppliedSome(base, updates, some)
                 /\ \A i \in 1 .. n : f[i] = IF updates[i] \in some
                                              THEN Applied(f[i - 1], updates[i]) ELSE f[i - 1]
    <3>1. updates \in Seq(U) /\ base \in Seq(U)
      BY <1>1, <1>3
    <3> QED BY <3>1, AppliedInTurn DEF n
  <2>2. f[0] = base
    BY <2>1 DEF InTurn
  <2>3. \A i \in 1 .. n : \/ f[i] = f[i - 1] \/ f[i] = Applied(f[i - 1], h[b + i])
                          \/ f[i] \in Possible(h)[b + i]
    BY <1>2, <2>1
  <2>4. \A i \in 0 .. n : f[i] \in Possible(h)[b + i]
    BY <1>1, <2>2, <2>3, LoopReaches
  <2> QED BY <2>1, <2>2, <2>4
<1>5. ASSUME NEW some PROVE AppliedSome(base, updates, some) \in Possible(h)[Len(h)]
  <2>1. PICK f : /\ f[n] = AppliedSome(base, updates, some)
                 /\ \A i \in 0 .. n : f[i] \in Possible(h)[b + i]
    BY <1>4
  <2> QED BY <1>1, <2>1
<1>7. ASSUME NEW m \in 0 .. n
      PROVE  AppliedSome(base, updates, Range(SubSeq(updates, 1, m))) \in Possible(h)[b + m]
  <2> DEFINE some == Range(SubSeq(updates, 1, m))
  <2>1. \A i \in 1 .. n : updates[i] \in some <=> i <= m
    BY <1>1, FrontOfRest DEF U
  <2> HIDE DEF some
  <2>2. PICK f : /\ f[n] = AppliedSome(base, updates, some)
                 /\ \A i \in 0 .. n : f[i] \in Possible(h)[b + i]
                 /\ \A i \in 1 .. n : updates[i] \notin some => f[i] = f[i - 1]
    BY <1>4
  <2>3. \A i \in 1 .. n : i > m => f[i] = f[i - 1]
    <3> SUFFICES ASSUME NEW i \in 1 .. n, i > m PROVE f[i] = f[i - 1]
      OBVIOUS
    <3>1. ~(i <= m)
      BY <1>1
    <3> QED BY <2>1, <2>2, <3>1
  <2>4. f[n] = f[m]
    BY <1>1, <2>3, LoopSettles
  <2> QED BY <2>2, <2>4 DEF some
<1> QED BY <1>5, <1>7

\* The same for a hook, whose updates may have their result with them.
LEMMA RestHookInTurn ==
  ASSUME NEW h \in Seq(Update), IsInjective(h), NEW b, NEW updates, Rest(updates, h, b),
         \A i \in 1 .. Len(h) : eager[h[i]] = <<>> \/ eager[h[i]][1] \in Possible(h)[i],
         NEW base \in Possible(h)[b], NEW some
  PROVE  \E f : /\ f[0] = base /\ f[Len(updates)] = HookAppliedSome(base, updates, some)
                /\ \A i \in 0 .. Len(updates) : f[i] \in Possible(h)[b + i]
                /\ \A i \in 1 .. Len(updates) :
                     f[i] = IF updates[i] \in some THEN HookApplied(f[i - 1], updates[i])
                            ELSE f[i - 1]
<1> DEFINE n == Len(updates)
           U == Range(h)
<1>1. /\ Len(h) \in Nat /\ b \in 0 .. Len(h) /\ n \in Nat /\ n = Len(h) - b
      /\ b + n = Len(h) /\ h \in Seq(U) /\ DOMAIN h = 1 .. Len(h)
      /\ updates \in Seq(U)
  <2>1. b \in 0 .. Len(h) /\ updates \in Seq(U) /\ n = Len(h) - b
    BY DEF Rest
  <2>2. Len(h) \in Nat /\ h \in Seq(U) /\ DOMAIN h = 1 .. Len(h)
    BY ListOfItsOwn
  <2> HIDE DEF n
  <2> QED BY <2>1, <2>2
<1>2. \A i \in 1 .. n : updates[i] = h[b + i] /\ b + i \in 1 .. Len(h)
  BY <1>1 DEF Rest
<1>3. base \in Seq(U)
  BY <1>1, PossibleStates
<1> HIDE DEF U
<1>4. \A u \in U : eager[u] = <<>> \/ eager[u][1] \in Seq(U)
  <2> SUFFICES ASSUME NEW i \in 1 .. Len(h)
               PROVE  eager[h[i]] = <<>> \/ eager[h[i]][1] \in Seq(U)
    BY <1>1 DEF Range, U
  <2>1. Possible(h)[i] \subseteq Seq(U)
    BY <1>1, PossibleStates
  <2> QED BY <2>1
<1>5. PICK f : /\ InTurn(f, n, base, Seq(U))
               /\ f[n] = HookAppliedSome(base, updates, some)
               /\ \A i \in 1 .. n : f[i] = IF updates[i] \in some
                                            THEN HookApplied(f[i - 1], updates[i]) ELSE f[i - 1]
  <2>1. updates \in Seq(U) /\ base \in Seq(U)
    BY <1>1, <1>3
  <2>2. \E f : /\ InTurn(f, Len(updates), base, Seq(U))
               /\ f[Len(updates)] = HookAppliedSome(base, updates, some)
               /\ \A i \in 1 .. Len(updates) :
                    f[i] = IF updates[i] \in some THEN HookApplied(f[i - 1], updates[i])
                           ELSE f[i - 1]
    BY ONLY <2>1, <1>4, HookAppliedInTurn
  <2> QED BY <2>2, Zenon DEF n
<1>6. f[0] = base
  BY <1>5 DEF InTurn
<1>7. \A i \in 1 .. n : \/ f[i] = f[i - 1] \/ f[i] = Applied(f[i - 1], h[b + i])
                        \/ f[i] \in Possible(h)[b + i]
  BY <1>1, <1>2, <1>5 DEF HookApplied
<1>8. \A i \in 0 .. n : f[i] \in Possible(h)[b + i]
  BY <1>1, <1>6, <1>7, LoopReaches
<1> QED BY <1>5, <1>6, <1>8 DEF n

\* So it is a state that they can make.
LEMMA RestHookApplied ==
  ASSUME NEW h \in Seq(Update), IsInjective(h), NEW b, NEW updates, Rest(updates, h, b),
         \A i \in 1 .. Len(h) : eager[h[i]] = <<>> \/ eager[h[i]][1] \in Possible(h)[i],
         NEW base \in Possible(h)[b]
  PROVE  /\ \A some : HookAppliedSome(base, updates, some) \in Possible(h)[Len(h)]
         /\ \A m \in 0 .. Len(updates) :
              HookAppliedSome(base, updates, Range(SubSeq(updates, 1, m))) \in Possible(h)[b + m]
<1> DEFINE n == Len(updates)
           U == Range(h)
<1>1. /\ Len(h) \in Nat /\ b \in 0 .. Len(h) /\ n \in Nat /\ n = Len(h) - b
      /\ b + n = Len(h) /\ h \in Seq(U) /\ DOMAIN h = 1 .. Len(h)
      /\ updates \in Seq(U)
  <2>1. b \in 0 .. Len(h) /\ updates \in Seq(U) /\ n = Len(h) - b
    BY DEF Rest
  <2>2. Len(h) \in Nat /\ h \in Seq(U) /\ DOMAIN h = 1 .. Len(h)
    BY ListOfItsOwn
  <2> HIDE DEF n
  <2> QED BY <2>1, <2>2
<1>2. \A i \in 1 .. n : updates[i] = h[b + i] /\ b + i \in 1 .. Len(h)
  BY <1>1 DEF Rest
<1>4. ASSUME NEW some
      PROVE  \E f : /\ f[n] = HookAppliedSome(base, updates, some)
                    /\ \A i \in 0 .. n : f[i] \in Possible(h)[b + i]
                    /\ \A i \in 1 .. n : updates[i] \notin some => f[i] = f[i - 1]
  <2>1. PICK f : /\ f[n] = HookAppliedSome(base, updates, some)
                 /\ \A i \in 0 .. n : f[i] \in Possible(h)[b + i]
                 /\ \A i \in 1 .. n : f[i] = IF updates[i] \in some
                                              THEN HookApplied(f[i - 1], updates[i]) ELSE f[i - 1]
    BY RestHookInTurn
  <2> QED BY <2>1
<1>5. ASSUME NEW some PROVE HookAppliedSome(base, updates, some) \in Possible(h)[Len(h)]
  <2>1. PICK f : /\ f[n] = HookAppliedSome(base, updates, some)
                 /\ \A i \in 0 .. n : f[i] \in Possible(h)[b + i]
    BY <1>4
  <2> QED BY <1>1, <2>1
<1>7. ASSUME NEW m \in 0 .. n
      PROVE  HookAppliedSome(base, updates, Range(SubSeq(updates, 1, m))) \in Possible(h)[b + m]
  <2> DEFINE some == Range(SubSeq(updates, 1, m))
  <2>1. \A i \in 1 .. n : updates[i] \in some <=> i <= m
    BY <1>1, FrontOfRest DEF U
  <2> HIDE DEF some
  <2>2. PICK f : /\ f[n] = HookAppliedSome(base, updates, some)
                 /\ \A i \in 0 .. n : f[i] \in Possible(h)[b + i]
                 /\ \A i \in 1 .. n : updates[i] \notin some => f[i] = f[i - 1]
    BY <1>4
  <2>3. \A i \in 1 .. n : i > m => f[i] = f[i - 1]
    <3> SUFFICES ASSUME NEW i \in 1 .. n, i > m PROVE f[i] = f[i - 1]
      OBVIOUS
    <3>1. ~(i <= m)
      BY <1>1
    <3> QED BY <2>1, <2>2, <3>1
  <2>4. f[n] = f[m]
    BY <1>1, <2>3, LoopSettles
  <2> QED BY <2>2, <2>4 DEF some
<1> QED BY <1>5, <1>7

-----------------------------------------------------------------------------
\* What fibers and their queues are made of.
FiberSet ==
  [ exists : BOOLEAN, time : Levels, childTime : Levels, kids : Sides,
    state : Seq(Update), props : Seq(Update), fresh : BOOLEAN, effect : BOOLEAN,
    queue : {0} \cup Sides, base : Seq(Update), baseUpdate : Update \cup {None} ]

QueueSet ==
  [ base : Seq(Update), first : Update \cup {None}, last : Update \cup {None},
    effects : Seq(Update) ]

\* A queue that has what is still to be applied of all updates of a component: the
\* updates after the first b, linked, and a state that those make.
QueueFrom(queue, h, b) ==
  /\ queue.base \in Possible(h)[b]
  /\ queue.first = IF b = Len(h) THEN None ELSE h[b + 1]
  /\ queue.last = IF b = Len(h) THEN None ELSE h[Len(h)]
  /\ \A i \in b + 1 .. Len(h) - 1 : next[h[i]] = h[i + 1]
QueueOver(queue, h) == \E b \in 0 .. Len(h) : QueueFrom(queue, h, b)

\* What LinkedAreListed says of such a queue.
LEMMA QueueIsListed ==
  ASSUME IsFiniteSet(MadeUpdates), NEW h \in Seq(MadeUpdates), IsInjective(h),
         next \in [Update -> Update \cup {None}], h # <<>> => next[h[Len(h)]] = None,
         NEW queue, NEW b \in 0 .. Len(h), QueueFrom(queue, h, b)
  PROVE  Rest(Listed(next, queue.first), h, b)
<1>1. Len(h) \in Nat
  OBVIOUS
<1>2. CASE b = Len(h)
  <2>1. Listed(next, queue.first) = <<>>
    BY <1>2 DEF QueueFrom, Listed
  <2>2. <<>> \in Seq(Range(h)) /\ Len(<<>>) = 0
    OBVIOUS
  <2> QED BY <1>1, <1>2, <2>1, <2>2 DEF Rest
<1>3. CASE b # Len(h)
  <2>1. b \in 0 .. Len(h) - 1 /\ h # <<>>
    BY <1>1, <1>3
  <2>2. queue.first = h[b + 1]
    BY <1>3 DEF QueueFrom
  <2>3. \A i \in b + 1 .. Len(h) - 1 : next[h[i]] = h[i + 1]
    BY DEF QueueFrom
  <2>4. Rest(Listed(next, h[b + 1]), h, b)
    BY <2>1, <2>3, LinkedAreListed
  <2> QED BY <2>2, <2>4
<1> QED BY <1>2, <1>3

\* What is on a list that has the rest of the updates.
LEMMA RestHas ==
  ASSUME NEW h \in Seq(Update), NEW b, NEW updates, Rest(updates, h, b)
  PROVE  /\ updates \in Seq(Update) /\ updates \in Seq(Range(h)) /\ Range(h) \subseteq Update
         /\ Range(updates) \subseteq Range(h)
         /\ Len(updates) \in Nat /\ Len(h) \in Nat /\ b \in 0 .. Len(h)
         /\ Len(updates) = Len(h) - b
         /\ \A i \in 1 .. Len(updates) : updates[i] = h[b + i]
<1>1. Range(h) \subseteq Update /\ Len(h) \in Nat
  BY ListOfItsOwn
<1>2. updates \in Seq(Range(h)) /\ b \in 0 .. Len(h) /\ Len(updates) = Len(h) - b
  BY DEF Rest
<1>3. Range(updates) \subseteq Range(h) /\ Len(updates) \in Nat
  BY <1>2, ListOfItsOwn
<1>4. updates \in Seq(Update)
  BY <1>1, <1>2
<1> QED BY <1>1, <1>2, <1>3, <1>4 DEF Rest

\* The updates on it are as different as those of the component.
LEMMA RestIsInjective ==
  ASSUME NEW h \in Seq(Update), IsInjective(h), NEW b, NEW updates, Rest(updates, h, b)
  PROVE  IsInjective(updates)
<1>1. /\ updates \in Seq(Update) /\ Len(updates) \in Nat /\ Len(h) \in Nat /\ b \in 0 .. Len(h)
      /\ Len(updates) = Len(h) - b
  BY RestHas
<1>2. \A i \in 1 .. Len(updates) : updates[i] = h[b + i]
  BY RestHas
<1>3. DOMAIN updates = 1 .. Len(updates) /\ DOMAIN h = 1 .. Len(h)
  BY <1>1
<1>4. ASSUME NEW i \in 1 .. Len(updates), NEW j \in 1 .. Len(updates), updates[i] = updates[j]
      PROVE  i = j
  <2>1. b + i \in 1 .. Len(h) /\ b + j \in 1 .. Len(h)
    BY <1>1
  <2>2. h[b + i] = h[b + j]
    BY <1>2, <1>4
  <2>3. b + i = b + j
    BY <1>3, <2>1, <2>2 DEF IsInjective
  <2>4. b \in Int
    BY <1>1
  <2> QED BY <2>3, <2>4
<1> QED BY <1>3, <1>4 DEF IsInjective

\* What is made of a queue whose updates are these.
LEMMA ProcessedList ==
  ASSUME NEW queue, NEW render, Listed(next, queue.first) \in Seq(Update)
  PROVE  LET updates == Listed(next, queue.first)
             settled == Settled(updates, render)
             due     == Due(updates, render)
             all     == settled = Len(updates)
         IN  Processed(queue, render) =
               [ queue |-> [ base    |-> NewBase(queue.base, updates, render),
                             first   |-> IF all THEN None ELSE updates[settled + 1],
                             last    |-> IF all THEN None ELSE queue.last,
                             effects |-> queue.effects \o CallbacksIn(updates, render) ],
                 state |-> AppliedSome(queue.base, updates, due),
                 remaining |-> Remaining(updates, render), changed |-> due \ Noops # {} ]
BY DEF Processed

\* processUpdateQueue: the state is made of some of the updates of the component,
\* and the queue has the rest of them, with the state that those before make.
LEMMA QueueProcessed ==
  ASSUME IsFiniteSet(MadeUpdates), NEW h \in Seq(MadeUpdates), IsInjective(h),
         next \in [Update -> Update \cup {None}], h # <<>> => next[h[Len(h)]] = None,
         level \in [Update -> Levels \cup {NotMade}],
         NEW queue \in QueueSet, QueueOver(queue, h), NEW render
  PROVE  LET result == Processed(queue, render)
         IN  /\ result.queue \in QueueSet /\ QueueOver(result.queue, h)
             /\ result.state \in Possible(h)[Len(h)]
             /\ result.remaining \in Levels
<1> DEFINE updates == Listed(next, queue.first)
           settled == Settled(updates, render)
           due     == Due(updates, render)
           newBase == NewBase(queue.base, updates, render)
           effects == queue.effects \o CallbacksIn(updates, render)
           result  == Processed(queue, render)
<1>1. PICK b \in 0 .. Len(h) : QueueFrom(queue, h, b)
  BY DEF QueueOver
<1>2. Rest(updates, h, b)
  BY <1>1, QueueIsListed
<1>3. h \in Seq(Update)
  BY DEF MadeUpdates
<1>4. /\ updates \in Seq(Update) /\ updates \in Seq(Range(h)) /\ Range(updates) \subseteq Range(h)
      /\ Len(updates) \in Nat /\ Len(h) \in Nat /\ Len(updates) = Len(h) - b
  BY <1>2, <1>3, RestHas
<1>5. \A i \in 1 .. Len(updates) : updates[i] = h[b + i]
  BY <1>2, <1>3, RestHas
<1>6. settled \in 0 .. Len(updates)
  BY <1>4, SettledBounds
<1>7. queue.base \in Possible(h)[b]
  BY <1>1 DEF QueueFrom
<1>8. /\ AppliedSome(queue.base, updates, due) \in Possible(h)[Len(h)]
      /\ newBase \in Possible(h)[b + settled]
  <2> HIDE DEF updates, due
  <2>1. /\ \A some : AppliedSome(queue.base, updates, some) \in Possible(h)[Len(h)]
        /\ \A m \in 0 .. Len(updates) : AppliedSome(queue.base, updates,
                     Range(SubSeq(updates, 1, m))) \in Possible(h)[b + m]
    BY <1>2, <1>3, <1>7, RestApplied
  <2> QED BY <1>6, <2>1 DEF NewBase
<1>9. /\ result.queue = [ base    |-> newBase,
                          first   |-> IF settled = Len(updates) THEN None ELSE updates[settled + 1],
                          last    |-> IF settled = Len(updates) THEN None ELSE queue.last,
                          effects |-> effects ]
      /\ result.state = AppliedSome(queue.base, updates, due)
      /\ result.remaining = Remaining(updates, render)
  <2>1. Listed(next, queue.first) \in Seq(Update)
    BY <1>4
  <2>2. result = [ queue |-> [ base    |-> newBase,
                               first   |-> IF settled = Len(updates) THEN None
                                           ELSE updates[settled + 1],
                               last    |-> IF settled = Len(updates) THEN None ELSE queue.last,
                               effects |-> effects ],
                   state |-> AppliedSome(queue.base, updates, due),
                   remaining |-> Remaining(updates, render), changed |-> due \ Noops # {} ]
    BY <2>1, ProcessedList
  <2> HIDE DEF updates, settled, due, newBase, effects, result
  <2> QED BY <2>2
<1> HIDE DEF updates, settled, due, newBase, result
<1>10. result.remaining \in Levels
  <2>1. \A u \in Range(updates) : level[u] \in Levels
    BY <1>4, ListOfItsOwn DEF MadeUpdates
  <2>2. Remaining(updates, render) \in Levels
    BY <2>1, RemainingLevel
  <2> QED BY <1>9, <2>2
<1>11. b + settled \in 0 .. Len(h) /\ (settled = Len(updates) <=> b + settled = Len(h))
  BY <1>4, <1>6
<1>12. effects \in Seq(Update)
  <2>1. CallbacksIn(updates, render) \in Seq(Update)
    BY <1>2, <1>3, <1>4, RestIsInjective, SomeOfList DEF CallbacksIn
  <2> QED BY <2>1 DEF QueueSet
<1>13. result.queue \in QueueSet
  <2>1. newBase \in Seq(Update)
    BY <1>3, <1>8, <1>11, PossibleStates
  <2>2. settled # Len(updates) => updates[settled + 1] \in Update
    BY <1>4, <1>6
  <2>3. queue.last \in Update \cup {None}
    BY DEF QueueSet
  <2> HIDE DEF effects
  <2> QED BY <1>9, <1>12, <2>1, <2>2, <2>3 DEF QueueSet
<1>14. QueueFrom(result.queue, h, b + settled)
  <2>1. result.queue.base \in Possible(h)[b + settled]
    BY <1>8, <1>9
  <2>2. result.queue.first = IF b + settled = Len(h) THEN None ELSE h[b + settled + 1]
    <3>1. CASE settled = Len(updates)
      BY <1>9, <1>11, <3>1
    <3>2. CASE settled # Len(updates)
      <4>1. settled + 1 \in 1 .. Len(updates) /\ b + (settled + 1) = b + settled + 1
        BY <1>4, <1>6, <3>2
      <4> QED BY <1>5, <1>9, <1>11, <3>2, <4>1
    <3> QED BY <3>1, <3>2
  <2>3. result.queue.last = IF b + settled = Len(h) THEN None ELSE h[Len(h)]
    <3>1. CASE settled = Len(updates)
      BY <1>9, <1>11, <3>1
    <3>2. CASE settled # Len(updates)
      <4>1. b # Len(h)
        BY <1>4, <1>6, <3>2
      <4>2. queue.last = h[Len(h)]
        BY <1>1, <4>1 DEF QueueFrom
      <4> QED BY <1>9, <1>11, <3>2, <4>2
    <3> QED BY <3>1, <3>2
  <2>4. \A i \in b + settled + 1 .. Len(h) - 1 : next[h[i]] = h[i + 1]
    <3>1. \A i \in b + 1 .. Len(h) - 1 : next[h[i]] = h[i + 1]
      BY <1>1 DEF QueueFrom
    <3>2. \A i \in b + settled + 1 .. Len(h) - 1 : i \in b + 1 .. Len(h) - 1
      BY <1>4, <1>6
    <3> QED BY <3>1, <3>2
  <2> QED BY <2>1, <2>2, <2>3, <2>4 DEF QueueFrom
<1>15. QueueOver(result.queue, h)
  BY <1>11, <1>14 DEF QueueOver
<1>16. result.state \in Possible(h)[Len(h)]
  BY <1>8, <1>9
<1> QED BY <1>10, <1>13, <1>15, <1>16 DEF result

\* The list of a hook: a circle, or open at its last update.
CircleOf(links, h) ==
  /\ \A i \in 1 .. Len(h) - 1 : links[h[i]] = h[i + 1]
  /\ h # <<>> => links[h[Len(h)]] \in {None, h[1]}
LastOf(h) == IF h = <<>> THEN None ELSE h[Len(h)]

\* A hook that has the first b updates in its base state.
HookFrom(base, baseUpdate, h, b) ==
  base \in Possible(h)[b] /\ baseUpdate = IF b = 0 THEN None ELSE h[b]

\* Opening a circle changes none but the last link.
LEMMA OpenedLinks ==
  ASSUME NEW h \in Seq(Update), IsInjective(h), next \in [Update -> Update \cup {None}],
         CircleOf(next, h), NEW queue, queue.last = LastOf(h),
         NEW b \in 0 .. Len(h), NEW baseUpdate, baseUpdate = IF b = 0 THEN None ELSE h[b]
  PROVE  LET links == HookOpened(next, queue, baseUpdate)
         IN  /\ links \in [Update -> Update \cup {None}] /\ CircleOf(links, h)
             /\ h # <<>> /\ b # 0 => links[h[Len(h)]] = None
             /\ \A u \in Update \ Range(h) : links[u] = next[u]
<1> DEFINE links == HookOpened(next, queue, baseUpdate)
<1>1. Len(h) \in Nat /\ DOMAIN h = 1 .. Len(h) /\ None \notin Update
      /\ \A i \in 1 .. Len(h) : h[i] \in Update /\ h[i] \in Range(h)
  BY UpdateAssumption DEF Range
<1>2. CASE baseUpdate = None \/ queue.last = None
  <2>1. links = next
    BY <1>2 DEF HookOpened
  <2>2. h = <<>> \/ b = 0
    BY <1>1, <1>2 DEF LastOf
  <2> QED BY <2>1, <2>2
<1>3. CASE ~(baseUpdate = None \/ queue.last = None)
  <2>1. links = [next EXCEPT ![queue.last] = None]
    BY <1>3 DEF HookOpened
  <2>2. h # <<>> /\ queue.last = h[Len(h)] /\ Len(h) \in 1 .. Len(h)
    BY <1>1, <1>3 DEF LastOf
  <2>3. links \in [Update -> Update \cup {None}] /\ links[h[Len(h)]] = None
        /\ \A u \in Update : u # h[Len(h)] => links[u] = next[u]
    <3> HIDE DEF links
    <3> QED BY <1>1, <2>1, <2>2
  <2> HIDE DEF links
  <2>4. \A i \in 1 .. Len(h) - 1 : links[h[i]] = h[i + 1]
    <3> SUFFICES ASSUME NEW i \in 1 .. Len(h) - 1 PROVE links[h[i]] = h[i + 1]
      OBVIOUS
    <3>1. Len(h) \in Nat
      BY <1>1
    <3>2. i \in 1 .. Len(h) /\ i # Len(h)
      BY <3>1
    <3>3. DOMAIN h = 1 .. Len(h)
      BY <1>1
    <3>4. h[i] # h[Len(h)]
      BY <2>2, <3>2, <3>3 DEF IsInjective
    <3>5. h[i] \in Update
      BY <1>1, <3>2
    <3> QED BY <2>3, <3>4, <3>5 DEF CircleOf
  <2>5. CircleOf(links, h)
    BY <2>3, <2>4 DEF CircleOf
  <2>6. \A u \in Update \ Range(h) : links[u] = next[u]
    BY <1>1, <2>2, <2>3
  <2> QED BY <2>3, <2>5, <2>6 DEF links
<1> QED BY <1>2, <1>3

\* The updates that updateReducer goes through, if any, are the ones after the base.
LEMMA HookIsListed ==
  ASSUME IsFiniteSet(MadeUpdates), NEW h \in Seq(MadeUpdates), IsInjective(h),
         next \in [Update -> Update \cup {None}],
         CircleOf(next, h), NEW queue, queue.last = LastOf(h),
         NEW b \in 0 .. Len(h), NEW baseUpdate, baseUpdate = IF b = 0 THEN None ELSE h[b]
  PROVE  LET links   == HookOpened(next, queue, baseUpdate)
             updates == Listed(links, HookFirst(links, queue, baseUpdate))
         IN  updates = <<>> \/ Rest(updates, h, b)
<1> DEFINE links == HookOpened(next, queue, baseUpdate)
           first == HookFirst(links, queue, baseUpdate)
<1>1. h \in Seq(Update)
  BY DEF MadeUpdates
<1>2. /\ links \in [Update -> Update \cup {None}] /\ CircleOf(links, h)
      /\ h # <<>> /\ b # 0 => links[h[Len(h)]] = None
  BY <1>1, OpenedLinks
<1>3. Len(h) \in Nat /\ None \notin Update /\ \A i \in 1 .. Len(h) : h[i] \in Update
  BY <1>1, UpdateAssumption
<1>4. first = None \/ (b < Len(h) /\ first = h[b + 1])
  <2>1. CASE b = 0
    <3>1. first = IF queue.last = None THEN None ELSE links[queue.last]
      BY <2>1 DEF HookFirst
    <3> HIDE DEF first, links
    <3>2. CASE h = <<>>
      BY <3>1, <3>2 DEF LastOf
    <3>3. CASE h # <<>>
      <4>1. queue.last = h[Len(h)] /\ h[Len(h)] \in Update /\ b < Len(h)
        BY <1>3, <2>1, <3>3 DEF LastOf
      <4>2. first = links[h[Len(h)]]
        BY <1>3, <3>1, <4>1
      <4> QED BY <1>2, <2>1, <3>3, <4>1, <4>2 DEF CircleOf
    <3> QED BY <3>2, <3>3
  <2>2. CASE b # 0
    <3>1. first = links[h[b]]
      BY <1>3, <2>2 DEF HookFirst
    <3> HIDE DEF first, links
    <3>2. CASE b = Len(h)
      BY <1>2, <1>3, <2>2, <3>1, <3>2
    <3>3. CASE b # Len(h)
      <4>1. b \in 1 .. Len(h) - 1
        BY <1>3, <2>2, <3>3
      <4> QED BY <1>2, <3>1, <4>1 DEF CircleOf
    <3> QED BY <3>2, <3>3
  <2> QED BY <2>1, <2>2
<1> HIDE DEF first, links
<1>5. CASE first = None
  BY <1>5 DEF Listed, first, links
<1>6. CASE b < Len(h) /\ first = h[b + 1]
  <2>1. b \in 0 .. Len(h) - 1 /\ h # <<>>
    BY <1>3, <1>6
  <2>2. \A i \in b + 1 .. Len(h) - 1 : links[h[i]] = h[i + 1]
    <3>1. \A i \in b + 1 .. Len(h) - 1 : i \in 1 .. Len(h) - 1
      OBVIOUS
    <3> QED BY <1>2, <3>1 DEF CircleOf
  <2>3. links[h[Len(h)]] \in {None, h[b + 1]}
    BY <1>2, <2>1 DEF CircleOf
  <2>4. Rest(Listed(links, h[b + 1]), h, b)
    BY <1>2, <2>1, <2>2, <2>3, LinkedAreListed
  <2> QED BY <1>6, <2>4 DEF first, links
<1> QED BY <1>4, <1>5, <1>6

\* What is made of a hook whose updates are these.
LEMMA ProcessedHookList ==
  ASSUME NEW queue, NEW base, NEW baseUpdate, NEW render, NEW updates \in Seq(Update),
         LET links == HookOpened(next, queue, baseUpdate)
         IN  updates = Listed(links, HookFirst(links, queue, baseUpdate))
  PROVE  LET settled == Settled(updates, render)
         IN  HookProcessed(queue, base, baseUpdate, render) =
               [ base       |-> HookAppliedSome(base, updates, Range(SubSeq(updates, 1, settled))),
                 baseUpdate |-> IF settled = 0 THEN baseUpdate ELSE updates[settled],
                 state      |-> HookAppliedSome(base, updates, Due(updates, render)),
                 remaining  |-> Remaining(updates, render),
                 empty      |-> updates = <<>> ]
BY DEF HookProcessed

\* With no updates there is nothing to do.
LEMMA NoneApplied ==
  ASSUME NEW h \in Seq(Update), NEW b \in 0 .. Len(h),
         \A i \in 1 .. Len(h) : eager[h[i]] = <<>> \/ eager[h[i]][1] \in Possible(h)[i],
         NEW base \in Possible(h)[b], NEW some
  PROVE  HookAppliedSome(base, <<>>, some) = base
<1> DEFINE U == Range(h)
<1>1. h \in Seq(U) /\ Len(h) \in Nat /\ U = { h[i] : i \in 1 .. Len(h) }
  BY ListOfItsOwn DEF Range
<1>2. base \in Seq(U)
  BY <1>1, PossibleStates
<1> HIDE DEF U
<1>3. \A u \in U : eager[u] = <<>> \/ eager[u][1] \in Seq(U)
  <2> SUFFICES ASSUME NEW i \in 1 .. Len(h)
               PROVE  eager[h[i]] = <<>> \/ eager[h[i]][1] \in Seq(U)
    BY <1>1
  <2>1. Possible(h)[i] \subseteq Seq(U)
    BY <1>1, PossibleStates
  <2> QED BY <2>1
<1>4. ASSUME NEW none \in Seq(U) PROVE
        \E f : /\ InTurn(f, Len(none), base, Seq(U))
               /\ f[Len(none)] = HookAppliedSome(base, none, some)
               /\ \A i \in 1 .. Len(none) :
                    f[i] = IF none[i] \in some THEN HookApplied(f[i - 1], none[i]) ELSE f[i - 1]
  BY <1>2, <1>3, HookAppliedInTurn
<1>5. ASSUME NEW none \in Seq(U), Len(none) = 0 PROVE HookAppliedSome(base, none, some) = base
  BY <1>4, <1>5 DEF InTurn
<1>6. <<>> \in Seq(U) /\ Len(<<>>) = 0
  OBVIOUS
<1> QED BY <1>5, <1>6

\* updateReducer: the state is made of some of the updates of the component, and
\* its base of some of those before the new base update.
LEMMA HookIsProcessed ==
  ASSUME IsFiniteSet(MadeUpdates), NEW h \in Seq(MadeUpdates), IsInjective(h),
         next \in [Update -> Update \cup {None}], level \in [Update -> Levels \cup {NotMade}],
         CircleOf(next, h), NEW queue, queue.last = LastOf(h),
         \A i \in 1 .. Len(h) : eager[h[i]] = <<>> \/ eager[h[i]][1] \in Possible(h)[i],
         NEW b \in 0 .. Len(h), NEW base, NEW baseUpdate, HookFrom(base, baseUpdate, h, b),
         NEW render
  PROVE  LET result == HookProcessed(queue, base, baseUpdate, render)
         IN  /\ result.state \in Possible(h)[Len(h)] /\ result.remaining \in Levels
             /\ \E c \in 0 .. Len(h) : HookFrom(result.base, result.baseUpdate, h, c)
<1> DEFINE links   == HookOpened(next, queue, baseUpdate)
           updates == Listed(links, HookFirst(links, queue, baseUpdate))
           settled == Settled(updates, render)
           due     == Due(updates, render)
           front   == Range(SubSeq(updates, 1, settled))
           result  == HookProcessed(queue, base, baseUpdate, render)
<1>1. base \in Possible(h)[b] /\ baseUpdate = IF b = 0 THEN None ELSE h[b]
  BY DEF HookFrom
<1>2. updates = <<>> \/ Rest(updates, h, b)
  BY <1>1, HookIsListed
<1>3. h \in Seq(Update) /\ Len(h) \in Nat
  BY DEF MadeUpdates
<1>4. updates \in Seq(Update) /\ Range(updates) \subseteq Range(h) /\ Len(updates) \in Nat
  <2> HIDE DEF updates
  <2>1. CASE updates = <<>>
    BY <2>1 DEF Range
  <2>2. CASE Rest(updates, h, b)
    BY <1>3, <2>2, RestHas
  <2> QED BY <1>2, <2>1, <2>2
<1>5. result = [ base       |-> HookAppliedSome(base, updates, front),
                 baseUpdate |-> IF settled = 0 THEN baseUpdate ELSE updates[settled],
                 state      |-> HookAppliedSome(base, updates, due),
                 remaining  |-> Remaining(updates, render),
                 empty      |-> updates = <<>> ]
  BY <1>4, ProcessedHookList
<1> HIDE DEF links, updates, result
<1>6. settled \in 0 .. Len(updates)
  BY <1>4, SettledBounds
<1>7. result.remaining \in Levels
  <2>1. \A u \in Range(updates) : level[u] \in Levels
    BY <1>4, ListOfItsOwn DEF MadeUpdates
  <2>2. Remaining(updates, render) \in Levels
    BY <2>1, RemainingLevel
  <2> QED BY <1>5, <2>2
<1>8. CASE updates = <<>>
  <2>1. HookAppliedSome(base, updates, due) = base /\ HookAppliedSome(base, updates, front) = base
    <3> HIDE DEF due, front
    <3> QED BY <1>1, <1>3, <1>8, NoneApplied
  <2>2. settled = 0
    BY <1>6, <1>8
  <2> HIDE DEF due, front, settled
  <2>3. result.state = base /\ result.base = base /\ result.baseUpdate = baseUpdate
    BY <1>5, <2>1, <2>2
  <2>4. base \in Possible(h)[Len(h)]
    BY <1>1, <1>3, PossibleStays
  <2> QED BY <1>7, <2>3, <2>4 DEF result
<1>9. CASE Rest(updates, h, b)
  <2>1. /\ HookAppliedSome(base, updates, due) \in Possible(h)[Len(h)]
        /\ HookAppliedSome(base, updates, front) \in Possible(h)[b + settled]
    <3> HIDE DEF due, settled
    <3>1. /\ \A some : HookAppliedSome(base, updates, some) \in Possible(h)[Len(h)]
          /\ \A m \in 0 .. Len(updates) : HookAppliedSome(base, updates,
                       Range(SubSeq(updates, 1, m))) \in Possible(h)[b + m]
      BY <1>1, <1>3, <1>9, RestHookApplied
    <3> QED BY <1>6, <3>1
  <2> HIDE DEF due, front, settled
  <2>2. /\ Len(updates) = Len(h) - b
        /\ \A i \in 1 .. Len(updates) : updates[i] = h[b + i]
    BY <1>3, <1>9, RestHas
  <2>3. b + settled \in 0 .. Len(h) /\ b \in Nat /\ settled \in Nat
    BY <1>3, <1>4, <1>6, <2>2
  <2>4. result.baseUpdate = IF b + settled = 0 THEN None ELSE h[b + settled]
    <3>1. CASE settled = 0
      BY <1>1, <1>5, <2>3, <3>1
    <3>2. CASE settled # 0
      <4>1. settled \in 1 .. Len(updates) /\ b + settled # 0
        BY <1>4, <1>6, <2>3, <3>2
      <4> QED BY <1>5, <2>2, <3>2, <4>1
    <3> QED BY <3>1, <3>2
  <2>5. HookFrom(result.base, result.baseUpdate, h, b + settled)
    BY <1>5, <2>1, <2>4 DEF HookFrom
  <2>6. result.state \in Possible(h)[Len(h)]
    BY <1>5, <2>1
  <2> QED BY <1>7, <2>3, <2>5, <2>6 DEF result
<1> QED BY <1>2, <1>8, <1>9

-----------------------------------------------------------------------------
\* All updates of a component, in the order in which they were made; the root has
\* the one that mounted the tree before its own.
History(n) == IF n = Root THEN <<MountUpdate>> \o made[n] ELSE made[n]
Owner(u)   == IF u = MountUpdate THEN Root ELSE Target[u]

\* An update is made once, of the component it is an update of, and is in no list
\* before that.
MadeOnce ==
  /\ made \in [Node -> Seq(Update)]
  /\ \A n \in Node : IsInjective(made[n])
  /\ \A n \in Node : \A u \in Range(made[n]) : Target[u] = n /\ u # MountUpdate
  /\ \A u \in Update :
       level[u] # NotMade <=> (u = MountUpdate \/ u \in Range(made[Target[u]]))
  /\ \A u \in Update : level[u] = NotMade => next[u] = None /\ eager[u] = <<>>
  /\ IsFiniteSet(MadeUpdates)

LEMMA HistoryElements ==
  ASSUME MadeOnce, NEW n \in Node
  PROVE  /\ History(n) \in Seq(Update) /\ IsInjective(History(n))
         /\ \A u \in Range(History(n)) : u \in MadeUpdates /\ Owner(u) = n
<1>1. made[n] \in Seq(Update) /\ IsInjective(made[n]) /\ MountUpdate \in Update
  BY TreeAssumption DEF MadeOnce
<1>2. \A u \in Range(made[n]) : /\ u \in Update /\ u # MountUpdate /\ Target[u] = n
                               /\ u \in MadeUpdates
  <2>1. Range(made[n]) \subseteq Update
    BY <1>1, ListOfItsOwn
  <2> QED BY <2>1 DEF MadeOnce, MadeUpdates
<1>3. CASE n # Root
  <2>1. History(n) = made[n]
    BY <1>3 DEF History
  <2> QED BY <1>1, <1>2, <2>1 DEF Owner
<1>4. CASE n = Root
  <2> DEFINE h == made[n]
             g == <<MountUpdate>> \o h
  <2>1. History(n) = g
    BY <1>4 DEF History
  <2>2. g \in Seq(Update)
    BY <1>1
  <2>3. Len(h) \in Nat /\ DOMAIN h = 1 .. Len(h)
    BY <1>1
  <2>4. Len(g) = Len(h) + 1 /\ g[1] = MountUpdate
    BY <1>1
  <2>5. \A i \in 2 .. Len(h) + 1 : g[i] = h[i - 1] /\ i - 1 \in 1 .. Len(h)
    BY <1>1, <2>3
  <2>6. \A i \in 1 .. Len(h) : h[i] \in Range(h)
    BY <2>3 DEF Range
  <2> HIDE DEF g
  <2>7. DOMAIN g = 1 .. Len(h) + 1
    BY <2>2, <2>4
  <2>8. \A i \in 1 .. Len(h) + 1 : i = 1 \/ i \in 2 .. Len(h) + 1
    BY <2>3
  <2>9. \A u \in Range(g) : u = MountUpdate \/ u \in Range(h)
    <3>1. \A i \in 1 .. Len(h) + 1 : g[i] = MountUpdate \/ g[i] \in Range(h)
      BY <2>4, <2>5, <2>6, <2>8
    <3> QED BY <2>7, <3>1 DEF Range
  <2>10. IsInjective(g)
    <3> SUFFICES ASSUME NEW i \in 1 .. Len(h) + 1, NEW j \in 1 .. Len(h) + 1, g[i] = g[j]
                 PROVE  i = j
      BY <2>7 DEF IsInjective
    <3>1. CASE i = 1 /\ j = 1
      BY <3>1
    <3>2. CASE i = 1 /\ j \in 2 .. Len(h) + 1
      <4>1. g[j] \in Range(h)
        BY <2>5, <2>6, <3>2
      <4> QED BY <1>2, <2>4, <3>2, <4>1
    <3>3. CASE j = 1 /\ i \in 2 .. Len(h) + 1
      <4>1. g[i] \in Range(h)
        BY <2>5, <2>6, <3>3
      <4> QED BY <1>2, <2>4, <3>3, <4>1
    <3>4. CASE i \in 2 .. Len(h) + 1 /\ j \in 2 .. Len(h) + 1
      <4>1. h[i - 1] = h[j - 1] /\ i - 1 \in 1 .. Len(h) /\ j - 1 \in 1 .. Len(h)
        BY <2>5, <3>4
      <4>2. i - 1 = j - 1
        BY <1>1, <2>3, <4>1 DEF IsInjective
      <4> QED BY <3>4, <4>2
    <3> QED BY <2>8, <3>1, <3>2, <3>3, <3>4
  <2>11. MountUpdate \in MadeUpdates
    BY <1>1 DEF MadeOnce, MadeUpdates
  <2>12. \A u \in Range(g) : u \in MadeUpdates /\ Owner(u) = n
    BY <1>2, <1>4, <2>9, <2>11 DEF Owner
  <2> QED BY <2>1, <2>2, <2>10, <2>12
<1> QED BY <1>3, <1>4

LEMMA Histories ==
  ASSUME MadeOnce, NEW n \in Node
  PROVE  LET h == History(n)
         IN  /\ h \in Seq(Update) /\ h \in Seq(MadeUpdates) /\ IsInjective(h)
             /\ Len(h) \in Nat /\ DOMAIN h = 1 .. Len(h)
             /\ \A i \in 1 .. Len(h) : /\ h[i] \in Update /\ h[i] \in MadeUpdates
                                       /\ Owner(h[i]) = n
<1> DEFINE h == History(n)
<1>1. h \in Seq(Update) /\ IsInjective(h)
  BY HistoryElements
<1>2. \A u \in Range(h) : u \in MadeUpdates /\ Owner(u) = n
  BY HistoryElements
<1> HIDE DEF h
<1>3. Len(h) \in Nat /\ DOMAIN h = 1 .. Len(h) /\ \A i \in 1 .. Len(h) : h[i] \in Update
  BY <1>1
<1>4. \A i \in 1 .. Len(h) : h[i] \in Range(h)
  BY <1>3 DEF Range
<1>5. \A i \in 1 .. Len(h) : h[i] \in MadeUpdates /\ Owner(h[i]) = n
  BY <1>2, <1>4
<1>6. h \in Seq(MadeUpdates)
  BY <1>1, <1>5
<1> QED BY <1>1, <1>3, <1>5, <1>6 DEF h

\* One more update at the end of a list.
LEMMA PossibleGrows ==
  ASSUME NEW h \in Seq(Update), NEW u \in Update
  PROVE  LET g == Append(h, u)
         IN  /\ g \in Seq(Update) /\ Len(g) = Len(h) + 1 /\ g[Len(h) + 1] = u
             /\ \A i \in 1 .. Len(h) : g[i] = h[i]
             /\ \A k \in 0 .. Len(h) : Possible(g)[k] = Possible(h)[k]
             /\ \A x \in Possible(h)[Len(h)] : /\ x \in Possible(g)[Len(h) + 1]
                                               /\ Applied(x, u) \in Possible(g)[Len(h) + 1]
<1> DEFINE g == Append(h, u)
<1>1. /\ g \in Seq(Update) /\ Len(g) = Len(h) + 1 /\ g[Len(h) + 1] = u /\ Len(h) \in Nat
      /\ \A i \in 1 .. Len(h) : g[i] = h[i]
  OBVIOUS
<1> HIDE DEF g
<1>2. Len(h) \in 0 .. Len(g) /\ Len(h) <= Len(h) /\ Len(h) + 1 \in 1 .. Len(g)
      /\ (Len(h) + 1) - 1 = Len(h)
  BY <1>1
<1>3. \A k \in 0 .. Len(h) : Possible(g)[k] = Possible(h)[k]
  <2>1. \A i \in 1 .. Len(h) : g[i] = h[i]
    BY <1>1
  <2> QED BY <1>1, <1>2, <2>1, PossibleFront
<1>4. ASSUME NEW x \in Possible(h)[Len(h)]
      PROVE  x \in Possible(g)[Len(h) + 1] /\ Applied(x, u) \in Possible(g)[Len(h) + 1]
  <2>1. x \in Possible(g)[(Len(h) + 1) - 1]
    BY <1>1, <1>2, <1>3
  <2> QED BY <1>1, <1>2, <2>1, PossibleNext
<1> QED BY <1>1, <1>3, <1>4 DEF g

LEMMA HistoryGrows ==
  ASSUME MadeOnce, NEW u \in Update, level[u] = NotMade, NEW n \in Node, n = Target[u],
         made' = [made EXCEPT ![n] = Append(@, u)]
  PROVE  /\ History(n)' = Append(History(n), u)
         /\ \A m \in Node \ {n} : History(m)' = History(m)
         /\ \A m \in Node : \A i \in 1 .. Len(History(m)) : History(m)[i] # u
<1>1. made \in [Node -> Seq(Update)]
  BY DEF MadeOnce
<1>2. made'[n] = Append(made[n], u) /\ \A m \in Node \ {n} : made'[m] = made[m]
  BY <1>1
<1>3. \A m \in Node \ {n} : History(m)' = History(m)
  BY <1>2 DEF History
<1>4. History(n)' = Append(History(n), u)
  <2>1. MountUpdate \in Update /\ made[n] \in Seq(Update)
    BY <1>1, TreeAssumption
  <2>2. <<MountUpdate>> \o Append(made[n], u) = Append(<<MountUpdate>> \o made[n], u)
    BY <2>1
  <2> QED BY <1>2, <2>2 DEF History
<1>5. \A m \in Node : \A i \in 1 .. Len(History(m)) : History(m)[i] # u
  <2> SUFFICES ASSUME NEW m \in Node, NEW i \in 1 .. Len(History(m)) PROVE History(m)[i] # u
    OBVIOUS
  <2>1. History(m)[i] \in MadeUpdates
    BY Histories
  <2> QED BY <2>1 DEF MadeUpdates
<1> QED BY <1>3, <1>4, <1>5

LEMMA MadeOnceMore ==
  ASSUME MadeOnce, NEW u \in Update, level[u] = NotMade, NEW n \in Node, n = Target[u],
         level \in [Update -> Levels \cup {NotMade}],
         made' = [made EXCEPT ![n] = Append(@, u)],
         NEW expiration \in Levels, level' = [level EXCEPT ![u] = expiration],
         \A v \in Update : v # u /\ level[v] = NotMade => next'[v] = None /\ eager'[v] = <<>>
  PROVE  MadeOnce' /\ level' \in [Update -> Levels \cup {NotMade}]
<1>1. made \in [Node -> Seq(Update)]
  BY DEF MadeOnce
<1>2. /\ made' \in [Node -> Seq(Update)]
      /\ made'[n] = Append(made[n], u) /\ \A m \in Node \ {n} : made'[m] = made[m]
  BY <1>1
<1>3. u # MountUpdate /\ u \notin Range(made[n]) /\ NotMade \notin Levels
  BY ConstantTypes DEF MadeOnce, NotMade, Levels, NoWork
<1>4. /\ level' \in [Update -> Levels \cup {NotMade}] /\ level'[u] = expiration
      /\ \A v \in Update \ {u} : level'[v] = level[v]
  OBVIOUS
<1>5. Range(made'[n]) = Range(made[n]) \cup {u} /\ IsInjective(made'[n])
  <2> DEFINE h == made[n]
             g == Append(h, u)
  <2>1. h \in Seq(Update) /\ Len(h) \in Nat /\ DOMAIN h = 1 .. Len(h)
    BY <1>1
  <2>2. /\ DOMAIN g = 1 .. Len(h) + 1 /\ g[Len(h) + 1] = u
        /\ \A i \in 1 .. Len(h) : g[i] = h[i]
    BY <2>1
  <2>3. IsInjective(h) /\ u \notin Range(h)
    BY <1>3 DEF MadeOnce
  <2> HIDE DEF g, h
  <2>4. \A i \in 1 .. Len(h) + 1 : i = Len(h) + 1 \/ i \in 1 .. Len(h)
    BY <2>1
  <2>5. \A i \in 1 .. Len(h) : i \in 1 .. Len(h) + 1 /\ h[i] \in Range(h)
    BY <2>1 DEF Range
  <2>6. Len(h) + 1 \in 1 .. Len(h) + 1
    BY <2>1
  <2>7. Range(g) = Range(h) \cup {u}
    <3>1. Range(h) = { h[i] : i \in 1 .. Len(h) }
      BY <2>1 DEF Range
    <3>2. Range(g) = { g[i] : i \in 1 .. Len(h) + 1 }
      BY <2>2 DEF Range
    <3>3. \A i \in 1 .. Len(h) + 1 : g[i] \in Range(h) \cup {u}
      BY <2>2, <2>4, <2>5
    <3>4. \A i \in 1 .. Len(h) : h[i] \in Range(g)
      BY <2>2, <2>5, <3>2
    <3>5. u \in Range(g)
      BY <2>2, <2>6, <3>2
    <3> QED BY <3>1, <3>2, <3>3, <3>4, <3>5
  <2>8. IsInjective(g)
    <3> SUFFICES ASSUME NEW i \in 1 .. Len(h) + 1, NEW j \in 1 .. Len(h) + 1, g[i] = g[j]
                 PROVE  i = j
      BY <2>2 DEF IsInjective
    <3>1. CASE i \in 1 .. Len(h) /\ j \in 1 .. Len(h)
      BY <2>1, <2>2, <2>3, <3>1 DEF IsInjective
    <3>2. CASE i = Len(h) + 1 /\ j = Len(h) + 1
      BY <3>2
    <3>3. CASE i = Len(h) + 1 /\ j \in 1 .. Len(h)
      BY <2>2, <2>3, <2>5, <3>3
    <3>4. CASE j = Len(h) + 1 /\ i \in 1 .. Len(h)
      BY <2>2, <2>3, <2>5, <3>4
    <3> QED BY <2>4, <3>1, <3>2, <3>3, <3>4
  <2> QED BY <1>2, <2>7, <2>8 DEF g, h
<1>6. \A m \in Node : IsInjective(made'[m])
  BY <1>2, <1>5 DEF MadeOnce
<1>7. \A m \in Node : \A v \in Range(made'[m]) : Target[v] = m /\ v # MountUpdate
  BY <1>2, <1>3, <1>5 DEF MadeOnce
<1>8. \A v \in Update :
        level'[v] # NotMade <=> (v = MountUpdate \/ v \in Range(made'[Target[v]]))
  <2> SUFFICES ASSUME NEW v \in Update
               PROVE  level'[v] # NotMade <=> (v = MountUpdate \/ v \in Range(made'[Target[v]]))
    OBVIOUS
  <2>1. Target[v] \in Node
    BY WorkLoopAssumption
  <2>2. CASE v = u
    BY <1>3, <1>4, <1>5, <2>2
  <2>3. CASE v # u
    <3>1. v \in Range(made'[Target[v]]) <=> v \in Range(made[Target[v]])
      BY <1>2, <1>5, <2>1, <2>3
    <3> QED BY <1>4, <2>3, <3>1 DEF MadeOnce
  <2> QED BY <2>2, <2>3
<1>9. \A v \in Update : level'[v] = NotMade => next'[v] = None /\ eager'[v] = <<>>
  BY <1>3, <1>4
<1>10. IsFiniteSet(MadeUpdates')
  <2>1. MadeUpdates' = MadeUpdates \cup {u}
    BY <1>3, <1>4 DEF MadeUpdates
  <2>2. IsFiniteSet(MadeUpdates)
    BY DEF MadeOnce
  <2> QED BY <2>1, <2>2, FS_AddElement
<1> QED BY <1>2, <1>4, <1>6, <1>7, <1>8, <1>9, <1>10 DEF MadeOnce

-----------------------------------------------------------------------------
\* What is known of the list of a component and of each of its fibers.
HookList(n) ==
  /\ CircleOf(next, History(n)) /\ hooks[n].last = LastOf(History(n))
  /\ hooks[n].rendered \in Possible(History(n))[Len(History(n))]
  /\ \A i \in 1 .. Len(History(n)) :
       \/ eager[History(n)[i]] = <<>>
       \/ eager[History(n)[i]][1] \in Possible(History(n))[i]
HookSide(n, x) ==
  /\ x.queue = 0 /\ x.state \in Possible(History(n))[Len(History(n))]
  /\ \E b \in 0 .. Len(History(n)) : HookFrom(x.base, x.baseUpdate, History(n), b)

ClassList(n) == History(n) # <<>> => next[History(n)[Len(History(n))]] = None
ClassSide(n, x) ==
  /\ x.state \in Possible(History(n))[Len(History(n))] /\ x.base = <<>> /\ x.baseUpdate = None
  /\ x.queue = 0 <=> (History(n) = <<>> \/ ~x.exists)
  /\ x.queue # 0 => QueueOver(queues[n][x.queue], History(n))

ListOf(n)    == IF n \in Functions THEN HookList(n) ELSE ClassList(n)
SideOf(n, x) == IF n \in Functions THEN HookSide(n, x) ELSE ClassSide(n, x)
NodeLists(n) == ListOf(n) /\ \A s \in Sides : SideOf(n, fiber[n][s])

HookSet == [last : Update \cup {None}, rendered : Seq(Update)]
FiberTrees == [Node -> [Sides -> FiberSet]]

UpdatesTyped ==
  /\ fiber \in FiberTrees /\ queues \in [Node -> [Sides -> QueueSet]]
  /\ hooks \in [Node -> HookSet]
  /\ level \in [Update -> Levels \cup {NotMade}] /\ next \in [Update -> Update \cup {None}]
  /\ eager \in [Update -> Seq(Seq(Update))]

Lists == UpdatesTyped /\ MadeOnce /\ \A n \in Node : NodeLists(n)

\* Two fibers, or queues, that are the same but for what the lists are not about.
SameLists(x, y) ==
  /\ x.exists = y.exists /\ x.state = y.state /\ x.queue = y.queue
  /\ x.base = y.base /\ x.baseUpdate = y.baseUpdate
SameQueue(p, q) == p.base = q.base /\ p.first = q.first /\ p.last = q.last

LEMMA SameSide ==
  ASSUME NEW n, NEW x, NEW y, SameLists(y, x), SideOf(n, x)
  PROVE  SideOf(n, y)
BY Zenon DEF SameLists, SideOf, HookSide, ClassSide

\* A component whose list a step does not change.
LEMMA OtherLists ==
  ASSUME MadeOnce, NEW n \in Node, NodeLists(n), History(n)' = History(n),
         \A i \in 1 .. Len(History(n)) :
           next'[History(n)[i]] = next[History(n)[i]] /\ eager'[History(n)[i]] = eager[History(n)[i]],
         \A s \in Sides : SameQueue(queues'[n][s], queues[n][s]), hooks'[n] = hooks[n],
         \A s \in Sides : fiber[n][s].queue \in {0} \cup Sides,
         \A s \in Sides : \E t \in Sides : SameLists(fiber'[n][s], fiber[n][t])
  PROVE  NodeLists(n)'
<1> DEFINE h == History(n)
<1>1. Len(h) \in Nat /\ h' = h
  BY Histories
<1>2. ASSUME n \in Functions PROVE NodeLists(n)'
  <2>1. HookList(n) /\ \A s \in Sides : HookSide(n, fiber[n][s])
    BY <1>2 DEF NodeLists, ListOf, SideOf
  <2>2. CircleOf(next', h)
    <3>1. CircleOf(next, h)
      BY <2>1 DEF HookList
    <3>2. \A i \in 1 .. Len(h) - 1 : next'[h[i]] = h[i + 1]
      <4> HIDE DEF h
      <4>1. \A i \in 1 .. Len(h) - 1 : i \in 1 .. Len(h)
        BY <1>1
      <4> QED BY <3>1, <4>1 DEF CircleOf, h
    <3>3. h # <<>> => next'[h[Len(h)]] \in {None, h[1]}
      <4>1. h # <<>> => Len(h) \in 1 .. Len(h)
        BY Histories
      <4> QED BY <3>1, <4>1 DEF CircleOf
    <3> QED BY <3>2, <3>3 DEF CircleOf
  <2>3. HookList(n)'
    <3>1. CircleOf(next, h)'
      BY <1>1, <2>2 DEF CircleOf
    <3>2. (hooks[n].last = LastOf(h))'
      BY <2>1 DEF HookList, LastOf
    <3>3. (hooks[n].rendered \in Possible(h)[Len(h)])'
      BY <2>1 DEF HookList
    <3>4. (\A i \in 1 .. Len(h) : eager[h[i]] = <<>> \/ eager[h[i]][1] \in Possible(h)[i])'
      BY <2>1 DEF HookList
    <3> QED BY <3>1, <3>2, <3>3, <3>4 DEF HookList
  <2>4. ASSUME NEW s \in Sides PROVE HookSide(n, fiber[n][s])'
    <3>1. PICK t \in Sides : SameLists(fiber'[n][s], fiber[n][t])
      OBVIOUS
    <3> QED BY <1>1, <2>1, <3>1 DEF HookSide, SameLists
  <2> QED BY <1>2, <2>3, <2>4 DEF NodeLists, ListOf, SideOf
<1>3. ASSUME n \notin Functions PROVE NodeLists(n)'
  <2>1. ClassList(n) /\ \A s \in Sides : ClassSide(n, fiber[n][s])
    BY <1>3 DEF NodeLists, ListOf, SideOf
  <2>2. ClassList(n)'
    <3>1. h # <<>> => Len(h) \in 1 .. Len(h)
      BY Histories
    <3> QED BY <1>1, <2>1, <3>1 DEF ClassList
  <2>3. ASSUME NEW i \in Sides, QueueOver(queues[n][i], h) PROVE QueueOver(queues[n][i], h)'
    <3>1. PICK b \in 0 .. Len(h) : QueueFrom(queues[n][i], h, b)
      BY <2>3 DEF QueueOver
    <3>2. \A j \in b + 1 .. Len(h) - 1 : next'[h[j]] = h[j + 1]
      <4>1. \A j \in b + 1 .. Len(h) - 1 : j \in 1 .. Len(h)
        <5> HIDE DEF h
        <5> QED BY <1>1
      <4>2. \A j \in b + 1 .. Len(h) - 1 : next[h[j]] = h[j + 1]
        BY <3>1 DEF QueueFrom
      <4> QED BY <4>1, <4>2
    <3>3. QueueFrom(queues[n][i], h, b)'
      BY <1>1, <3>1, <3>2 DEF QueueFrom, SameQueue
    <3> QED BY <1>1, <3>3 DEF QueueOver
  <2>4. ASSUME NEW s \in Sides PROVE ClassSide(n, fiber[n][s])'
    <3>1. PICK t \in Sides : SameLists(fiber'[n][s], fiber[n][t])
      OBVIOUS
    <3>2. ClassSide(n, fiber[n][t]) /\ fiber[n][t].queue \in {0} \cup Sides
      BY <2>1
    <3>3. fiber'[n][s].queue # 0 => QueueOver(queues[n][fiber[n][s].queue], h)'
      <4> SUFFICES ASSUME fiber'[n][s].queue # 0
                   PROVE  QueueOver(queues[n][fiber[n][s].queue], h)'
        OBVIOUS
      <4>1. PICK q \in Sides : q = fiber[n][t].queue /\ q = fiber'[n][s].queue
        BY <3>1, <3>2 DEF SameLists
      <4>2. QueueOver(queues[n][q], h)
        BY <3>1, <3>2, <4>1 DEF ClassSide, SameLists
      <4>3. QueueOver(queues[n][q], h)'
        BY <2>3, <4>2
      <4> QED BY <4>1, <4>3 DEF QueueOver, QueueFrom
    <3> QED BY <1>1, <3>1, <3>2, <3>3 DEF ClassSide, SameLists
  <2> QED BY <1>3, <2>2, <2>4 DEF NodeLists, ListOf, SideOf
<1> QED BY <1>2, <1>3

-----------------------------------------------------------------------------
\* A tree is one of fibers, as the lemmas about the screen have it.
LEMMA TreesAreFibers == \A f \in FiberTrees : AreFibers(f)
BY DEF FiberTrees, FiberSet, AreFibers

\* The side on the screen has fibers, and so have the children of those that there
\* are; the root has both.
Alive(f) ==
  /\ \A s \in Sides : f[Root][s].exists
  /\ \A n \in Node : f[n][1].exists
  /\ \A n \in Children, s \in Sides :
       f[Parent[n]][s].exists => f[n][f[Parent[n]][s].kids].exists

\* A fiber, and a tree, that differs in its levels only.
SameFiber(x, y) ==
  /\ SameLists(x, y) /\ x.kids = y.kids /\ x.props = y.props /\ x.effect = y.effect

Steady(f, g) ==
  g \in FiberTrees /\ \A n \in Node, s \in Sides : SameFiber(g[n][s], f[n][s])

LEMMA AliveAlike ==
  ASSUME NEW f \in FiberTrees, NEW g, Alive(f),
         \A n \in Node, s \in Sides :
           g[n][s].exists = f[n][s].exists /\ g[n][s].kids = f[n][s].kids
  PROVE  Alive(g)
<1>1. \A n \in Node, s \in Sides : g[n][s].exists = f[n][s].exists /\ g[n][s].kids = f[n][s].kids
  OBVIOUS
<1>2. \A n \in Node, s \in Sides : f[n][s].kids \in Sides
  BY DEF FiberTrees, FiberSet
<1>3. \A n \in Children : Parent[n] \in Node /\ n \in Node
  BY TreeParent
<1>4. Root \in Node /\ 1 \in Sides
  BY TreeAssumption DEF Sides
<1> QED BY <1>1, <1>2, <1>3, <1>4 DEF Alive

LEMMA SteadyIsAlive ==
  ASSUME NEW f \in FiberTrees, NEW g, Steady(f, g), Alive(f)
  PROVE  Alive(g)
BY AliveAlike DEF Steady, SameFiber, SameLists

LEMMA SteadyItself == ASSUME NEW f \in FiberTrees PROVE Steady(f, f)
BY DEF Steady, SameFiber, SameLists

LEMMA SteadyOnceMore ==
  ASSUME NEW f, NEW g, NEW h, Steady(f, g), Steady(g, h) PROVE Steady(f, h)
BY DEF Steady, SameFiber, SameLists

LEMMA HigherLevel ==
  ASSUME NEW a \in Levels, NEW b \in Levels
  PROVE  Max({a, b}) \in Levels
<1>1. Sync \in Nat /\ {a, b} \subseteq 0 .. Sync /\ {a, b} # {} /\ Levels = 0 .. Sync
  BY ConstantTypes DEF Levels, NoWork, Sync
<1>2. Max({a, b}) \in {a, b}
  BY <1>1, GreatestOf
<1> QED BY <1>1, <1>2

\* A fiber with another level is one.
LEMMA OtherLevel ==
  ASSUME NEW x \in FiberSet, NEW time \in Levels
  PROVE  LET y == [x EXCEPT !.time = time]
             z == [x EXCEPT !.childTime = time]
         IN  /\ y \in FiberSet /\ SameFiber(y, x)
             /\ z \in FiberSet /\ SameFiber(z, x)
BY DEF FiberSet, SameFiber, SameLists

LEMMA MarkedIsSteady ==
  ASSUME NEW f \in FiberTrees, NEW n, NEW expiration \in Levels
  PROVE  Steady(f, Marked(f, n, expiration))
<1> DEFINE g == Marked(f, n, expiration)
           raised(time) == Max({time, expiration})
<1>1. PICK above : g = [m \in Node |-> [s \in Sides |->
        IF m = n THEN [f[m][s] EXCEPT !.time = raised(@)]
        ELSE IF m \in above[n]
          THEN [f[m][s] EXCEPT !.childTime = raised(@)] ELSE f[m][s]]]
  BY DEF Marked
<1>2. ASSUME NEW m \in Node, NEW s \in Sides
      PROVE  g[m][s] \in FiberSet /\ SameFiber(g[m][s], f[m][s])
  <2> DEFINE x == f[m][s]
  <2>1. x \in FiberSet /\ x.time \in Levels /\ x.childTime \in Levels
    BY DEF FiberTrees, FiberSet
  <2>2. raised(x.time) \in Levels /\ raised(x.childTime) \in Levels
    BY <2>1, HigherLevel
  <2>3. \/ g[m][s] = [x EXCEPT !.time = raised(x.time)]
        \/ g[m][s] = [x EXCEPT !.childTime = raised(x.childTime)]
        \/ g[m][s] = x
    BY <1>1, Zenon
  <2>4. SameFiber(x, x)
    BY DEF SameFiber, SameLists
  <2> HIDE DEF g, x, raised
  <2>5. ASSUME NEW time \in Levels, \/ g[m][s] = [x EXCEPT !.time = time]
                                    \/ g[m][s] = [x EXCEPT !.childTime = time]
        PROVE  g[m][s] \in FiberSet /\ SameFiber(g[m][s], x)
    BY <2>1, <2>5, OtherLevel
  <2>6. g[m][s] \in FiberSet /\ SameFiber(g[m][s], x)
    BY <2>1, <2>2, <2>3, <2>4, <2>5
  <2> QED BY <2>6 DEF x, g
<1>3. g \in FiberTrees
  <2>1. DOMAIN g = Node /\ \A m \in Node : DOMAIN g[m] = Sides
    BY <1>1
  <2>2. g = [m \in Node |-> [s \in Sides |-> g[m][s]]]
    BY <1>1, Zenon
  <2> HIDE DEF g
  <2> QED BY <1>2, <2>2 DEF FiberTrees
<1> QED BY <1>2, <1>3 DEF Steady

LEMMA ResetIsSteady ==
  ASSUME NEW f \in FiberTrees, NEW n \in Node, NEW side \in Sides, NEW render
  PROVE  Steady(f, ChildTimeReset(f, n, side, render))
<1> DEFINE times == UNION { {f[k][f[n][side].kids].time, f[k][f[n][side].kids].childTime} :
                            k \in Range(Kids[n]) }
           top == Max({NoWork} \cup times)
<1>1. top \in Levels
  <2>1. \A k \in Node : \A s \in Sides : f[k][s].time \in Levels /\ f[k][s].childTime \in Levels
    BY DEF FiberTrees, FiberSet
  <2>2. Range(Kids[n]) \subseteq Node /\ f[n][side].kids \in Sides
    <3>1. Range(Kids[n]) \subseteq Node
      BY TreeKids DEF Children
    <3> QED BY <3>1 DEF FiberTrees, FiberSet
  <2>3. times \subseteq Levels
    BY <2>1, <2>2
  <2> HIDE DEF times
  <2>4. Sync \in Nat /\ Levels = 0 .. Sync /\ NoWork \in Levels
    BY ConstantTypes DEF Levels, NoWork, Sync
  <2>5. {NoWork} \cup times \subseteq 0 .. Sync /\ {NoWork} \cup times # {}
    BY <2>3, <2>4
  <2>6. top \in {NoWork} \cup times
    BY <2>4, <2>5, GreatestOf
  <2> QED BY <2>3, <2>4, <2>6
<1> DEFINE g == ChildTimeReset(f, n, side, render)
<1>2. g = f \/ g = [f EXCEPT ![n][side].childTime = top]
  BY DEF ChildTimeReset
<1> HIDE DEF g, top
<1>3. CASE g = f
  BY <1>3, SteadyItself DEF g
<1>4. CASE g = [f EXCEPT ![n][side].childTime = top]
  <2> DEFINE z == [f[n][side] EXCEPT !.childTime = top]
  <2>1. z \in FiberSet /\ SameFiber(z, f[n][side])
    <3>1. f[n][side] \in FiberSet
      BY DEF FiberTrees
    <3> QED BY <1>1, <3>1, OtherLevel
  <2>2. g \in FiberTrees /\ \A m \in Node, s \in Sides :
          g[m][s] = IF m = n /\ s = side THEN z ELSE f[m][s]
    <3>1. g = [f EXCEPT ![n] = [f[n] EXCEPT ![side] = z]]
      BY <1>4
    <3> HIDE DEF z
    <3> QED BY <2>1, <3>1 DEF FiberTrees
  <2> HIDE DEF z
  <2>3. \A m \in Node, s \in Sides : SameFiber(f[m][s], f[m][s])
    BY DEF SameFiber, SameLists
  <2> QED BY <2>1, <2>2, <2>3 DEF Steady, g
<1> QED BY <1>2, <1>3, <1>4

\* completeUnitOfWork changes no more than levels, either.
LEMMA ResetsAreSteady ==
  ASSUME fiber \in FiberTrees, NEW side \in [Node -> Sides], NEW done \in Seq(Node), NEW render
  PROVE  Steady(fiber, ChildTimesReset(side, done, render))
<1> DEFINE n   == Len(done)
           V   == { g \in FiberTrees : Steady(fiber, g) }
           Reset(v, i) == ChildTimeReset(v, done[i], side[done[i]], render)
           act == [i \in 1 .. n |-> [v \in V |-> Reset(v, i)]]
           Eq(f) == f = [i \in 0 .. n |-> IF i = 0 THEN fiber ELSE Reset(f[i - 1], i)]
<1>1. n \in Nat /\ \A i \in 1 .. n : done[i] \in Node /\ side[done[i]] \in Sides
  OBVIOUS
<1>2. \A i \in 1 .. n, v \in V : Reset(v, i) \in V
  <2> SUFFICES ASSUME NEW i \in 1 .. n, NEW v \in V PROVE Reset(v, i) \in V
    OBVIOUS
  <2>1. Steady(v, Reset(v, i))
    BY <1>1, ResetIsSteady
  <2> HIDE DEF Reset
  <2>2. Steady(fiber, Reset(v, i))
    BY <2>1, SteadyOnceMore
  <2> QED BY <2>2 DEF Steady
<1>3. \A i \in 1 .. n, v \in V : act[i][v] = Reset(v, i) /\ act[i][v] \in V
  <2> HIDE DEF Reset, n, V
  <2> QED BY <1>2
<1> HIDE DEF act, n
<1>4. PICK f \in [0 .. n -> V] : Counts(f, n, fiber, act)
  <2>1. fiber \in V /\ \A i \in 1 .. n : \A v \in V : act[i][v] \in V
    BY <1>3, SteadyItself
  <2> HIDE DEF V
  <2> QED BY <1>1, <2>1, CountingUp
<1>5. Eq(f)
  <2>1. \A i \in 1 .. n : i - 1 \in 0 .. n /\ f[i - 1] \in V
    BY <1>1, <1>4
  <2>2. \A i \in 0 .. n : i = 0 \/ i \in 1 .. n
    BY <1>1
  <2> HIDE DEF V, Reset
  <2> QED BY <1>3, <1>4, <2>1, <2>2 DEF Counts
<1>6. \E g : Eq(g)
  BY <1>5
<1> DEFINE h == CHOOSE g : Eq(g)
<1>7. ChildTimesReset(side, done, render) = h[n] /\ Eq(h)
  BY <1>6, Zenon DEF ChildTimesReset, n
<1> HIDE DEF h
<1>8. h[0] = fiber /\ \A i \in 1 .. n : h[i] = Reset(h[i - 1], i)
  <2> HIDE DEF Reset
  <2> QED BY <1>1, <1>7
<1> DEFINE Good == { i \in 0 .. n : h[i] \in V }
<1>9. 0 .. n \subseteq Good
  <2>1. 0 \in Good
    BY <1>1, <1>8, SteadyItself
  <2>2. \A i \in 1 .. n : i - 1 \in Good => i \in Good
    <3> HIDE DEF V, Reset
    <3> QED BY <1>1, <1>2, <1>8
  <2> HIDE DEF Good
  <2> QED BY <1>1, <2>1, <2>2, UpTo
<1>10. h[n] \in V
  <2> HIDE DEF V
  <2> QED BY <1>1, <1>9
<1> QED BY <1>7, <1>10

-----------------------------------------------------------------------------
\* A copy of a fiber that has not been worked on.
CopyOf(x, y) == SameLists(x, y) /\ x.kids = y.kids /\ x.effect = FALSE

LEMMA FiberIsCopied ==
  ASSUME NEW x \in FiberSet
  PROVE  LET y == [x EXCEPT !.fresh = FALSE, !.effect = FALSE]
         IN  y \in FiberSet /\ CopyOf(y, x) /\ y.props = x.props
BY DEF FiberSet, CopyOf, SameLists

\* createWorkInProgress
LEMMA CopiedInTree ==
  ASSUME NEW f \in FiberTrees, NEW n \in Node, NEW side \in Sides
  PROVE  LET g == WorkInProgress(f, n, side)
         IN  /\ g \in FiberTrees
             /\ CopyOf(g[n][Other(side)], f[n][side])
             /\ g[n][Other(side)].props = f[n][side].props
             /\ \A m \in Node, s \in Sides :
                  (m # n \/ s # Other(side)) => g[m][s] = f[m][s]
<1> DEFINE x == f[n][side]
           y == [x EXCEPT !.fresh = FALSE, !.effect = FALSE]
<1>1. x \in FiberSet /\ Other(side) \in Sides
  BY Others DEF FiberTrees
<1>2. y \in FiberSet /\ CopyOf(y, x) /\ y.props = x.props
  BY <1>1, FiberIsCopied
<1>3. WorkInProgress(f, n, side) = [f EXCEPT ![n][Other(side)] = y]
  BY DEF WorkInProgress
<1> HIDE DEF y
<1>4. ASSUME NEW g, g = [f EXCEPT ![n][Other(side)] = y]
      PROVE  /\ g \in FiberTrees
             /\ \A m \in Node, s \in Sides :
                  g[m][s] = IF m = n /\ s = Other(side) THEN y ELSE f[m][s]
  BY <1>1, <1>2, <1>4 DEF FiberTrees
<1> DEFINE g == WorkInProgress(f, n, side)
<1>5. /\ g \in FiberTrees
      /\ \A m \in Node, s \in Sides :
           g[m][s] = IF m = n /\ s = Other(side) THEN y ELSE f[m][s]
  BY <1>3, <1>4
<1> HIDE DEF g
<1>6. g[n][Other(side)] = y
  BY <1>1, <1>5
<1>7. \A m \in Node, s \in Sides : (m # n \/ s # Other(side)) => g[m][s] = f[m][s]
  BY <1>5
<1> QED BY <1>2, <1>5, <1>6, <1>7 DEF g

\* What becomes of a tree when the children of a fiber are copied.
Bred(f, g, n, side) ==
  LET kids == f[n][side].kids
  IN  /\ g \in FiberTrees
      /\ SameLists(g[n][side], f[n][side]) /\ g[n][side].effect = f[n][side].effect
      /\ g[n][side].kids = Other(kids) /\ g[n][side].props = f[n][side].props
      /\ g[n][Other(side)] = f[n][Other(side)]
      /\ \A k \in Range(Kids[n]) : /\ g[k][kids] = f[k][kids]
                                   /\ CopyOf(g[k][Other(kids)], f[k][kids])
                                   /\ g[k][Other(kids)].props \in {f[k][kids].props, f[n][side].state}
      /\ \A m \in Node, s \in Sides :
           m # n /\ m \notin Range(Kids[n]) => g[m][s] = f[m][s]

LEMMA ClonedAreBred ==
  ASSUME NEW f \in FiberTrees, NEW n \in Node, NEW side \in Sides
  PROVE  LET g == ChildrenCloned(f, n, side)
         IN  /\ Bred(f, g, n, side)
             /\ \A k \in Range(Kids[n]) :
                  g[k][Other(f[n][side].kids)].props = f[k][f[n][side].kids].props
<1> DEFINE kids  == f[n][side].kids
           x     == [f[n][side] EXCEPT !.kids = Other(kids)]
           other == [f EXCEPT ![n][side].kids = Other(kids)]
           g     == ChildrenCloned(f, n, side)
<1>1. kids \in Sides /\ Other(kids) \in Sides /\ f[n][side] \in FiberSet
      /\ Other(side) \in Sides /\ Other(side) # side /\ Other(kids) # kids
  BY Others DEF FiberTrees, FiberSet
<1>2. /\ x \in FiberSet /\ SameLists(x, f[n][side]) /\ x.effect = f[n][side].effect
      /\ x.kids = Other(kids) /\ x.props = f[n][side].props
  <2> HIDE DEF kids
  <2> QED BY <1>1 DEF FiberSet, SameLists
<1> HIDE DEF kids
<1>3. /\ other \in FiberTrees
      /\ \A m \in Node, s \in Sides : other[m][s] = IF m = n /\ s = side THEN x ELSE f[m][s]
  <2>1. other = [f EXCEPT ![n][side] = x]
    OBVIOUS
  <2>2. x \in FiberSet
    BY <1>2
  <2> HIDE DEF x, other
  <2> QED BY <2>1, <2>2 DEF FiberTrees
<1> HIDE DEF x
<1>4. g = [m \in Node |-> IF m \in Range(Kids[n]) THEN WorkInProgress(f, m, kids)[m] ELSE other[m]]
  BY DEF ChildrenCloned, kids
<1> HIDE DEF other, g
<1>5. Range(Kids[n]) \subseteq Node /\ n \notin Range(Kids[n])
  BY TreeKids, NotOwnChild DEF Children
<1>6. ASSUME NEW k \in Range(Kids[n])
      PROVE  /\ g[k] \in [Sides -> FiberSet]
             /\ g[k][kids] = f[k][kids] /\ CopyOf(g[k][Other(kids)], f[k][kids])
             /\ g[k][Other(kids)].props = f[k][kids].props
  <2>1. k \in Node /\ g[k] = WorkInProgress(f, k, kids)[k]
    BY <1>4, <1>5
  <2>2. /\ WorkInProgress(f, k, kids) \in FiberTrees
        /\ CopyOf(WorkInProgress(f, k, kids)[k][Other(kids)], f[k][kids])
        /\ WorkInProgress(f, k, kids)[k][Other(kids)].props = f[k][kids].props
        /\ WorkInProgress(f, k, kids)[k][kids] = f[k][kids]
    BY <1>1, <2>1, CopiedInTree
  <2> QED BY <2>1, <2>2 DEF FiberTrees
<1>7. ASSUME NEW m \in Node, m \notin Range(Kids[n])
      PROVE  g[m] = other[m] /\ g[m] \in [Sides -> FiberSet]
  BY <1>3, <1>4, <1>7 DEF FiberTrees
<1>8. g \in FiberTrees
  BY <1>4, <1>6, <1>7 DEF FiberTrees
<1>9. g[n][side] = x /\ g[n][Other(side)] = f[n][Other(side)]
  BY <1>1, <1>3, <1>5, <1>7
<1>10. \A m \in Node, s \in Sides : m # n /\ m \notin Range(Kids[n]) => g[m][s] = f[m][s]
  BY <1>3, <1>7
<1>11. Bred(f, g, n, side)
  BY <1>2, <1>6, <1>8, <1>9, <1>10 DEF Bred, kids
<1> QED BY <1>6, <1>11 DEF g, kids

LEMMA ReconciledAreBred ==
  ASSUME NEW f \in FiberTrees, NEW n \in Node, NEW side \in Sides
  PROVE  Bred(f, ChildrenReconciled(f, n, side), n, side)
<1> DEFINE kids == f[n][side].kids
           c    == ChildrenCloned(f, n, side)
           g    == ChildrenReconciled(f, n, side)
           New(k) == [c[k][Other(kids)] EXCEPT !.fresh = TRUE, !.props = f[n][side].state]
<1>1. kids \in Sides /\ Other(kids) \in Sides /\ Other(kids) # kids /\ f[n][side].state \in Seq(Update)
  BY Others DEF FiberTrees, FiberSet
<1>2. Bred(f, c, n, side)
  BY ClonedAreBred
<1>3. g = [m \in Node |-> IF m \in Range(Kids[n])
                          THEN [c[m] EXCEPT ![Other(kids)].fresh = TRUE,
                                            ![Other(kids)].props = f[n][side].state]
                          ELSE c[m]]
  BY DEF ChildrenReconciled
<1> HIDE DEF kids, c, g
<1>4. Range(Kids[n]) \subseteq Node /\ n \notin Range(Kids[n])
  BY TreeKids, NotOwnChild DEF Children
<1>5. c \in FiberTrees
  BY <1>2 DEF Bred
<1>6. ASSUME NEW k \in Range(Kids[n])
      PROVE  /\ g[k] = [c[k] EXCEPT ![Other(kids)] = New(k)]
             /\ New(k) \in FiberSet /\ New(k).props = f[n][side].state
             /\ CopyOf(c[k][Other(kids)], f[k][kids]) => CopyOf(New(k), f[k][kids])
  <2>1. k \in Node /\ c[k] \in [Sides -> FiberSet] /\ c[k][Other(kids)] \in FiberSet
    BY <1>1, <1>4, <1>5 DEF FiberTrees
  <2>2. g[k] = [c[k] EXCEPT ![Other(kids)].fresh = TRUE,
                            ![Other(kids)].props = f[n][side].state]
    BY <1>3, <2>1
  <2>3. g[k] = [c[k] EXCEPT ![Other(kids)] = New(k)]
    BY <1>1, <2>1, <2>2
  <2>4. /\ New(k) \in FiberSet /\ New(k).props = f[n][side].state
        /\ CopyOf(c[k][Other(kids)], f[k][kids]) => CopyOf(New(k), f[k][kids])
    BY <1>1, <2>1 DEF FiberSet, CopyOf, SameLists
  <2> QED BY <2>3, <2>4
<1> HIDE DEF New
<1>7. ASSUME NEW k \in Range(Kids[n])
      PROVE  /\ g[k] \in [Sides -> FiberSet]
             /\ g[k][kids] = f[k][kids] /\ CopyOf(g[k][Other(kids)], f[k][kids])
             /\ g[k][Other(kids)].props = f[n][side].state
  <2>1. k \in Node /\ c[k] \in [Sides -> FiberSet]
    BY <1>4, <1>5 DEF FiberTrees
  <2>2. g[k] \in [Sides -> FiberSet] /\ g[k][kids] = c[k][kids] /\ g[k][Other(kids)] = New(k)
    BY <1>1, <1>6, <2>1
  <2>3. c[k][kids] = f[k][kids] /\ CopyOf(c[k][Other(kids)], f[k][kids])
    BY <1>2 DEF Bred, kids
  <2> QED BY <1>6, <2>2, <2>3
<1>8. ASSUME NEW m \in Node, m \notin Range(Kids[n])
      PROVE  g[m] = c[m] /\ g[m] \in [Sides -> FiberSet]
  BY <1>3, <1>5, <1>8 DEF FiberTrees
<1>9. g \in FiberTrees
  BY <1>3, <1>7, <1>8 DEF FiberTrees
<1>10. g[n] = c[n] /\ \A m \in Node, s \in Sides :
         m # n /\ m \notin Range(Kids[n]) => g[m][s] = f[m][s]
  <2>1. \A m \in Node, s \in Sides : m # n /\ m \notin Range(Kids[n]) => c[m][s] = f[m][s]
    BY <1>2 DEF Bred
  <2> QED BY <1>4, <1>8, <2>1
<1>11. /\ SameLists(g[n][side], f[n][side]) /\ g[n][side].effect = f[n][side].effect
       /\ g[n][side].kids = Other(kids) /\ g[n][side].props = f[n][side].props
       /\ g[n][Other(side)] = f[n][Other(side)]
  BY <1>2, <1>10 DEF Bred, kids
<1> QED BY <1>7, <1>9, <1>10, <1>11 DEF Bred, g, kids

\* The copies of children that there are.
LEMMA BredIsAlive ==
  ASSUME NEW f \in FiberTrees, NEW n \in Node, NEW side \in Sides, NEW g,
         Bred(f, g, n, side), Alive(f), f[n][side].exists
  PROVE  Alive(g)
<1> DEFINE kids == f[n][side].kids
<1>1. kids \in Sides /\ Other(kids) \in Sides /\ \A m \in Node, s \in Sides : f[m][s].kids \in Sides
  BY Others DEF FiberTrees, FiberSet
<1>2. /\ g[n][side].exists = f[n][side].exists /\ g[n][side].kids = Other(kids)
      /\ g[n][Other(side)] = f[n][Other(side)]
  BY DEF Bred, SameLists
<1>3. \A k \in Range(Kids[n]) : /\ g[k][kids] = f[k][kids]
                                /\ g[k][Other(kids)].exists = f[k][kids].exists
                                /\ g[k][Other(kids)].kids = f[k][kids].kids
  BY DEF Bred, CopyOf, SameLists
<1>4. \A m \in Node, s \in Sides : m # n /\ m \notin Range(Kids[n]) => g[m][s] = f[m][s]
  BY DEF Bred
<1>5. Range(Kids[n]) \subseteq Children /\ \A k \in Range(Kids[n]) : Parent[k] = n
  BY TreeKids
<1> HIDE DEF kids
<1>6. \A k \in Range(Kids[n]) : f[k][kids].exists
  BY <1>5 DEF Alive, kids
<1>7. \A m \in Node, s \in Sides : f[m][s].exists => g[m][s].exists
  <2> SUFFICES ASSUME NEW m \in Node, NEW s \in Sides, f[m][s].exists PROVE g[m][s].exists
    OBVIOUS
  <2>1. CASE m = n
    BY <1>2, <2>1, Others
  <2>2. CASE m \in Range(Kids[n])
    BY <1>1, <1>3, <1>6, <2>2, Others
  <2> QED BY <1>4, <2>1, <2>2
<1>8. ASSUME NEW c \in Children, NEW s \in Sides, g[Parent[c]][s].exists
      PROVE  g[c][g[Parent[c]][s].kids].exists
  <2> DEFINE p == Parent[c]
  <2>1. c \in Node /\ p \in Node /\ c \in Range(Kids[p])
    BY TreeParent
  <2> HIDE DEF p
  <2>2. CASE p = n /\ s = side
    <3>1. g[c][Other(kids)].exists
      BY <1>3, <1>6, <2>1, <2>2
    <3> QED BY <1>2, <2>2, <3>1 DEF p
  <2>3. CASE p = n /\ s = Other(side)
    <3>1. g[p][s] = f[p][s]
      BY <1>2, <2>3
    <3>2. f[c][f[p][s].kids].exists
      BY <1>8, <3>1 DEF Alive, p
    <3> QED BY <1>1, <1>7, <2>1, <3>1, <3>2 DEF p
  <2>4. CASE p \in Range(Kids[n]) /\ s = kids
    <3>1. g[p][s] = f[p][s]
      BY <1>3, <2>4
    <3>2. f[c][f[p][s].kids].exists
      BY <1>8, <3>1 DEF Alive, p
    <3> QED BY <1>1, <1>7, <2>1, <3>1, <3>2 DEF p
  <2>5. CASE p \in Range(Kids[n]) /\ s = Other(kids)
    <3>1. g[p][s].kids = f[p][kids].kids /\ f[p][kids].exists
      BY <1>3, <1>6, <2>5
    <3>2. f[c][f[p][kids].kids].exists
      BY <1>1, <3>1 DEF Alive, p
    <3> QED BY <1>1, <1>7, <2>1, <3>1, <3>2 DEF p
  <2>6. CASE p # n /\ p \notin Range(Kids[n])
    <3>1. g[p][s] = f[p][s]
      BY <1>4, <2>1, <2>6
    <3>2. f[c][f[p][s].kids].exists
      BY <1>8, <3>1 DEF Alive, p
    <3> QED BY <1>1, <1>7, <2>1, <3>1, <3>2 DEF p
  <2> QED BY <1>1, <2>2, <2>3, <2>4, <2>5, <2>6, Others
<1>9. Root \in Node /\ 1 \in Sides
  BY TreeAssumption DEF Sides
<1> QED BY <1>7, <1>8, <1>9 DEF Alive

\* The tree after a fiber has begun its work and its children may have been copied.
BredOrSame(f, g, n, side) == g = f \/ Bred(f, g, n, side)

LEMMA GrownTree ==
  ASSUME NEW f \in FiberTrees, NEW n \in Node, NEW side \in Sides, NEW g, BredOrSame(f, g, n, side)
  PROVE  /\ g \in FiberTrees
         /\ Alive(f) /\ f[n][side].exists => Alive(g)
         /\ \A s \in Sides : SameLists(g[n][s], f[n][s])
         /\ \A m \in Node \ {n}, s \in Sides : \E t \in Sides : SameLists(g[m][s], f[m][t])
<1>1. CASE g = f
  BY <1>1 DEF SameLists
<1>2. CASE Bred(f, g, n, side)
  <2>1. g \in FiberTrees
    BY <1>2 DEF Bred
  <2>2. Alive(f) /\ f[n][side].exists => Alive(g)
    BY <1>2, BredIsAlive
  <2>3. \A s \in Sides : SameLists(g[n][s], f[n][s])
    BY <1>2, Others DEF Bred, SameLists
  <2>4. ASSUME NEW m \in Node \ {n}, NEW s \in Sides
        PROVE  \E t \in Sides : SameLists(g[m][s], f[m][t])
    <3> DEFINE kids == f[n][side].kids
    <3>1. kids \in Sides
      BY DEF FiberTrees, FiberSet
    <3>2. CASE m \in Range(Kids[n])
      <4>1. g[m][kids] = f[m][kids] /\ SameLists(g[m][Other(kids)], f[m][kids])
        BY <1>2, <3>2 DEF Bred, CopyOf
      <4> HIDE DEF kids
      <4>2. SameLists(g[m][kids], f[m][kids])
        BY <4>1 DEF SameLists
      <4>3. s = kids \/ s = Other(kids)
        BY <3>1, Others
      <4> QED BY <3>1, <4>1, <4>2, <4>3
    <3>3. CASE m \notin Range(Kids[n])
      <4>1. g[m][s] = f[m][s]
        BY <1>2, <3>3 DEF Bred
      <4>2. SameLists(g[m][s], f[m][s])
        BY <4>1 DEF SameLists
      <4> QED BY <4>2
    <3> QED BY <3>2, <3>3
  <2> QED BY <2>1, <2>2, <2>3, <2>4
<1> QED BY <1>1, <1>2 DEF BredOrSame

LEMMA ChildrenGrow ==
  ASSUME NEW f \in FiberTrees, NEW n \in Node, NEW side \in Sides, NEW render
  PROVE  /\ BredOrSame(f, BailedOut(f, n, side, render), n, side)
         /\ BredOrSame(f, ChildrenReconciled(f, n, side), n, side)
BY ClonedAreBred, ReconciledAreBred DEF BredOrSame, BailedOut

-----------------------------------------------------------------------------
LEMMA MadeOnceStays ==
  ASSUME MadeOnce, UNCHANGED <<level, made, eager>>,
         \A u \in Update : level[u] = NotMade => next'[u] = None
  PROVE  MadeOnce' /\ \A n \in Node : History(n)' = History(n)
<1>1. MadeUpdates' = MadeUpdates
  BY DEF MadeUpdates
<1> QED BY <1>1 DEF MadeOnce, History

\* The list of a component as a step finds it, with all that is known of it.
LEMMA ListFound ==
  ASSUME Lists, NEW n \in Node
  PROVE  /\ MadeOnce /\ IsFiniteSet(MadeUpdates) /\ UpdatesTyped /\ NodeLists(n)
         /\ History(n) \in Seq(Update) /\ History(n) \in Seq(MadeUpdates)
         /\ IsInjective(History(n)) /\ Len(History(n)) \in Nat
         /\ next \in [Update -> Update \cup {None}]
         /\ level \in [Update -> Levels \cup {NotMade}]
BY Histories DEF Lists, MadeOnce, UpdatesTyped

LEMMA QueueIsCloned ==
  ASSUME NEW x \in QueueSet
  PROVE  /\ CloneOf(x) \in QueueSet /\ CloneOf(x).effects = <<>>
         /\ CloneOf(x).base = x.base /\ CloneOf(x).first = x.first /\ CloneOf(x).last = x.last
<1>1. <<>> \in Seq(Update)
  OBVIOUS
<1> QED BY <1>1 DEF CloneOf, QueueSet

\* processUpdateQueue on one of the queues of a component.
LEMMA ClassProcessed ==
  ASSUME Lists, NEW n \in Node \ Functions, NEW id \in Sides, QueueOver(queues[n][id], History(n)),
         NEW render
  PROVE  LET result == Processed(CloneOf(queues[n][id]), render)
             h      == History(n)
         IN  /\ result.queue \in QueueSet /\ QueueOver(result.queue, h)
             /\ result.state \in Possible(h)[Len(h)] /\ result.state \in Seq(Update)
             /\ result.remaining \in Levels
<1> DEFINE h == History(n)
           q == CloneOf(queues[n][id])
           result == Processed(q, render)
<1>1. /\ IsFiniteSet(MadeUpdates) /\ h \in Seq(Update) /\ h \in Seq(MadeUpdates) /\ IsInjective(h)
      /\ Len(h) \in Nat /\ next \in [Update -> Update \cup {None}]
      /\ level \in [Update -> Levels \cup {NotMade}] /\ NodeLists(n)
  BY ListFound
<1>2. h # <<>> => next[h[Len(h)]] = None
  BY <1>1 DEF NodeLists, ListOf, ClassList
<1>3. queues[n][id] \in QueueSet
  BY DEF Lists, UpdatesTyped
<1> HIDE DEF h
<1>4. q \in QueueSet /\ QueueOver(q, h)
  <2>1. /\ q \in QueueSet /\ q.base = queues[n][id].base
        /\ q.first = queues[n][id].first /\ q.last = queues[n][id].last
    BY <1>3, QueueIsCloned
  <2>2. QueueOver(queues[n][id], h)
    BY DEF h
  <2> HIDE DEF q
  <2> QED BY <2>1, <2>2 DEF QueueOver, QueueFrom
<1> HIDE DEF q
<1>5. result.queue \in QueueSet /\ QueueOver(result.queue, h)
      /\ result.state \in Possible(h)[Len(h)] /\ result.remaining \in Levels
  BY <1>1, <1>2, <1>4, QueueProcessed
<1> HIDE DEF result
<1>6. result.state \in Seq(Update)
  BY <1>1, <1>5, PossibleStates
<1> QED BY <1>5, <1>6 DEF h, q, result

\* The callbacks that a render collects when it processes a queue: those of updates that
\* it applies.
Collected(n, x, render) ==
  \E updates \in Seq(Range(History(n))), base \in Seq(Update) :
    /\ x.queue # 0 /\ IsInjective(updates)
    /\ queues'[n][x.queue].effects = CallbacksIn(updates, render)
    /\ x.state = AppliedSome(base, updates, Due(updates, render))

\* What beginWork of a root or a class component does to its own fiber and queue.
LEMMA QueueBegun ==
  ASSUME Lists, NEW n \in Node, NEW side \in Sides, fiber[n][side].exists, NEW render,
         BeginQueue(n, side, render)
  PROVE  \E h \in FiberTrees :
           LET H == History(n)
           IN  /\ BredOrSame(h, fiber', n, side)
               /\ \A m \in Node, s \in Sides : (m # n \/ s # side) => h[m][s] = fiber[m][s]
               /\ h[n][side].exists /\ h[n][side].kids = fiber[n][side].kids
               /\ h[n][side].props = fiber[n][side].props
               /\ queues' \in [Node -> [Sides -> QueueSet]]
               /\ \A m \in Node \ {n} : queues'[m] = queues[m]
               /\ \A s \in Sides :
                    LET x == h[n][s]
                    IN  /\ x.state \in Possible(H)[Len(H)] /\ x.base = <<>> /\ x.baseUpdate = None
                        /\ x.queue = 0 <=> (H = <<>> \/ ~x.exists)
                        /\ x.queue # 0 => QueueOver(queues'[n][x.queue], H)
               /\ \/ /\ SameLists(h[n][side], fiber[n][side]) /\ queues' = queues
                     /\ h[n][side].effect = fiber[n][side].effect
                  \/ Collected(n, h[n][side], render)
<1> DEFINE H       == History(n)
           mine    == fiber[n][side]
           other   == fiber[n][Other(side)]
           id      == IF mine.queue # other.queue THEN mine.queue ELSE Other(mine.queue)
           result  == Processed(CloneOf(queues[n][mine.queue]), render)
           updated == IF mine.queue = 0 THEN [mine EXCEPT !.time = NoWork]
                      ELSE [mine EXCEPT !.time = result.remaining, !.state = result.state,
                                        !.queue = id, !.effect = result.queue.effects # <<>>]
           h       == [fiber EXCEPT ![n][side] = updated]
<1>1. n \in Node \ Functions
  BY DEF BeginQueue
<1>2. fiber \in FiberTrees /\ mine \in FiberSet /\ Other(side) \in Sides /\ Other(side) # side
      /\ queues \in [Node -> [Sides -> QueueSet]]
  BY Others DEF Lists, UpdatesTyped, FiberTrees
<1>3. \A s \in Sides : ClassSide(n, fiber[n][s])
  BY <1>1 DEF Lists, NodeLists, SideOf
<1>4. queues' = IF mine.queue = 0 THEN queues ELSE [queues EXCEPT ![n][id] = result.queue]
  BY DEF BeginQueue
<1>5. fiber' = BailedOut(h, n, side, render) \/ fiber' = ChildrenReconciled(h, n, side)
  BY DEF BeginQueue
<1>6. mine.queue \in {0} \cup Sides /\ other.queue \in {0} \cup Sides
  BY <1>2 DEF FiberTrees, FiberSet
<1>7. mine.queue # 0 => /\ QueueOver(queues[n][mine.queue], H) /\ H # <<>>
                        /\ mine.queue \in Sides /\ id \in Sides
  BY <1>3, <1>6, Others DEF ClassSide
<1>8. mine.queue # 0 => /\ result.queue \in QueueSet /\ QueueOver(result.queue, H)
                        /\ result.state \in Possible(H)[Len(H)] /\ result.state \in Seq(Update)
                        /\ result.remaining \in Levels
  BY <1>1, <1>7, ClassProcessed
<1> HIDE DEF result
<1>9. NoWork \in Levels
  BY ConstantTypes DEF Levels, NoWork, Sync
<1>10. /\ updated \in FiberSet /\ updated.exists = mine.exists /\ updated.kids = mine.kids
       /\ updated.props = mine.props
       /\ updated.base = mine.base /\ updated.baseUpdate = mine.baseUpdate
       /\ mine.queue = 0 => /\ updated.state = mine.state /\ updated.queue = 0
                            /\ updated.effect = mine.effect
       /\ mine.queue # 0 => updated.state = result.state /\ updated.queue = id
  <2>1. CASE mine.queue = 0
    <3> HIDE DEF mine
    <3> QED BY <1>2, <1>9, <2>1 DEF FiberSet
  <2>2. CASE mine.queue # 0
    <3>1. id \in Sides /\ result.remaining \in Levels /\ result.state \in Seq(Update)
      BY <1>7, <1>8, <2>2
    <3> HIDE DEF mine, id
    <3> QED BY <1>2, <2>2, <3>1 DEF FiberSet
  <2> QED BY <2>1, <2>2
<1>11. /\ h \in FiberTrees
       /\ \A m \in Node, s \in Sides : h[m][s] = IF m = n /\ s = side THEN updated ELSE fiber[m][s]
  <2>1. updated \in FiberSet
    BY <1>10
  <2> HIDE DEF updated
  <2> QED BY <1>2, <2>1 DEF FiberTrees
<1> HIDE DEF updated, h
<1>12. BredOrSame(h, fiber', n, side)
  BY <1>5, <1>11, ChildrenGrow
<1>13. /\ queues' \in [Node -> [Sides -> QueueSet]]
       /\ \A m \in Node \ {n} : queues'[m] = queues[m]
       /\ \A i \in Sides : queues'[n][i] = IF mine.queue # 0 /\ i = id THEN result.queue
                                           ELSE queues[n][i]
  <2>1. CASE mine.queue = 0
    BY <1>2, <1>4, <2>1
  <2>2. CASE mine.queue # 0
    <3>1. id \in Sides /\ result.queue \in QueueSet /\ queues' = [queues EXCEPT ![n][id] = result.queue]
      BY <1>4, <1>7, <1>8, <2>2
    <3> HIDE DEF id, mine
    <3> QED BY <1>2, <2>2, <3>1
  <2> QED BY <2>1, <2>2
<1>14. ASSUME NEW s \in Sides
       PROVE  LET x == h[n][s]
              IN  /\ x.state \in Possible(H)[Len(H)] /\ x.base = <<>> /\ x.baseUpdate = None
                  /\ x.queue = 0 <=> (H = <<>> \/ ~x.exists)
                  /\ x.queue # 0 => QueueOver(queues'[n][x.queue], H)
  <2>1. CASE s = side
    <3>1. h[n][s] = updated /\ ClassSide(n, mine)
      BY <1>3, <1>11, <2>1
    <3>2. CASE mine.queue = 0
      BY <1>10, <3>1, <3>2 DEF ClassSide
    <3>3. CASE mine.queue # 0
      <4>1. queues'[n][id] = result.queue /\ id # 0
        BY <1>7, <1>13, <3>3 DEF Sides
      <4> HIDE DEF id
      <4> QED BY <1>7, <1>8, <1>10, <3>1, <3>3, <4>1 DEF ClassSide
    <3> QED BY <3>2, <3>3
  <2>2. CASE s # side
    <3>1. s = Other(side) /\ h[n][s] = other /\ ClassSide(n, other)
      BY <1>3, <1>11, <2>2, Others
    <3>2. other.queue # 0 => QueueOver(queues[n][other.queue], H) /\ other.queue \in Sides
      BY <1>6, <3>1 DEF ClassSide
    <3>3. other.queue # 0 => queues'[n][other.queue] = queues[n][other.queue]
      <4>1. mine.queue # 0 => other.queue # id
        BY <1>6, Others
      <4> QED BY <1>13, <3>2, <4>1
    <3> QED BY <3>1, <3>2, <3>3 DEF ClassSide
  <2> QED BY <2>1, <2>2
<1>15. /\ \A m \in Node, s \in Sides : (m # n \/ s # side) => h[m][s] = fiber[m][s]
       /\ h[n][side].exists /\ h[n][side].kids = fiber[n][side].kids
       /\ h[n][side].props = fiber[n][side].props
  BY <1>10, <1>11
<1>16. CASE mine.queue = 0
  <2>1. /\ SameLists(h[n][side], fiber[n][side]) /\ queues' = queues
        /\ h[n][side].effect = fiber[n][side].effect
    BY <1>4, <1>10, <1>11, <1>16 DEF SameLists
  <2> QED BY <1>11, <1>12, <1>13, <1>14, <1>15, <2>1
<1>17. CASE mine.queue # 0
  <2>1. Collected(n, h[n][side], render)
    <3> DEFINE queue   == CloneOf(queues[n][mine.queue])
               updates == Listed(next, queue.first)
    <3>1. PICK b \in 0 .. Len(H) : QueueFrom(queues[n][mine.queue], H, b)
      BY <1>7, <1>17 DEF QueueOver
    <3>2. /\ MadeOnce /\ IsFiniteSet(MadeUpdates) /\ H \in Seq(Update) /\ H \in Seq(MadeUpdates)
          /\ IsInjective(H) /\ next \in [Update -> Update \cup {None}] /\ NodeLists(n)
      BY ListFound
    <3>3. H # <<>> => next[H[Len(H)]] = None
      BY <1>1, <3>2 DEF NodeLists, ListOf, ClassList
    <3>4. queues[n][mine.queue] \in QueueSet
      BY <1>2, <1>7, <1>17
    <3>5. /\ queue \in QueueSet /\ queue.effects = <<>>
          /\ queue.first = queues[n][mine.queue].first
      BY <3>4, QueueIsCloned
    <3> HIDE DEF H, queue
    <3>6. Rest(updates, H, b)
      BY <3>1, <3>2, <3>3, <3>5, QueueIsListed
    <3>7. updates \in Seq(Range(H)) /\ updates \in Seq(Update) /\ IsInjective(updates)
      BY <3>2, <3>6, RestHas, RestIsInjective
    <3>8. /\ result.queue.effects = queue.effects \o CallbacksIn(updates, render)
          /\ result.state = AppliedSome(queue.base, updates, Due(updates, render))
      <4>1. result = Processed(queue, render)
        BY DEF result, queue
      <4>2. Listed(next, queue.first) \in Seq(Update)
        BY <3>7
      <4> HIDE DEF result
      <4> DEFINE settled == Settled(updates, render)
                 due     == Due(updates, render)
                 newBase == NewBase(queue.base, updates, render)
                 effects == queue.effects \o CallbacksIn(updates, render)
      <4>3. result = [ queue |-> [ base    |-> newBase,
                                   first   |-> IF settled = Len(updates) THEN None
                                               ELSE updates[settled + 1],
                                   last    |-> IF settled = Len(updates) THEN None
                                               ELSE queue.last,
                                   effects |-> effects ],
                       state |-> AppliedSome(queue.base, updates, due),
                       remaining |-> Remaining(updates, render), changed |-> due \ Noops # {} ]
        BY <4>1, <4>2, ProcessedList
      <4> HIDE DEF updates, settled, due, newBase, effects
      <4>4. result.queue.effects = effects /\ result.state = AppliedSome(queue.base, updates, due)
        BY <4>3
      <4> QED BY <4>4 DEF effects, due
    <3>9. CallbacksIn(updates, render) \in Seq(Update)
      BY <3>2, <3>7, SomeOfList DEF CallbacksIn
    <3>10. result.queue.effects = CallbacksIn(updates, render)
      BY <3>5, <3>8, <3>9
    <3>11. h[n][side] = updated /\ updated.queue = id /\ updated.state = result.state
      BY <1>10, <1>11, <1>17
    <3>12. id # 0 /\ queues'[n][id] = result.queue
      BY <1>7, <1>13, <1>17 DEF Sides
    <3>13. queue.base \in Seq(Update)
      BY <3>5 DEF QueueSet
    <3> HIDE DEF id, updates
    <3> QED BY <3>7, <3>8, <3>10, <3>11, <3>12, <3>13 DEF Collected, H
  <2> QED BY <1>11, <1>12, <1>13, <1>14, <1>15, <2>1
<1> QED BY <1>16, <1>17

\* What beginWork of a function component does to its own fibers, links and hook.
LEMMA HookBegun ==
  ASSUME Lists, NEW n \in Node, NEW side \in Sides, NEW render, BeginFunction(n, side, render)
  PROVE  \E h \in FiberTrees :
           LET H == History(n)
           IN  /\ BredOrSame(h, fiber', n, side)
               /\ \A m \in Node, s \in Sides : m # n => h[m][s] = fiber[m][s]
               /\ \A s \in Sides : /\ h[n][s].exists = fiber[n][s].exists
                                   /\ h[n][s].kids = fiber[n][s].kids
                                   /\ h[n][s].props = fiber[n][s].props
               /\ next' \in [Update -> Update \cup {None}] /\ CircleOf(next', H)
               /\ \A u \in Update \ Range(H) : next'[u] = next[u]
               /\ hooks' \in [Node -> HookSet] /\ \A m \in Node \ {n} : hooks'[m] = hooks[m]
               /\ hooks'[n].last = hooks[n].last /\ hooks'[n].rendered \in Possible(H)[Len(H)]
               /\ \A s \in Sides :
                    LET x == h[n][s]
                    IN  /\ x.queue = 0 /\ x.state \in Possible(H)[Len(H)]
                        /\ \E b \in 0 .. Len(H) : HookFrom(x.base, x.baseUpdate, H, b)
<1> DEFINE H       == History(n)
           mine    == fiber[n][side]
           old     == fiber[n][Other(side)]
           result  == HookProcessed(hooks[n], old.base, old.baseUpdate, render)
           updated == IF result.empty THEN [mine EXCEPT !.time = NoWork]
                      ELSE [mine EXCEPT !.time = result.remaining, !.state = result.state,
                                        !.base = result.base, !.baseUpdate = result.baseUpdate]
           same    == ~mine.fresh /\ updated.state = old.state
           rested  == IF same /\ old.time <= render THEN NoWork ELSE old.time
           first   == [updated EXCEPT !.effect = ~same]
           second  == [old EXCEPT !.time = rested]
           h       == [fiber EXCEPT ![n][side] = first,
                                    ![n][Other(side)].time =
                                      IF same /\ @ <= render THEN NoWork ELSE @]
<1>1. n \in Functions
  BY DEF BeginFunction
<1>2. /\ fiber \in FiberTrees /\ mine \in FiberSet /\ old \in FiberSet
      /\ Other(side) \in Sides /\ Other(side) # side /\ hooks \in [Node -> HookSet]
  BY Others DEF Lists, UpdatesTyped, FiberTrees
<1>3. HookList(n) /\ \A s \in Sides : HookSide(n, fiber[n][s])
  BY <1>1 DEF Lists, NodeLists, ListOf, SideOf
<1>4. /\ IsFiniteSet(MadeUpdates) /\ H \in Seq(Update) /\ H \in Seq(MadeUpdates) /\ IsInjective(H)
      /\ Len(H) \in Nat /\ next \in [Update -> Update \cup {None}]
      /\ level \in [Update -> Levels \cup {NotMade}]
  BY ListFound
<1>5. next' = HookOpened(next, hooks[n], old.baseUpdate)
  BY DEF BeginFunction
<1>6. hooks' = IF result.empty THEN hooks ELSE [hooks EXCEPT ![n].rendered = result.state]
  BY DEF BeginFunction
<1>7. fiber' = BailedOut(h, n, side, render) \/ fiber' = ChildrenReconciled(h, n, side)
  BY DEF BeginFunction
<1>8. PICK b \in 0 .. Len(H) : HookFrom(old.base, old.baseUpdate, H, b)
  BY <1>2, <1>3 DEF HookSide
<1>9. /\ CircleOf(next, H) /\ hooks[n].last = LastOf(H)
      /\ hooks[n].rendered \in Possible(H)[Len(H)]
      /\ \A i \in 1 .. Len(H) : eager[H[i]] = <<>> \/ eager[H[i]][1] \in Possible(H)[i]
  BY <1>3 DEF HookList
<1> HIDE DEF H
<1>10. /\ result.state \in Possible(H)[Len(H)] /\ result.remaining \in Levels
       /\ \E c \in 0 .. Len(H) : HookFrom(result.base, result.baseUpdate, H, c)
  BY <1>4, <1>8, <1>9, HookIsProcessed
<1>11. /\ result.state \in Seq(Update) /\ result.base \in Seq(Update)
       /\ result.baseUpdate \in Update \cup {None}
  <2>1. result.state \in Seq(Update)
    BY <1>4, <1>10, PossibleStates
  <2>2. PICK c \in 0 .. Len(H) : HookFrom(result.base, result.baseUpdate, H, c)
    BY <1>10
  <2>3. result.base \in Seq(Update)
    BY <1>4, <2>2, PossibleStates DEF HookFrom
  <2>4. result.baseUpdate \in Update \cup {None}
    BY <1>4, <2>2 DEF HookFrom
  <2> QED BY <2>1, <2>3, <2>4
<1> HIDE DEF result
<1>12. NoWork \in Levels /\ mine.time \in Levels /\ old.time \in Levels
  BY <1>2, ConstantTypes DEF Levels, NoWork, Sync, FiberSet
<1>13. /\ updated \in FiberSet /\ updated.exists = mine.exists /\ updated.kids = mine.kids
       /\ updated.props = mine.props /\ updated.queue = mine.queue
       /\ updated.state \in {mine.state, result.state}
       /\ \/ updated.base = mine.base /\ updated.baseUpdate = mine.baseUpdate
          \/ updated.base = result.base /\ updated.baseUpdate = result.baseUpdate
  <2> HIDE DEF mine
  <2> QED BY <1>2, <1>10, <1>11, <1>12 DEF FiberSet
<1>14. /\ first \in FiberSet /\ first.exists = mine.exists /\ first.kids = mine.kids
       /\ first.props = mine.props /\ first.queue = mine.queue
       /\ first.state = updated.state /\ first.base = updated.base
       /\ first.baseUpdate = updated.baseUpdate
  <2>1. (~same) \in BOOLEAN
    OBVIOUS
  <2> HIDE DEF updated, same, mine
  <2> QED BY <1>13, <2>1 DEF FiberSet
<1>15. second \in FiberSet /\ SameFiber(second, old)
  <2>1. rested \in Levels
    BY <1>12
  <2> HIDE DEF rested, old
  <2> QED BY <1>2, <2>1, OtherLevel
<1>16. /\ h \in FiberTrees
       /\ \A m \in Node, s \in Sides :
            h[m][s] = IF m # n THEN fiber[m][s] ELSE IF s = side THEN first ELSE second
  <2>1. h = [fiber EXCEPT ![n] = [s \in Sides |-> IF s = side THEN first ELSE second]]
    <3> DEFINE f == [fiber EXCEPT ![n][side] = first]
    <3>1. f \in FiberTrees /\ f[n][Other(side)] = old /\ f[n][side] = first
          /\ \A m \in Node \ {n} : f[m] = fiber[m]
      <4> HIDE DEF first
      <4> QED BY <1>2, <1>14 DEF FiberTrees
    <3>2. h = [f EXCEPT ![n][Other(side)].time = IF same /\ @ <= render THEN NoWork ELSE @]
      BY <1>2
    <3> HIDE DEF first, same, f, old
    <3>3. h = [f EXCEPT ![n][Other(side)] = second]
      BY <1>2, <3>1, <3>2 DEF FiberTrees
    <3>4. \A s \in Sides : s = side \/ s = Other(side)
      BY Others
    <3>5. h[n] = [s \in Sides |-> IF s = side THEN first ELSE second]
      <4>1. h[n] = [f[n] EXCEPT ![Other(side)] = second] /\ DOMAIN f[n] = Sides
        BY <3>1, <3>3 DEF FiberTrees
      <4>2. \A s \in Sides : h[n][s] = IF s = side THEN first ELSE second
        BY <1>2, <3>1, <3>4, <4>1
      <4> HIDE DEF h
      <4> QED BY <4>1, <4>2
    <3> QED BY <1>2, <3>1, <3>3, <3>5 DEF FiberTrees
  <2> HIDE DEF first, second, h
  <2> QED BY <1>2, <1>14, <1>15, <2>1 DEF FiberTrees
<1> HIDE DEF h, first, second, updated
<1>17. BredOrSame(h, fiber', n, side)
  BY <1>7, <1>16, ChildrenGrow
<1>18. \A s \in Sides : /\ h[n][s].exists = fiber[n][s].exists
                        /\ h[n][s].kids = fiber[n][s].kids
                        /\ h[n][s].props = fiber[n][s].props
  BY <1>14, <1>15, <1>16, Others DEF SameFiber, SameLists
<1>19. /\ next' \in [Update -> Update \cup {None}] /\ CircleOf(next', H)
       /\ \A u \in Update \ Range(H) : next'[u] = next[u]
  <2>1. old.baseUpdate = IF b = 0 THEN None ELSE H[b]
    BY <1>8 DEF HookFrom
  <2> HIDE DEF old
  <2> QED BY <1>4, <1>5, <1>9, <2>1, OpenedLinks
<1>20. /\ hooks' \in [Node -> HookSet] /\ \A m \in Node \ {n} : hooks'[m] = hooks[m]
       /\ hooks'[n].last = hooks[n].last /\ hooks'[n].rendered \in Possible(H)[Len(H)]
  <2>1. CASE result.empty
    BY <1>2, <1>6, <1>9, <2>1
  <2>2. CASE ~result.empty
    BY <1>2, <1>6, <1>10, <1>11, <2>2 DEF HookSet
  <2> QED BY <2>1, <2>2
<1>21. ASSUME NEW s \in Sides
       PROVE  LET x == h[n][s]
              IN  /\ x.queue = 0 /\ x.state \in Possible(H)[Len(H)]
                  /\ \E c \in 0 .. Len(H) : HookFrom(x.base, x.baseUpdate, H, c)
  <2>1. CASE s = side
    <3>1. h[n][s] = first /\ HookSide(n, mine)
      BY <1>3, <1>16, <2>1
    <3> HIDE DEF mine
    <3>2. mine.queue = 0 /\ mine.state \in Possible(H)[Len(H)]
          /\ \E c \in 0 .. Len(H) : HookFrom(mine.base, mine.baseUpdate, H, c)
      BY <3>1 DEF HookSide, H
    <3>3. first.state \in Possible(H)[Len(H)] /\ first.queue = 0
      BY <1>10, <1>13, <1>14, <3>2
    <3>4. \E c \in 0 .. Len(H) : HookFrom(first.base, first.baseUpdate, H, c)
      BY <1>10, <1>13, <1>14, <3>2
    <3> QED BY <3>1, <3>3, <3>4
  <2>2. CASE s # side
    <3>1. h[n][s] = second /\ HookSide(n, old)
      BY <1>2, <1>3, <1>16, <2>2
    <3> HIDE DEF old
    <3>2. old.queue = 0 /\ old.state \in Possible(H)[Len(H)]
          /\ \E c \in 0 .. Len(H) : HookFrom(old.base, old.baseUpdate, H, c)
      BY <3>1 DEF HookSide, H
    <3> QED BY <1>15, <3>1, <3>2 DEF SameFiber, SameLists
  <2> QED BY <2>1, <2>2
<1> QED BY <1>16, <1>17, <1>18, <1>19, <1>20, <1>21 DEF H

\* The fibers of a component whose own fibers keep what is known of them.
LEMMA ClassListsStay ==
  ASSUME Lists, NEW n \in Node \ Functions, History(n)' = History(n), next' = next, NEW h,
         \A s \in Sides : SameLists(fiber'[n][s], h[n][s]),
         \A s \in Sides :
           LET x == h[n][s]
               H == History(n)
           IN  /\ x.state \in Possible(H)[Len(H)] /\ x.base = <<>> /\ x.baseUpdate = None
               /\ x.queue = 0 <=> (H = <<>> \/ ~x.exists)
               /\ x.queue # 0 => QueueOver(queues'[n][x.queue], H)
  PROVE  NodeLists(n)'
<1> DEFINE H == History(n)
<1>1. ClassList(n)
  BY DEF Lists, NodeLists, ListOf
<1>2. ClassList(n)'
  BY <1>1 DEF ClassList
<1>3. ASSUME NEW s \in Sides PROVE ClassSide(n, fiber[n][s])'
  <2>1. fiber'[n][s].queue # 0 => QueueOver(queues[n][fiber[n][s].queue], H)'
    <3> SUFFICES ASSUME fiber'[n][s].queue # 0
                 PROVE  QueueOver(queues[n][fiber[n][s].queue], H)'
      OBVIOUS
    <3>1. fiber'[n][s].queue = h[n][s].queue
      BY DEF SameLists
    <3>2. QueueOver(queues'[n][fiber'[n][s].queue], H)
      BY <3>1
    <3> QED BY <3>2 DEF QueueOver, QueueFrom
  <2> QED BY <2>1 DEF ClassSide, SameLists
<1> QED BY <1>2, <1>3 DEF NodeLists, ListOf, SideOf

LEMMA HookListsStay ==
  ASSUME Lists, NEW n \in Functions, History(n)' = History(n), eager' = eager,
         CircleOf(next', History(n)), hooks'[n].last = hooks[n].last,
         hooks'[n].rendered \in Possible(History(n))[Len(History(n))], NEW h,
         \A s \in Sides : SameLists(fiber'[n][s], h[n][s]),
         \A s \in Sides :
           LET x == h[n][s]
               H == History(n)
           IN  /\ x.queue = 0 /\ x.state \in Possible(H)[Len(H)]
               /\ \E b \in 0 .. Len(H) : HookFrom(x.base, x.baseUpdate, H, b)
  PROVE  NodeLists(n)'
<1>1. n \in Node
  BY TreeAssumption DEF Children
<1>2. HookList(n)
  BY <1>1 DEF Lists, NodeLists, ListOf
<1>3. CircleOf(next, History(n))'
  BY DEF CircleOf
<1>4. HookList(n)'
  BY <1>2, <1>3 DEF HookList
<1>5. \A s \in Sides : HookSide(n, fiber[n][s])'
  BY DEF HookSide, SameLists
<1> QED BY <1>4, <1>5 DEF NodeLists, ListOf, SideOf

LEMMA BeginLists ==
  ASSUME Lists, Alive(fiber), NEW n \in Node, NEW side \in Sides, fiber[n][side].exists,
         NEW render, BeginWork(n, side, render), made' = made
  PROVE  Lists' /\ Alive(fiber')
<1>1. /\ level' = level /\ eager' = eager /\ UpdatesTyped /\ MadeOnce
      /\ \A m \in Node : NodeLists(m)
  BY DEF BeginWork, Lists
<1>2. /\ fiber \in FiberTrees
      /\ \A m \in Node, s \in Sides : fiber[m][s].queue \in {0} \cup Sides
  BY <1>1 DEF UpdatesTyped, FiberTrees, FiberSet
<1>3. \A m \in Node, s \in Sides : SameQueue(queues[m][s], queues[m][s])
  BY DEF SameQueue
<1>4. CASE BeginBailsOut(n, side, render)
  <2>1. /\ next' = next /\ queues' = queues /\ hooks' = hooks
        /\ fiber' = BailedOut(fiber, n, side, render)
    BY <1>4 DEF BeginBailsOut
  <2>2. BredOrSame(fiber, fiber', n, side)
    BY <1>2, <2>1, ChildrenGrow
  <2>3. /\ fiber' \in FiberTrees /\ Alive(fiber')
        /\ \A m \in Node, s \in Sides : \E t \in Sides : SameLists(fiber'[m][s], fiber[m][t])
    BY <1>2, <2>2, GrownTree
  <2>4. MadeOnce' /\ \A m \in Node : History(m)' = History(m)
    BY <1>1, <2>1, MadeOnceStays DEF MadeOnce
  <2>5. ASSUME NEW m \in Node PROVE NodeLists(m)'
    BY <1>1, <1>2, <1>3, <2>1, <2>3, <2>4, OtherLists
  <2>6. UpdatesTyped'
    BY <1>1, <2>1, <2>3 DEF UpdatesTyped
  <2> QED BY <2>3, <2>4, <2>5, <2>6 DEF Lists
<1>5. CASE BeginQueue(n, side, render)
  <2>1. n \in Node \ Functions /\ next' = next /\ hooks' = hooks
    BY <1>5 DEF BeginQueue
  <2>2. PICK h \in FiberTrees :
           LET H == History(n)
           IN  /\ BredOrSame(h, fiber', n, side)
               /\ \A m \in Node, s \in Sides : (m # n \/ s # side) => h[m][s] = fiber[m][s]
               /\ h[n][side].exists /\ h[n][side].kids = fiber[n][side].kids
               /\ h[n][side].props = fiber[n][side].props
               /\ queues' \in [Node -> [Sides -> QueueSet]]
               /\ \A m \in Node \ {n} : queues'[m] = queues[m]
               /\ \A s \in Sides :
                    LET x == h[n][s]
                    IN  /\ x.state \in Possible(H)[Len(H)] /\ x.base = <<>> /\ x.baseUpdate = None
                        /\ x.queue = 0 <=> (H = <<>> \/ ~x.exists)
                        /\ x.queue # 0 => QueueOver(queues'[n][x.queue], H)
    BY <1>5, QueueBegun
  <2>3. /\ fiber' \in FiberTrees
        /\ Alive(h) /\ h[n][side].exists => Alive(fiber')
        /\ \A s \in Sides : SameLists(fiber'[n][s], h[n][s])
        /\ \A m \in Node \ {n}, s \in Sides : \E t \in Sides : SameLists(fiber'[m][s], h[m][t])
    BY <2>2, GrownTree
  <2>4. Alive(fiber')
    <3>1. \A m \in Node, s \in Sides :
            h[m][s].exists = fiber[m][s].exists /\ h[m][s].kids = fiber[m][s].kids
      <4>1. h[n][side].exists = fiber[n][side].exists
        BY <1>2, <2>2 DEF FiberTrees, FiberSet
      <4> QED BY <2>2, <4>1
    <3> QED BY <1>2, <2>2, <2>3, <3>1, AliveAlike
  <2>5. MadeOnce' /\ \A m \in Node : History(m)' = History(m)
    BY <1>1, <2>1, MadeOnceStays DEF MadeOnce
  <2>6. ASSUME NEW m \in Node \ {n} PROVE NodeLists(m)'
    <3>1. \A s \in Sides : \E t \in Sides : SameLists(fiber'[m][s], fiber[m][t])
      BY <2>2, <2>3
    <3>2. queues'[m] = queues[m]
      BY <2>2
    <3> QED BY <1>1, <1>2, <1>3, <2>1, <2>5, <3>1, <3>2, OtherLists
  <2>7. NodeLists(n)'
    BY <2>1, <2>2, <2>3, <2>5, ClassListsStay
  <2>8. UpdatesTyped'
    BY <1>1, <2>1, <2>2, <2>3 DEF UpdatesTyped
  <2> QED BY <2>4, <2>5, <2>6, <2>7, <2>8 DEF Lists
<1>6. CASE BeginFunction(n, side, render)
  <2>1. n \in Functions /\ queues' = queues
    BY <1>6 DEF BeginFunction
  <2>2. PICK h \in FiberTrees :
           LET H == History(n)
           IN  /\ BredOrSame(h, fiber', n, side)
               /\ \A m \in Node, s \in Sides : m # n => h[m][s] = fiber[m][s]
               /\ \A s \in Sides : /\ h[n][s].exists = fiber[n][s].exists
                                   /\ h[n][s].kids = fiber[n][s].kids
                                   /\ h[n][s].props = fiber[n][s].props
               /\ next' \in [Update -> Update \cup {None}] /\ CircleOf(next', H)
               /\ \A u \in Update \ Range(H) : next'[u] = next[u]
               /\ hooks' \in [Node -> HookSet] /\ \A m \in Node \ {n} : hooks'[m] = hooks[m]
               /\ hooks'[n].last = hooks[n].last /\ hooks'[n].rendered \in Possible(H)[Len(H)]
               /\ \A s \in Sides :
                    LET x == h[n][s]
                    IN  /\ x.queue = 0 /\ x.state \in Possible(H)[Len(H)]
                        /\ \E b \in 0 .. Len(H) : HookFrom(x.base, x.baseUpdate, H, b)
    BY <1>6, HookBegun
  <2>3. /\ fiber' \in FiberTrees
        /\ Alive(h) /\ h[n][side].exists => Alive(fiber')
        /\ \A s \in Sides : SameLists(fiber'[n][s], h[n][s])
        /\ \A m \in Node \ {n}, s \in Sides : \E t \in Sides : SameLists(fiber'[m][s], h[m][t])
    BY <2>2, GrownTree
  <2>4. Alive(fiber')
    <3>1. \A m \in Node, s \in Sides :
            h[m][s].exists = fiber[m][s].exists /\ h[m][s].kids = fiber[m][s].kids
      BY <2>2
    <3> QED BY <1>2, <2>2, <2>3, <3>1, AliveAlike
  <2>5. \A u \in Range(History(n)) : u \in MadeUpdates /\ Owner(u) = n
    BY <1>1, HistoryElements
  <2>6. MadeOnce' /\ \A m \in Node : History(m)' = History(m)
    <3>1. \A u \in Update : level[u] = NotMade => next'[u] = None
      BY <1>1, <2>2, <2>5 DEF MadeOnce, MadeUpdates
    <3> QED BY <1>1, <3>1, MadeOnceStays
  <2>7. ASSUME NEW m \in Node \ {n} PROVE NodeLists(m)'
    <3>1. \A s \in Sides : \E t \in Sides : SameLists(fiber'[m][s], fiber[m][t])
      BY <2>2, <2>3
    <3>2. hooks'[m] = hooks[m]
      BY <2>2
    <3>3. \A i \in 1 .. Len(History(m)) : next'[History(m)[i]] = next[History(m)[i]]
      <4>1. \A i \in 1 .. Len(History(m)) : History(m)[i] \in Update /\ Owner(History(m)[i]) = m
        BY <1>1, Histories
      <4> QED BY <2>2, <2>5, <4>1
    <3> QED BY <1>1, <1>2, <1>3, <2>1, <2>6, <3>1, <3>2, <3>3, OtherLists
  <2>8. NodeLists(n)'
    <3>1. eager' = eager /\ History(n)' = History(n)
      BY <1>1, <2>6
    <3> QED BY <2>1, <2>2, <2>3, <3>1, HookListsStay
  <2>9. UpdatesTyped'
    BY <1>1, <2>1, <2>2, <2>3 DEF UpdatesTyped
  <2> QED BY <2>4, <2>6, <2>7, <2>8, <2>9 DEF Lists
<1> QED BY <1>4, <1>5, <1>6 DEF BeginWork

-----------------------------------------------------------------------------
\* The queue of a fiber, or the one that it gets with its first update.
GivenQueue(n, s) ==
  IF fiber[n][s].queue # 0 THEN queues[n][QueueOf(n, s)] ELSE NewQueue(fiber[n][s].state)

\* A queue that an update is about to be put on.
Given(n, s, H) ==
  /\ GivenQueue(n, s) \in QueueSet /\ QueueOf(n, s) \in Sides
  /\ s \in Living(n) => QueueOver(GivenQueue(n, s), H)
  /\ s \notin Living(n) => GivenQueue(n, s).last = None
  /\ GivenQueue(n, s).last # None => H # <<>> /\ GivenQueue(n, s).last = H[Len(H)]

LEMMA QueueIsGiven ==
  ASSUME Lists, NEW n \in Node \ Functions, NEW s \in Sides
  PROVE  Given(n, s, History(n))
<1> DEFINE H == History(n)
           x == fiber[n][s]
           q == GivenQueue(n, s)
<1>1. /\ ClassSide(n, x) /\ x \in FiberSet /\ fiber \in FiberTrees
      /\ \A i \in Sides : queues[n][i] \in QueueSet
  BY DEF Lists, NodeLists, SideOf, UpdatesTyped, FiberTrees
<1>2. H \in Seq(Update) /\ Len(H) \in Nat
  BY ListFound
<1>3. QueueOf(n, s) \in Sides /\ (x.queue # 0 => QueueOf(n, s) = x.queue)
  BY <1>1 DEF QueueOf, FiberSet, Sides
<1>4. s \in Living(n) <=> x.exists
  BY DEF Living
<1>5. CASE x.queue # 0
  <2>1. q = queues[n][x.queue] /\ x.queue \in Sides
    BY <1>1, <1>3, <1>5 DEF GivenQueue, FiberSet
  <2>2. QueueOver(q, H) /\ x.exists
    BY <1>1, <1>5, <2>1 DEF ClassSide
  <2>3. q \in QueueSet
    BY <1>1, <2>1
  <2> HIDE DEF q, H
  <2>4. q.last # None => H # <<>> /\ q.last = H[Len(H)]
    <3>1. PICK b \in 0 .. Len(H) : QueueFrom(q, H, b)
      BY <2>2 DEF QueueOver
    <3>2. q.last = IF b = Len(H) THEN None ELSE H[Len(H)]
      BY <3>1 DEF QueueFrom
    <3>3. H = <<>> => b = Len(H)
      BY <1>2
    <3> QED BY <3>2, <3>3
  <2> QED BY <1>3, <1>4, <2>2, <2>3, <2>4 DEF Given, q, H
<1>6. CASE x.queue = 0
  <2>1. /\ q = NewQueue(x.state) /\ q.last = None /\ q.first = None /\ q.base = x.state
    BY <1>6 DEF GivenQueue, NewQueue
  <2>2. q \in QueueSet
    BY <1>1, <1>6 DEF GivenQueue, NewQueue, QueueSet, FiberSet
  <2>3. ASSUME x.exists PROVE QueueOver(q, H)
    <3>1. H = <<>> /\ x.state \in Possible(H)[Len(H)]
      BY <1>1, <1>6, <2>3 DEF ClassSide
    <3> HIDE DEF q, H
    <3>2. Len(H) = 0
      BY <3>1
    <3>3. QueueFrom(q, H, 0)
      BY <2>1, <3>1, <3>2 DEF QueueFrom
    <3>4. 0 \in 0 .. Len(H)
      BY <3>2
    <3> QED BY <3>3, <3>4 DEF QueueOver
  <2> HIDE DEF q, H
  <2> QED BY <1>3, <1>4, <2>1, <2>2, <2>3 DEF Given, q, H
<1> QED BY <1>5, <1>6

\* enqueueUpdate links the last of all updates, if a queue has it, to the new one.
LEMMA LinkedOnce ==
  ASSUME Lists, NEW n \in Node \ Functions, NEW side \in Sides, side \in Living(n),
         NEW u \in Update, EnqueuedOnQueue(n, side, u)
  PROVE  LET H == History(n)
         IN  /\ next' \in [Update -> Update \cup {None}]
             /\ \A v \in Update : next'[v] # next[v] => H # <<>> /\ v = H[Len(H)]
             /\ \A s \in Living(n) : GivenQueue(n, s).last # None => next'[H[Len(H)]] = u
<1> DEFINE H      == History(n)
           first  == GivenQueue(n, side)
           second == GivenQueue(n, Other(side))
           single == Other(side) \notin Living(n) \/ QueueOf(n, 1) = QueueOf(n, 2)
           linked == Linked(next, first, u)
<1>1. H \in Seq(Update) /\ Len(H) \in Nat /\ next \in [Update -> Update \cup {None}]
  BY ListFound
<1>2. Given(n, side, H) /\ Given(n, Other(side), H) /\ Other(side) \in Sides
  BY QueueIsGiven, Others
<1>3. next' = IF single \/ (first.last # None /\ second.last # None)
                THEN linked ELSE Linked(linked, second, u)
  BY <1>2, Zenon DEF EnqueuedOnQueue, GivenQueue
<1>4. H # <<>> => H[Len(H)] \in Update
  BY <1>1
<1>5. /\ first.last # None => H # <<>> /\ first.last = H[Len(H)]
      /\ second.last # None => H # <<>> /\ second.last = H[Len(H)]
  BY <1>2 DEF Given
<1>6. Living(n) \subseteq {side, Other(side)}
  BY Others DEF Living
<1>7. ASSUME Other(side) \in Living(n), second.last # None, first.last = None
      PROVE  ~single
  <2> SUFFICES ASSUME QueueOf(n, 1) = QueueOf(n, 2) PROVE FALSE
    BY <1>7
  <2>1. QueueOf(n, side) = QueueOf(n, Other(side))
    BY DEF Other, Sides
  <2>2. fiber[n][Other(side)].queue # 0
    BY <1>7 DEF GivenQueue, NewQueue
  <2>3. fiber[n][side].queue # 0
    <3>1. ClassSide(n, fiber[n][side]) /\ ClassSide(n, fiber[n][Other(side)])
      BY <1>2 DEF Lists, NodeLists, SideOf
    <3>2. fiber[n][side].exists
      BY DEF Living
    <3> QED BY <1>5, <1>7, <3>1, <3>2 DEF ClassSide
  <2>4. first = second
    BY <2>1, <2>2, <2>3 DEF GivenQueue
  <2> QED BY <1>7, <2>4
<1>8. ASSUME Other(side) \notin Living(n) PROVE second.last = None
  BY <1>2, <1>8 DEF Given
<1> HIDE DEF H, first, second, single, linked
<1>9. CASE first.last # None
  <2>1. linked = [next EXCEPT ![H[Len(H)]] = u]
    BY <1>5, <1>9 DEF linked, Linked
  <2>2. next' = linked
    BY <1>3, <1>9 DEF Linked
  <2> QED BY <1>1, <1>4, <1>5, <1>9, <2>1, <2>2 DEF H
<1>10. CASE first.last = None
  <2>1. linked = next
    BY <1>10 DEF linked, Linked
  <2>2. CASE second.last = None
    <3>1. next' = next
      BY <1>3, <2>1, <2>2 DEF Linked
    <3>2. \A s \in Living(n) : GivenQueue(n, s).last = None
      BY <1>6, <1>10, <2>2 DEF first, second
    <3> QED BY <1>1, <3>1, <3>2
  <2>3. CASE second.last # None
    <3>1. ~single
      BY <1>7, <1>8, <1>10, <2>3
    <3>2. next' = [next EXCEPT ![H[Len(H)]] = u]
      BY <1>3, <1>5, <1>10, <2>1, <2>3, <3>1 DEF Linked
    <3> QED BY <1>1, <1>4, <1>5, <2>3, <3>2 DEF H
  <2> QED BY <2>2, <2>3
<1> QED BY <1>9, <1>10

\* A list that has been extended by an update.
LEMMA ListGrows ==
  ASSUME NEW H \in Seq(Update), NEW u \in Update
  PROVE  LET G == Append(H, u)
         IN  /\ G # <<>> /\ Len(G) \in Nat /\ Len(H) \in Nat /\ Len(G) = Len(H) + 1
             /\ G[Len(G)] = u /\ G[Len(H) + 1] = u
             /\ \A i \in 1 .. Len(H) : G[i] = H[i] /\ H[i] \in Update
OBVIOUS

\* The queue of a fiber has the new update at its end.
LEMMA QueueGrows ==
  ASSUME NEW H \in Seq(Update), IsInjective(H), NEW u \in Update,
         NEW queue \in QueueSet, QueueOver(queue, H), next \in [Update -> Update \cup {None}],
         \A v \in Update : next'[v] # next[v] => H # <<>> /\ v = H[Len(H)],
         queue.last # None => next'[H[Len(H)]] = u
  PROVE  LET G == Append(H, u)
             x == WithUpdate(queue, u)
         IN  /\ x \in QueueSet
             /\ \E b \in 0 .. Len(G) :
                  /\ x.base \in Possible(G)[b]
                  /\ x.first = IF b = Len(G) THEN None ELSE G[b + 1]
                  /\ x.last = IF b = Len(G) THEN None ELSE G[Len(G)]
                  /\ \A i \in b + 1 .. Len(G) - 1 : next'[G[i]] = G[i + 1]
<1> DEFINE G == Append(H, u)
           x == WithUpdate(queue, u)
<1>1. PICK b \in 0 .. Len(H) : QueueFrom(queue, H, b)
  BY DEF QueueOver
<1>2. /\ x \in QueueSet /\ x.base = queue.base /\ x.last = u
      /\ x.first = IF queue.last = None THEN u ELSE queue.first
  BY DEF WithUpdate, QueueSet
<1>3. /\ Len(G) \in Nat /\ Len(H) \in Nat /\ Len(G) = Len(H) + 1
      /\ G[Len(G)] = u /\ G[Len(H) + 1] = u
      /\ \A i \in 1 .. Len(H) : G[i] = H[i] /\ H[i] \in Update
  BY ListGrows
<1>4. \A k \in 0 .. Len(H) : Possible(G)[k] = Possible(H)[k]
  BY PossibleGrows
<1>5. None \notin Update /\ DOMAIN H = 1 .. Len(H)
  BY UpdateAssumption
<1>6. \A i, j \in 1 .. Len(H) : H[i] = H[j] => i = j
  BY <1>5 DEF IsInjective
<1> HIDE DEF G, x
<1>7. queue.last = None <=> b = Len(H)
  <2>1. b # Len(H) => Len(H) \in 1 .. Len(H)
    BY <1>3
  <2> QED BY <1>1, <1>3, <1>5, <2>1 DEF QueueFrom
<1>8. b # Len(H) => b + 1 \in 1 .. Len(H) /\ Len(H) \in 1 .. Len(H)
  BY <1>3
<1>9. b \in 0 .. Len(G) /\ b # Len(G)
  BY <1>3
<1>10. x.base \in Possible(G)[b]
  BY <1>1, <1>2, <1>4 DEF QueueFrom
<1>11. x.first = G[b + 1]
  BY <1>1, <1>2, <1>3, <1>7, <1>8 DEF QueueFrom
<1>12. ASSUME NEW i \in b + 1 .. Len(G) - 1 PROVE next'[G[i]] = G[i + 1]
  <2>1. i \in 1 .. Len(H) /\ b # Len(H)
    BY <1>3
  <2>2. CASE i = Len(H)
    BY <1>3, <1>7, <2>1, <2>2
  <2>3. CASE i # Len(H)
    <3>1. i \in b + 1 .. Len(H) - 1 /\ i + 1 \in 1 .. Len(H)
      BY <1>3, <2>1, <2>3
    <3>2. next[H[i]] = H[i + 1]
      BY <1>1, <3>1 DEF QueueFrom
    <3>3. H[i] # H[Len(H)]
      BY <1>6, <1>8, <2>1, <2>3
    <3>4. next'[H[i]] = next[H[i]]
      BY <1>3, <2>1, <3>3
    <3> QED BY <1>3, <2>1, <3>1, <3>2, <3>4
  <2> QED BY <2>2, <2>3
<1>13. x.last = G[Len(G)]
  BY <1>2, <1>3
<1> QED BY <1>2, <1>9, <1>10, <1>11, <1>12, <1>13 DEF G, x

\* enqueueUpdate
LEMMA ClassEnqueued ==
  ASSUME Lists, NEW n \in Node \ Functions, NEW side \in Sides, side \in Living(n),
         NEW u \in Update, level[u] = NotMade, EnqueuedOnQueue(n, side, u)
  PROVE  LET G == Append(History(n), u)
         IN  /\ next' \in [Update -> Update \cup {None}] /\ next'[u] = None
             /\ \A v \in Update \ Range(History(n)) : next'[v] = next[v]
             /\ queues' \in [Node -> [Sides -> QueueSet]]
             /\ \A m \in Node \ {n} : queues'[m] = queues[m]
             /\ \A s \in Living(n) :
                  \E b \in 0 .. Len(G) :
                    LET x == queues'[n][QueueOf(n, s)]
                    IN  /\ x.base \in Possible(G)[b]
                        /\ x.first = IF b = Len(G) THEN None ELSE G[b + 1]
                        /\ x.last = IF b = Len(G) THEN None ELSE G[Len(G)]
                        /\ \A i \in b + 1 .. Len(G) - 1 : next'[G[i]] = G[i + 1]
<1> DEFINE H == History(n)
           G == Append(H, u)
           x(i) == queues'[n][i]
           Q(t) == WithUpdate(GivenQueue(n, t), u)
<1>1. /\ H \in Seq(Update) /\ IsInjective(H) /\ Len(H) \in Nat /\ DOMAIN H = 1 .. Len(H)
      /\ next \in [Update -> Update \cup {None}] /\ MadeOnce /\ UpdatesTyped
  BY ListFound, Histories
<1>2. /\ next' \in [Update -> Update \cup {None}]
      /\ \A v \in Update : next'[v] # next[v] => H # <<>> /\ v = H[Len(H)]
      /\ \A s \in Living(n) : GivenQueue(n, s).last # None => next'[H[Len(H)]] = u
  BY LinkedOnce
<1>3. \A v \in Update \ Range(H) : next'[v] = next[v]
  <2>1. H # <<>> => H[Len(H)] \in Range(H)
    BY <1>1 DEF Range
  <2> QED BY <1>2, <2>1
<1>4. u \notin Range(H) /\ next[u] = None
  BY HistoryElements, <1>1 DEF MadeOnce, MadeUpdates
<1> DEFINE given == [s \in Sides |-> IF fiber[n][s].queue # 0 THEN queues[n][QueueOf(n, s)]
                                    ELSE NewQueue(fiber[n][s].state)]
           P(t) == WithUpdate(given[t], u)
<1>5. queues' = [queues EXCEPT ![n] = [i \in Sides |->
        IF \E s \in Living(n) : QueueOf(n, s) = i
          THEN P(CHOOSE s \in Living(n) : QueueOf(n, s) = i) ELSE @[i]]]
  BY Zenon DEF EnqueuedOnQueue
<1>6. queues \in [Node -> [Sides -> QueueSet]] /\ n \in Node
  BY <1>1 DEF UpdatesTyped
<1>7. Living(n) \subseteq Sides
  BY DEF Living
<1>14. \A t \in Living(n) : P(t) = Q(t)
  BY <1>7, Zenon DEF GivenQueue
<1>8. ASSUME NEW t \in Living(n)
      PROVE  /\ Q(t) \in QueueSet /\ QueueOf(n, t) \in Sides
             /\ \E b \in 0 .. Len(G) :
                  /\ Q(t).base \in Possible(G)[b]
                  /\ Q(t).first = IF b = Len(G) THEN None ELSE G[b + 1]
                  /\ Q(t).last = IF b = Len(G) THEN None ELSE G[Len(G)]
                  /\ \A i \in b + 1 .. Len(G) - 1 : next'[G[i]] = G[i + 1]
  <2>1. /\ GivenQueue(n, t) \in QueueSet /\ QueueOver(GivenQueue(n, t), H)
        /\ QueueOf(n, t) \in Sides
    BY <1>7, QueueIsGiven DEF Given
  <2>2. GivenQueue(n, t).last # None => next'[H[Len(H)]] = u
    BY <1>2
  <2> HIDE DEF H
  <2> QED BY <1>1, <1>2, <2>1, <2>2, QueueGrows
<1> HIDE DEF H, P, Q
<1>9. ASSUME NEW i \in Sides
      PROVE  queues'[n][i] = IF \E s \in Living(n) : QueueOf(n, s) = i
                               THEN P(CHOOSE s \in Living(n) : QueueOf(n, s) = i)
                               ELSE queues[n][i]
  BY <1>5, <1>6
<1>10. ASSUME NEW i \in Sides, \E s \in Living(n) : QueueOf(n, s) = i
       PROVE  \E t \in Living(n) : queues'[n][i] = Q(t)
  BY <1>9, <1>10, <1>14
<1>11. \A i \in Sides : queues'[n][i] \in QueueSet
  <2> SUFFICES ASSUME NEW i \in Sides PROVE queues'[n][i] \in QueueSet
    OBVIOUS
  <2>1. CASE \E s \in Living(n) : QueueOf(n, s) = i
    BY <1>8, <1>10, <2>1
  <2>2. CASE ~\E s \in Living(n) : QueueOf(n, s) = i
    BY <1>6, <1>9, <2>2
  <2> QED BY <2>1, <2>2
<1>12. queues' \in [Node -> [Sides -> QueueSet]] /\ \A m \in Node \ {n} : queues'[m] = queues[m]
  <2>1. DOMAIN queues' = Node /\ \A m \in Node \ {n} : queues'[m] = queues[m]
    BY <1>5, <1>6
  <2>2. queues'[n] \in [Sides -> QueueSet]
    <3>1. DOMAIN queues'[n] = Sides /\ queues'[n] = [i \in Sides |-> queues'[n][i]]
      BY <1>5, <1>6
    <3> QED BY <1>11, <3>1
  <2>3. queues' = [m \in Node |-> queues'[m]]
    BY <1>5, <1>6
  <2> QED BY <1>6, <2>1, <2>2, <2>3
<1>13. ASSUME NEW s \in Living(n)
       PROVE  \E b \in 0 .. Len(G) :
                LET y == queues'[n][QueueOf(n, s)]
                IN  /\ y.base \in Possible(G)[b]
                    /\ y.first = IF b = Len(G) THEN None ELSE G[b + 1]
                    /\ y.last = IF b = Len(G) THEN None ELSE G[Len(G)]
                    /\ \A i \in b + 1 .. Len(G) - 1 : next'[G[i]] = G[i + 1]
  <2>1. QueueOf(n, s) \in Sides
    BY <1>8
  <2>2. PICK t \in Living(n) : queues'[n][QueueOf(n, s)] = Q(t)
    BY <1>10, <2>1
  <2> HIDE DEF G
  <2> QED BY <1>8, <2>2
<1> QED BY <1>2, <1>3, <1>4, <1>12, <1>13 DEF H

\* Each fiber of the component refers to its queue.
LEMMA QueuesAreReferred ==
  ASSUME fiber \in FiberTrees, NEW n \in Node
  PROVE  LET g == WithQueues(n)
         IN  /\ g \in FiberTrees
             /\ \A m \in Node, s \in Sides : m # n => g[m][s] = fiber[m][s]
             /\ \A s \in Sides :
                  LET x == fiber[n][s]
                      y == g[n][s]
                  IN  /\ y.queue = IF x.exists THEN QueueOf(n, s) ELSE x.queue
                      /\ y.exists = x.exists /\ y.kids = x.kids /\ y.state = x.state
                      /\ y.props = x.props /\ y.effect = x.effect
                      /\ y.base = x.base /\ y.baseUpdate = x.baseUpdate
<1> DEFINE g == WithQueues(n)
           x(s) == fiber[n][s]
           y(s) == IF s \in Living(n) THEN [x(s) EXCEPT !.queue = QueueOf(n, s)] ELSE x(s)
<1>1. g = [fiber EXCEPT ![n] = [s \in Sides |-> y(s)]]
  BY Zenon DEF WithQueues
<1>2. \A s \in Sides : x(s) \in FiberSet /\ (s \in Living(n) <=> x(s).exists)
  BY DEF FiberTrees, Living
<1>3. \A s \in Sides : QueueOf(n, s) \in Sides
  BY <1>2 DEF QueueOf, FiberSet, Sides
<1>4. ASSUME NEW s \in Sides
      PROVE  /\ y(s) \in FiberSet
             /\ y(s).queue = IF x(s).exists THEN QueueOf(n, s) ELSE x(s).queue
             /\ y(s).exists = x(s).exists /\ y(s).kids = x(s).kids /\ y(s).state = x(s).state
             /\ y(s).props = x(s).props /\ y(s).effect = x(s).effect
             /\ y(s).base = x(s).base /\ y(s).baseUpdate = x(s).baseUpdate
  <2> HIDE DEF x
  <2>1. x(s) \in FiberSet /\ QueueOf(n, s) \in Sides /\ (s \in Living(n) <=> x(s).exists)
    BY <1>2, <1>3
  <2> QED BY <2>1 DEF FiberSet
<1>5. \A s \in Sides : g[n][s] = y(s)
  <2> HIDE DEF y, g
  <2> QED BY <1>1 DEF FiberTrees
<1>6. \A m \in Node, s \in Sides : m # n => g[m][s] = fiber[m][s]
  <2> HIDE DEF y, g
  <2> QED BY <1>1 DEF FiberTrees
<1>7. g \in FiberTrees
  <2> HIDE DEF y, g
  <2> QED BY <1>1, <1>4 DEF FiberTrees
<1> HIDE DEF g
<1> QED BY <1>4, <1>5, <1>6, <1>7 DEF g

\* The lists of a component of another kind than a hook's, with one update more.
LEMMA ClassGrows ==
  ASSUME Lists, NEW n \in Node \ Functions, NEW side \in Sides, side \in Living(n),
         NEW u \in Update, level[u] = NotMade, EnqueuedOnQueue(n, side, u),
         History(n)' = Append(History(n), u), fiber' \in FiberTrees,
         \A s \in Sides : SameLists(fiber'[n][s], WithQueues(n)[n][s])
  PROVE  NodeLists(n)'
<1> DEFINE H == History(n)
           G == Append(H, u)
           w(s) == WithQueues(n)[n][s]
<1>1. H \in Seq(Update) /\ fiber \in FiberTrees /\ Len(H) \in Nat /\ u \in Update
  BY ListFound DEF UpdatesTyped
<1>2. /\ G # <<>> /\ Len(G) \in Nat /\ Len(G) = Len(H) + 1 /\ G[Len(G)] = u
      /\ \A x \in Possible(H)[Len(H)] : x \in Possible(G)[Len(G)]
  <2> HIDE DEF H
  <2> QED BY <1>1, ListGrows, PossibleGrows
<1>3. /\ next'[u] = None
      /\ \A s \in Living(n) :
           \E b \in 0 .. Len(G) :
             LET x == queues'[n][QueueOf(n, s)]
             IN  /\ x.base \in Possible(G)[b]
                 /\ x.first = IF b = Len(G) THEN None ELSE G[b + 1]
                 /\ x.last = IF b = Len(G) THEN None ELSE G[Len(G)]
                 /\ \A i \in b + 1 .. Len(G) - 1 : next'[G[i]] = G[i + 1]
  BY ClassEnqueued, Zenon
<1>4. ClassList(n)'
  BY <1>2, <1>3 DEF ClassList
<1>5. ASSUME NEW s \in Sides PROVE ClassSide(n, fiber[n][s])'
  <2>1. ClassSide(n, fiber[n][s]) /\ fiber[n][s] \in FiberSet
    BY <1>1 DEF Lists, NodeLists, SideOf, FiberTrees
  <2>2. /\ w(s).queue = IF fiber[n][s].exists THEN QueueOf(n, s) ELSE fiber[n][s].queue
        /\ w(s).exists = fiber[n][s].exists /\ w(s).state = fiber[n][s].state
        /\ w(s).base = fiber[n][s].base /\ w(s).baseUpdate = fiber[n][s].baseUpdate
    BY <1>1, QueuesAreReferred
  <2>3. QueueOf(n, s) \in Sides /\ 0 \notin Sides
    BY <2>1 DEF QueueOf, FiberSet, Sides
  <2>4. /\ fiber'[n][s].queue = w(s).queue /\ fiber'[n][s].exists = fiber[n][s].exists
        /\ fiber'[n][s].state = fiber[n][s].state
        /\ fiber'[n][s].base = <<>> /\ fiber'[n][s].baseUpdate = None
    BY <2>1, <2>2 DEF SameLists, ClassSide
  <2>5. (fiber[n][s].state \in Possible(History(n))[Len(History(n))])'
    BY <1>2, <2>1, <2>4 DEF ClassSide
  <2>6. fiber'[n][s].queue = 0 <=> ~fiber'[n][s].exists
    BY <2>1, <2>2, <2>3, <2>4 DEF ClassSide
  <2>7. ASSUME fiber'[n][s].queue # 0
        PROVE  QueueOver(queues[n][fiber[n][s].queue], History(n))'
    <3>1. s \in Living(n) /\ fiber'[n][s].queue = QueueOf(n, s)
      BY <2>2, <2>4, <2>6, <2>7 DEF Living
    <3>2. PICK b \in 0 .. Len(G) :
            LET x == queues'[n][QueueOf(n, s)]
            IN  /\ x.base \in Possible(G)[b]
                /\ x.first = IF b = Len(G) THEN None ELSE G[b + 1]
                /\ x.last = IF b = Len(G) THEN None ELSE G[Len(G)]
                /\ \A i \in b + 1 .. Len(G) - 1 : next'[G[i]] = G[i + 1]
      BY <1>3, <3>1
    <3>3. QueueFrom(queues[n][fiber[n][s].queue], History(n), b)'
      BY <3>1, <3>2 DEF QueueFrom
    <3> QED BY <3>3 DEF QueueOver
  <2> QED BY <1>2, <2>4, <2>5, <2>6, <2>7 DEF ClassSide
<1> QED BY <1>4, <1>5 DEF NodeLists, ListOf, SideOf

\* dispatchAction puts the update after the last one of the circle.
LEMMA HookLinks ==
  ASSUME NEW H \in Seq(Update), IsInjective(H), NEW u \in Update, u \notin Range(H),
         next \in [Update -> Update \cup {None}], CircleOf(next, H),
         NEW queue, queue.last = LastOf(H)
  PROVE  LET links == HookLinked(next, queue, u)
         IN  /\ links \in [Update -> Update \cup {None}] /\ CircleOf(links, Append(H, u))
             /\ \A v \in Update \ Range(H) : v # u => links[v] = next[v]
<1> DEFINE links == HookLinked(next, queue, u)
           G == Append(H, u)
<1>1. /\ G # <<>> /\ Len(G) \in Nat /\ Len(H) \in Nat /\ Len(G) = Len(H) + 1
      /\ G[Len(G)] = u /\ G[Len(H) + 1] = u
      /\ \A i \in 1 .. Len(H) : G[i] = H[i] /\ H[i] \in Update
  BY ListGrows
<1>2. None \notin Update /\ DOMAIN H = 1 .. Len(H)
  BY UpdateAssumption
<1>3. /\ \A i, j \in 1 .. Len(H) : H[i] = H[j] => i = j
      /\ \A i \in 1 .. Len(H) : H[i] # u /\ H[i] \in Range(H)
  BY <1>2 DEF IsInjective, Range
<1>4. CASE H = <<>>
  <2>1. links = [next EXCEPT ![u] = u]
    BY <1>4 DEF HookLinked, LastOf
  <2>2. Len(H) = 0 /\ Len(G) = 1 /\ G[1] = u
    BY <1>1, <1>4
  <2> HIDE DEF links, G
  <2>3. CircleOf(links, G)
    BY <2>1, <2>2 DEF CircleOf
  <2> QED BY <2>1, <2>3 DEF links, G
<1>5. CASE H # <<>>
  <2>1. Len(H) \in 1 .. Len(H) /\ Len(H) >= 1 /\ H[Len(H)] \in Update
    BY <1>1, <1>5
  <2>2. links = [next EXCEPT ![u] = next[H[Len(H)]], ![H[Len(H)]] = u]
    BY <1>2, <1>5, <2>1 DEF HookLinked, LastOf
  <2>3. next[H[Len(H)]] \in {None, H[1]} /\ \A i \in 1 .. Len(H) - 1 : next[H[i]] = H[i + 1]
    BY <1>5 DEF CircleOf
  <2>4. G[1] = H[1] /\ 1 \in 1 .. Len(H)
    BY <1>1, <2>1
  <2> HIDE DEF links, G
  <2>5. links[u] = next[H[Len(H)]] /\ links[H[Len(H)]] = u
    BY <1>3, <2>1, <2>2
  <2>6. ASSUME NEW i \in 1 .. Len(G) - 1 PROVE links[G[i]] = G[i + 1]
    <3>1. i \in 1 .. Len(H)
      BY <1>1
    <3>2. CASE i = Len(H)
      BY <1>1, <2>5, <3>1, <3>2
    <3>3. CASE i # Len(H)
      <4>1. i \in 1 .. Len(H) - 1 /\ i + 1 \in 1 .. Len(H)
        BY <1>1, <3>1, <3>3
      <4>2. H[i] # H[Len(H)] /\ H[i] # u /\ H[i] \in Update
        BY <1>1, <1>3, <2>1, <3>1, <3>3
      <4>3. links[H[i]] = next[H[i]]
        BY <2>1, <2>2, <4>2
      <4> QED BY <1>1, <2>3, <3>1, <4>1, <4>3
    <3> QED BY <3>2, <3>3
  <2>7. CircleOf(links, G)
    BY <1>1, <2>3, <2>4, <2>5, <2>6 DEF CircleOf
  <2>8. links \in [Update -> Update \cup {None}]
    BY <2>1, <2>2
  <2>9. \A v \in Update \ Range(H) : v # u => links[v] = next[v]
    BY <1>3, <2>1, <2>2
  <2> QED BY <2>7, <2>8, <2>9 DEF links, G
<1> QED BY <1>4, <1>5

\* dispatchAction
LEMMA HookEnqueued ==
  ASSUME Lists, NEW n \in Functions, NEW u \in Update, level[u] = NotMade, EnqueuedOnHook(n, u)
  PROVE  LET H == History(n)
             G == Append(H, u)
         IN  /\ next' \in [Update -> Update \cup {None}] /\ CircleOf(next', G)
             /\ \A v \in Update \ Range(H) : v # u => next'[v] = next[v]
             /\ queues' = queues
             /\ hooks' \in [Node -> HookSet] /\ \A m \in Node \ {n} : hooks'[m] = hooks[m]
             /\ hooks'[n].last = u /\ hooks'[n].rendered = hooks[n].rendered
             /\ eager' \in [Update -> Seq(Seq(Update))]
             /\ \A v \in Update \ {u} : eager'[v] = eager[v]
             /\ eager'[u] = <<>> \/ eager'[u][1] \in Possible(G)[Len(G)]
<1> DEFINE H == History(n)
           G == Append(H, u)
<1>1. n \in Node
  BY TreeAssumption DEF Children
<1>2. /\ H \in Seq(Update) /\ IsInjective(H) /\ Len(H) \in Nat
      /\ next \in [Update -> Update \cup {None}] /\ MadeOnce /\ UpdatesTyped
  BY <1>1, ListFound
<1>3. HookList(n)
  BY <1>1 DEF Lists, NodeLists, ListOf
<1>4. u \notin Range(H)
  BY <1>1, <1>2, HistoryElements DEF MadeUpdates
<1>5. /\ CircleOf(next, H) /\ hooks[n].last = LastOf(H)
      /\ hooks[n].rendered \in Possible(H)[Len(H)]
  BY <1>3 DEF HookList
<1>6. next' = HookLinked(next, hooks[n], u) /\ queues' = queues
  BY DEF EnqueuedOnHook
<1>7. /\ next' \in [Update -> Update \cup {None}] /\ CircleOf(next', G)
      /\ \A v \in Update \ Range(H) : v # u => next'[v] = next[v]
  <2> HIDE DEF H
  <2> QED BY <1>2, <1>4, <1>5, <1>6, HookLinks
<1>8. hooks \in [Node -> HookSet] /\ hooks' = [hooks EXCEPT ![n].last = u]
  BY <1>2 DEF UpdatesTyped, EnqueuedOnHook
<1>9. /\ hooks' \in [Node -> HookSet] /\ \A m \in Node \ {n} : hooks'[m] = hooks[m]
      /\ hooks'[n].last = u /\ hooks'[n].rendered = hooks[n].rendered
  BY <1>1, <1>8 DEF HookSet
<1>10. hooks[n].rendered \in Seq(Update)
  BY <1>1, <1>8 DEF HookSet
<1>11. eager \in [Update -> Seq(Seq(Update))] /\ eager[u] = <<>>
  BY <1>2 DEF UpdatesTyped, MadeOnce
<1>12. Applied(hooks[n].rendered, u) \in Seq(Update)
  BY <1>10, AppliedIsState
<1>13. eager' = eager \/ eager' = [eager EXCEPT ![u] = <<Applied(hooks[n].rendered, u)>>]
  BY DEF EnqueuedOnHook
<1>14. /\ eager' \in [Update -> Seq(Seq(Update))]
       /\ \A v \in Update \ {u} : eager'[v] = eager[v]
       /\ eager'[u] = <<>> \/ eager'[u][1] = Applied(hooks[n].rendered, u)
  <2>1. \A z \in Seq(Update) : <<z>> \in Seq(Seq(Update)) /\ <<z>>[1] = z
    OBVIOUS
  <2>2. /\ <<Applied(hooks[n].rendered, u)>> \in Seq(Seq(Update))
        /\ <<Applied(hooks[n].rendered, u)>>[1] = Applied(hooks[n].rendered, u)
    BY <1>12, <2>1
  <2>3. CASE eager' = eager
    BY <1>11, <2>3
  <2>4. CASE eager' = [eager EXCEPT ![u] = <<Applied(hooks[n].rendered, u)>>]
    <3> DEFINE e == <<Applied(hooks[n].rendered, u)>>
    <3> HIDE DEF e
    <3>1. eager' = [eager EXCEPT ![u] = e] /\ e \in Seq(Seq(Update))
      BY <2>2, <2>4 DEF e
    <3>2. /\ eager' \in [Update -> Seq(Seq(Update))] /\ eager'[u] = e
          /\ \A v \in Update \ {u} : eager'[v] = eager[v]
      BY <1>11, <3>1
    <3>3. e[1] = Applied(hooks[n].rendered, u)
      BY <2>2 DEF e
    <3> QED BY <3>2, <3>3, Zenon
  <2> QED BY <1>13, <2>3, <2>4
<1>15. Applied(hooks[n].rendered, u) \in Possible(G)[Len(G)]
  <2> HIDE DEF H
  <2>1. Len(G) = Len(H) + 1
    BY <1>2, ListGrows
  <2> QED BY <1>2, <1>5, <2>1, PossibleGrows
<1> HIDE DEF H, G
<1> QED BY <1>6, <1>7, <1>9, <1>14, <1>15 DEF H, G

\* The lists of a hook's component, with one update more.
LEMMA HookGrows ==
  ASSUME Lists, NEW n \in Functions, NEW u \in Update, level[u] = NotMade, EnqueuedOnHook(n, u),
         History(n)' = Append(History(n), u),
         \A s \in Sides : SameLists(fiber'[n][s], fiber[n][s])
  PROVE  NodeLists(n)'
<1> DEFINE H == History(n)
           G == Append(H, u)
<1>1. n \in Node
  BY TreeAssumption DEF Children
<1>2. H \in Seq(Update) /\ Len(H) \in Nat /\ MadeOnce
  BY <1>1, ListFound
<1>3. HookList(n) /\ \A s \in Sides : HookSide(n, fiber[n][s])
  BY <1>1 DEF Lists, NodeLists, ListOf, SideOf
<1>4. /\ CircleOf(next', G) /\ hooks'[n].last = u /\ hooks'[n].rendered = hooks[n].rendered
      /\ \A v \in Update \ {u} : eager'[v] = eager[v]
      /\ eager'[u] = <<>> \/ eager'[u][1] \in Possible(G)[Len(G)]
  BY HookEnqueued
<1>5. /\ G # <<>> /\ Len(G) \in Nat /\ Len(G) = Len(H) + 1 /\ G[Len(G)] = u
      /\ \A i \in 1 .. Len(H) : G[i] = H[i] /\ H[i] \in Update
  <2> HIDE DEF H
  <2> QED BY <1>2, ListGrows
<1>6. /\ \A k \in 0 .. Len(H) : Possible(G)[k] = Possible(H)[k]
      /\ \A x \in Possible(H)[Len(H)] : x \in Possible(G)[Len(G)]
  <2> HIDE DEF H
  <2> QED BY <1>2, <1>5, PossibleGrows
<1>7. \A i \in 1 .. Len(H) : H[i] # u
  BY <1>1, <1>2, HistoryElements DEF MadeUpdates, Range
<1>8. ASSUME NEW i \in 1 .. Len(G)
      PROVE  eager'[G[i]] = <<>> \/ eager'[G[i]][1] \in Possible(G)[i]
  <2>1. CASE i = Len(G)
    BY <1>4, <1>5, <2>1
  <2>2. CASE i # Len(G)
    <3> HIDE DEF G
    <3>1. i \in 1 .. Len(H) /\ i \in 0 .. Len(H)
      BY <1>2, <1>5, <2>2
    <3>2. eager[H[i]] = <<>> \/ eager[H[i]][1] \in Possible(H)[i]
      BY <1>3, <3>1 DEF HookList
    <3>3. G[i] = H[i] /\ H[i] # u /\ H[i] \in Update /\ Possible(G)[i] = Possible(H)[i]
      BY <1>5, <1>6, <1>7, <3>1
    <3>4. eager'[H[i]] = eager[H[i]]
      BY <1>4, <3>3
    <3> QED BY <3>2, <3>3, <3>4
  <2> QED BY <2>1, <2>2
<1>9. HookList(n)'
  <2>1. CircleOf(next, History(n))'
    BY <1>4 DEF CircleOf
  <2>2. (hooks[n].last = LastOf(History(n)))'
    BY <1>4, <1>5 DEF LastOf
  <2>3. (hooks[n].rendered \in Possible(History(n))[Len(History(n))])'
    BY <1>3, <1>4, <1>6 DEF HookList
  <2>4. (\A i \in 1 .. Len(History(n)) : \/ eager[History(n)[i]] = <<>>
                                         \/ eager[History(n)[i]][1] \in Possible(History(n))[i])'
    BY <1>8
  <2> QED BY <2>1, <2>2, <2>3, <2>4 DEF HookList
<1>10. ASSUME NEW s \in Sides PROVE HookSide(n, fiber[n][s])'
  <2> DEFINE x == fiber[n][s]
             y == fiber'[n][s]
  <2>1. /\ y.queue = 0 /\ y.state = x.state /\ y.base = x.base /\ y.baseUpdate = x.baseUpdate
        /\ x.state \in Possible(H)[Len(H)]
    BY <1>3 DEF HookSide, SameLists
  <2>2. PICK b \in 0 .. Len(H) : HookFrom(x.base, x.baseUpdate, H, b)
    BY <1>3 DEF HookSide
  <2>3. b \in 0 .. Len(G) /\ (b # 0 => b \in 1 .. Len(H))
    <3> HIDE DEF G
    <3> QED BY <1>2, <1>5
  <2>4. HookFrom(y.base, y.baseUpdate, G, b)
    BY <1>5, <1>6, <2>1, <2>2, <2>3 DEF HookFrom
  <2>5. (\E c \in 0 .. Len(History(n)) : HookFrom(fiber[n][s].base, fiber[n][s].baseUpdate, History(n), c))'
    BY <2>3, <2>4 DEF HookFrom
  <2>6. (fiber[n][s].state \in Possible(History(n))[Len(History(n))])'
    BY <1>6, <2>1
  <2> QED BY <2>1, <2>5, <2>6 DEF HookSide
<1> QED BY <1>9, <1>10 DEF NodeLists, ListOf, SideOf

\* What an update changes of the lists, whatever list it is put on.
EnqueuedOnce(n, u) ==
  /\ next' \in [Update -> Update \cup {None}] /\ queues' \in [Node -> [Sides -> QueueSet]]
  /\ hooks' \in [Node -> HookSet] /\ eager' \in [Update -> Seq(Seq(Update))]
  /\ \A v \in Update \ Range(History(n)) : v # u => next'[v] = next[v]
  /\ \A v \in Update \ {u} : eager'[v] = eager[v]
  /\ \A m \in Node \ {n} : queues'[m] = queues[m] /\ hooks'[m] = hooks[m]

\* enqueueSetState, dispatchAction and updateContainer keep the lists.
LEMMA UpdateLists ==
  ASSUME Lists, Alive(fiber), current \in Sides, NEW u \in Update,
         NEW priority, NEW isInsideReact, NEW isDiscrete,
         ComputedExpiration(RequestedTime(isInsideReact), priority) \in Levels,
         MakeUpdate(u, priority, isInsideReact, isDiscrete)
  PROVE  Lists' /\ Alive(fiber')
<1> DEFINE n          == Target[u]
           expiration == ComputedExpiration(RequestedTime(isInsideReact), priority)
           g          == IF n \in Functions THEN fiber ELSE WithQueues(n)
           side       == IF n = Root THEN current ELSE 1
           H          == History(n)
<1>1. n \in Node /\ side \in Sides /\ expiration \in Levels
  BY WorkLoopAssumption DEF Sides
<1>2. UpdatesTyped /\ MadeOnce /\ fiber \in FiberTrees /\ (\A m \in Node : NodeLists(m))
  BY DEF Lists, UpdatesTyped
<1>3. /\ level[u] = NotMade /\ level' = [level EXCEPT ![u] = expiration]
      /\ made' = [made EXCEPT ![n] = Append(@, u)]
      /\ IF n \in Functions THEN EnqueuedOnHook(n, u) ELSE EnqueuedOnQueue(n, side, u)
  BY DEF MakeUpdate
<1>4. (fiber' = fiber /\ n \in Functions) \/ fiber' = Marked(g, n, expiration)
  BY DEF MakeUpdate, EagerlySame, ScheduleUpdate
<1>5. side \in Living(n)
  BY <1>1 DEF Alive, Living, Sides
<1> HIDE DEF n, expiration, side, H
<1>6. g \in FiberTrees /\ Steady(g, fiber')
  <2>1. g \in FiberTrees
    BY <1>1, <1>2, QueuesAreReferred
  <2> HIDE DEF g
  <2>2. CASE fiber' = Marked(g, n, expiration)
    BY <1>1, <2>1, <2>2, MarkedIsSteady
  <2>3. CASE fiber' = fiber /\ n \in Functions
    BY <2>1, <2>3, SteadyItself DEF g
  <2> QED BY <1>4, <2>1, <2>2, <2>3
<1>7. /\ fiber' \in FiberTrees
      /\ \A m \in Node, s \in Sides : SameFiber(fiber'[m][s], g[m][s])
  BY <1>6 DEF Steady
<1>8. \A m \in Node, s \in Sides : g[m][s].exists = fiber[m][s].exists /\ g[m][s].kids = fiber[m][s].kids
  <2>1. CASE n \in Functions
    BY <2>1
  <2>2. CASE n \notin Functions
    <3>1. \A m \in Node, s \in Sides : m # n => g[m][s] = fiber[m][s]
      BY <1>1, <1>2, <2>2, QueuesAreReferred
    <3>2. \A s \in Sides : g[n][s].exists = fiber[n][s].exists /\ g[n][s].kids = fiber[n][s].kids
      BY <1>1, <1>2, <2>2, QueuesAreReferred
    <3> HIDE DEF g
    <3> QED BY <3>1, <3>2
  <2> QED BY <2>1, <2>2
<1>9. Alive(fiber')
  <2> HIDE DEF g
  <2>1. Alive(g)
    BY <1>2, <1>8, AliveAlike
  <2> QED BY <1>6, <2>1, SteadyIsAlive
<1>10. EnqueuedOnce(n, u)
  <2>1. CASE n \in Functions
    <3>1. EnqueuedOnHook(n, u)
      BY <1>3, <2>1
    <3> QED BY <1>2, <1>3, <2>1, <3>1, HookEnqueued DEF EnqueuedOnce, UpdatesTyped
  <2>2. CASE n \notin Functions
    <3>1. EnqueuedOnQueue(n, side, u) /\ side \in Sides /\ n \in Node \ Functions
      BY <1>1, <1>3, <2>2
    <3>2. hooks' = hooks /\ eager' = eager
      BY <3>1 DEF EnqueuedOnQueue
    <3>3. /\ next' \in [Update -> Update \cup {None}]
          /\ \A v \in Update \ Range(History(n)) : next'[v] = next[v]
          /\ queues' \in [Node -> [Sides -> QueueSet]]
          /\ \A m \in Node \ {n} : queues'[m] = queues[m]
      BY <1>3, <1>5, <3>1, ClassEnqueued
    <3> QED BY <1>2, <3>2, <3>3 DEF EnqueuedOnce, UpdatesTyped
  <2> QED BY <2>1, <2>2
<1>11. MadeOnce' /\ level' \in [Update -> Levels \cup {NotMade}]
  <2>1. ASSUME NEW v \in Update, v # u, level[v] = NotMade
        PROVE  next'[v] = None /\ eager'[v] = <<>>
    <3>1. v \notin Range(History(n)) /\ next[v] = None /\ eager[v] = <<>>
      BY <1>1, <1>2, <2>1, HistoryElements DEF MadeOnce, MadeUpdates
    <3> QED BY <1>10, <2>1, <3>1 DEF EnqueuedOnce
  <2> QED BY <1>1, <1>2, <1>3, <2>1, MadeOnceMore DEF UpdatesTyped, n
<1>12. /\ History(n)' = Append(History(n), u)
       /\ \A m \in Node \ {n} : History(m)' = History(m)
       /\ \A m \in Node : \A i \in 1 .. Len(History(m)) : History(m)[i] # u
  BY <1>1, <1>2, <1>3, HistoryGrows DEF n
<1>13. NodeLists(n)'
  <2>1. CASE n \in Functions
    <3>1. EnqueuedOnHook(n, u)
      BY <1>3, <2>1
    <3>2. \A s \in Sides : SameLists(fiber'[n][s], fiber[n][s])
      BY <1>1, <1>7, <2>1 DEF SameFiber
    <3> QED BY <1>3, <1>12, <2>1, <3>1, <3>2, HookGrows
  <2>2. CASE n \notin Functions
    <3>1. EnqueuedOnQueue(n, side, u) /\ side \in Sides /\ n \in Node \ Functions
      BY <1>1, <1>3, <2>2
    <3>2. \A s \in Sides : SameLists(fiber'[n][s], WithQueues(n)[n][s])
      BY <1>1, <1>7, <2>2 DEF SameFiber
    <3> QED BY <1>3, <1>5, <1>7, <1>12, <3>1, <3>2, ClassGrows
  <2> QED BY <2>1, <2>2
<1>14. ASSUME NEW m \in Node, m # n PROVE NodeLists(m)'
  <2>1. \A i \in 1 .. Len(History(m)) :
          next'[History(m)[i]] = next[History(m)[i]] /\ eager'[History(m)[i]] = eager[History(m)[i]]
    <3> SUFFICES ASSUME NEW i \in 1 .. Len(History(m))
                 PROVE  /\ next'[History(m)[i]] = next[History(m)[i]]
                        /\ eager'[History(m)[i]] = eager[History(m)[i]]
      OBVIOUS
    <3>1. History(m)[i] \in Update /\ Owner(History(m)[i]) = m /\ History(m)[i] # u
      BY <1>2, <1>12, Histories
    <3>2. History(m)[i] \notin Range(History(n))
      BY <1>1, <1>2, <1>14, <3>1, HistoryElements
    <3> QED BY <1>10, <3>1, <3>2 DEF EnqueuedOnce
  <2>2. queues'[m] = queues[m] /\ hooks'[m] = hooks[m]
    BY <1>10, <1>14 DEF EnqueuedOnce
  <2>3. \A s \in Sides : SameQueue(queues'[m][s], queues[m][s])
    BY <2>2 DEF SameQueue
  <2>4. \A s \in Sides : fiber[m][s].queue \in {0} \cup Sides
    BY <1>2 DEF FiberTrees, FiberSet
  <2>5. \A s \in Sides : g[m][s] = fiber[m][s]
    <3>1. CASE n \in Functions
      BY <3>1
    <3>2. CASE n \notin Functions
      BY <1>1, <1>2, <1>14, <3>2, QueuesAreReferred
    <3> QED BY <3>1, <3>2
  <2>6. ASSUME NEW s \in Sides PROVE \E t \in Sides : SameLists(fiber'[m][s], fiber[m][t])
    <3> HIDE DEF g
    <3>1. SameLists(fiber'[m][s], fiber[m][s])
      BY <1>7, <2>5 DEF SameFiber
    <3> QED BY <3>1
  <2>7. History(m)' = History(m) /\ NodeLists(m)
    BY <1>2, <1>12, <1>14
  <2> QED BY <1>2, <2>1, <2>2, <2>3, <2>4, <2>6, <2>7, OtherLists
<1>15. UpdatesTyped'
  BY <1>7, <1>10, <1>11 DEF UpdatesTyped, EnqueuedOnce
<1> QED BY <1>9, <1>11, <1>13, <1>14, <1>15 DEF Lists

-----------------------------------------------------------------------------
(***************************************************************************)
(* What the loop passes around: levels, updates and components.            *)
(***************************************************************************)
RootPlaces == { "renderRoot", "prepare", "workLoop", "completeUnitOfWork",
                "commitRoot", "commit", "layout", "committed" }
SyncEntries == [todo : Levels, wrapped : BOOLEAN]
PassiveSet  == [nodes : Seq(Node), priority : {"idle", "normal"}]

TaskTyped(t) == "kind" \in DOMAIN t /\ (t.kind = "root" => "todo" \in DOMAIN t /\ t.todo \in Levels)

FrameTyped(f) ==
  /\ "at" \in DOMAIN f
  /\ f.at = "event" => "event" \in DOMAIN f /\ f.event \in Events
  /\ f.at = "passive" => f.passive \in PassiveSet
  /\ f.at = "task" => TaskTyped(f.task)
  /\ f.at \in RootPlaces => /\ {"todo", "callbacks", "effects"} \subseteq DOMAIN f
                            /\ f.todo \in Levels
                            /\ f.callbacks \in Seq(Update) /\ f.effects \in Seq(Node)

\* The root is called by the loop of synchronous callbacks or by a task.
Framed(frames) ==
  /\ IsSeq(frames)
  /\ \A i \in DOMAIN frames :
       /\ FrameTyped(frames[i])
       /\ frames[i].at \in RootPlaces =>
            i + 1 \in DOMAIN frames /\ frames[i + 1].at \in {"flush", "task"}

RootTyped(r) ==
  r.firstPendingTime \in Levels /\ r.callbackExpirationTime \in Levels
    /\ r.finishedExpirationTime \in Levels

LoopTyped ==
  /\ RootTyped(root) /\ work.time \in Levels /\ work.effects \in Seq(Node)
  /\ \A t \in tasks : TaskTyped(t)
  /\ syncQueue \in Seq(SyncEntries) /\ passive \in PassiveSet /\ discrete \in Levels
  /\ now \in Times /\ currentEventTime \in Times \cup {NoWork}
  /\ Framed(stack)

LEMMA LevelFacts ==
  /\ NoWork \in Levels /\ Never \in Levels /\ Sync \in Levels /\ Commit \in Levels
  /\ Times \subseteq Levels /\ Levels \subseteq Nat
  /\ \A time \in Times : time \in Int /\ time <= Offset
BY ConstantTypes, WorkLoopAssumption DEF Levels, NoWork, Never, Sync, Commit

\* computeExpirationForFiber computes a level.
LEMMA LevelIsComputed ==
  ASSUME now \in Times, currentEventTime \in Times \cup {NoWork}, NEW isInsideReact,
         NEW priority \in Priorities
  PROVE  /\ ComputedExpiration(RequestedTime(isInsideReact), priority) \in Levels
         /\ RequestedTime(isInsideReact) \in Times
<1> DEFINE time == RequestedTime(isInsideReact)
           expiration == ExpirationOf(time, priority)
<1>1. time \in Times
  BY DEF RequestedTime
<1> HIDE DEF time
<1>2. time \in Int /\ time <= Offset
  BY <1>1, LevelFacts
<1>3. expiration \in Levels /\ expiration >= 1
  <2>1. CASE priority = "immediate"
    BY <2>1, LevelFacts, ConstantTypes DEF ExpirationOf, Sync
  <2>2. CASE priority = "idle"
    BY <2>2, LevelFacts DEF ExpirationOf, Never
  <2>3. CASE priority = "userBlocking"
    <3>1. expiration = Bucket(time, HighExpiration, HighBatch)
      BY <2>3 DEF ExpirationOf
    <3>2. expiration > Never
      BY <1>1, <2>3, ClockAssumption
    <3> HIDE DEF expiration
    <3>3. expiration \in Int /\ expiration < time - HighExpiration
      BY <1>2, <3>1, BucketBounds, ConstantTypes
    <3> QED BY <1>2, <3>2, <3>3, ConstantTypes DEF Levels, Never, NoWork, Sync
  <2>4. CASE priority = "normal"
    <3>1. expiration = Bucket(time, LowExpiration, LowBatch)
      BY <2>4 DEF ExpirationOf
    <3>2. expiration > Never
      BY <1>1, <2>4, ClockAssumption
    <3> HIDE DEF expiration
    <3>3. expiration \in Int /\ expiration < time - LowExpiration
      BY <1>2, <3>1, BucketBounds, ConstantTypes
    <3> QED BY <1>2, <3>2, <3>3, ConstantTypes DEF Levels, Never, NoWork, Sync
  <2> QED BY <2>1, <2>2, <2>3, <2>4 DEF Priorities
<1> HIDE DEF expiration
<1>4. ComputedExpiration(time, priority) \in {expiration, expiration - 1}
  BY DEF ComputedExpiration, expiration
<1>5. expiration - 1 \in Levels
  BY <1>3, ConstantTypes DEF Levels, NoWork, Sync
<1> QED BY <1>1, <1>3, <1>4, <1>5 DEF time

\* Sequences of typed frames.
LEMMA ConcatAgain ==
  ASSUME NEW a, IsSeq(a), NEW b, IsSeq(b), NEW c, IsSeq(c)
  PROVE  (a \o b) \o c = a \o (b \o c)
<1>1. PICK A, B, C : a \in Seq(A) /\ b \in Seq(B) /\ c \in Seq(C)
  BY DEF IsSeq
<1> DEFINE U == A \cup B \cup C
<1>2. a \in Seq(U) /\ b \in Seq(U) /\ c \in Seq(U)
  BY <1>1
<1> HIDE DEF U
<1> QED BY <1>2

LEMMA FramedEmpty == Framed(<<>>)
<1>1. <<>> \in Seq({}) /\ DOMAIN <<>> = {}
  OBVIOUS
<1> QED BY <1>1 DEF Framed, IsSeq

LEMMA FramedOnTop ==
  ASSUME NEW frames, Framed(frames), NEW f, FrameTyped(f),
         f.at \in RootPlaces => frames # <<>> /\ Head(frames).at \in {"flush", "task"}
  PROVE  LET s == <<f>> \o frames
         IN  Framed(s) /\ s # <<>> /\ Head(s) = f /\ Tail(s) = frames
<1>1. PICK S : frames \in Seq(S)
  BY DEF Framed, IsSeq
<1> DEFINE T == S \cup {f}
           s == <<f>> \o frames
<1>2. frames \in Seq(T) /\ <<f>> \in Seq(T)
  BY <1>1
<1> HIDE DEF T
<1>3. /\ s \in Seq(T) /\ Len(s) = 1 + Len(frames) /\ Len(frames) \in Nat /\ s[1] = f
      /\ \A i \in 1 .. Len(frames) : s[i + 1] = frames[i]
  BY <1>2
<1>4. DOMAIN s = 1 .. 1 + Len(frames) /\ DOMAIN frames = 1 .. Len(frames)
  BY <1>2, <1>3
<1>5. frames # <<>> => Len(frames) >= 1 /\ Head(frames) = frames[1]
  BY <1>2
<1> HIDE DEF s
<1>6. s # <<>> /\ Head(s) = f /\ Tail(s) = frames
  <2>1. s # <<>> /\ Head(s) = f
    BY <1>3
  <2>2. Tail(s) = frames
    BY <1>2, <1>3, <2>1
  <2> QED BY <2>1, <2>2
<1>7. ASSUME NEW i \in DOMAIN s
      PROVE  /\ FrameTyped(s[i])
             /\ s[i].at \in RootPlaces => i + 1 \in DOMAIN s /\ s[i + 1].at \in {"flush", "task"}
  <2>1. CASE i = 1
    <3>1. s[i] = f
      BY <1>3, <2>1
    <3>2. f.at \in RootPlaces => i + 1 \in DOMAIN s /\ s[i + 1] = Head(frames)
      BY <1>3, <1>4, <1>5, <2>1
    <3> QED BY <3>1, <3>2
  <2>2. CASE i # 1
    <3>1. /\ i - 1 \in 1 .. Len(frames) /\ i - 1 \in DOMAIN frames /\ (i - 1) + 1 = i
      BY <1>3, <1>4, <2>2
    <3>2. s[i] = frames[i - 1]
      BY <1>3, <3>1
    <3>3. FrameTyped(frames[i - 1])
      BY <3>1 DEF Framed
    <3>4. frames[i - 1].at \in RootPlaces => i \in DOMAIN frames /\ frames[i].at \in {"flush", "task"}
      BY <3>1 DEF Framed
    <3>5. i \in DOMAIN frames => i + 1 \in DOMAIN s /\ s[i + 1] = frames[i]
      BY <1>3, <1>4
    <3> QED BY <3>2, <3>3, <3>4, <3>5
  <2> QED BY <2>1, <2>2
<1> QED BY <1>3, <1>6, <1>7 DEF Framed, IsSeq, s

LEMMA FramedTail ==
  ASSUME NEW frames, Framed(frames), frames # <<>>
  PROVE  /\ Framed(Tail(frames)) /\ FrameTyped(Head(frames))
         /\ Head(frames).at \in RootPlaces =>
              /\ Tail(frames) # <<>> /\ Head(Tail(frames)) = frames[2]
              /\ frames[2].at \in {"flush", "task"} /\ FrameTyped(frames[2])
              /\ Framed(SubSeq(frames, 3, Len(frames)))
<1>1. PICK S : frames \in Seq(S)
  BY DEF Framed, IsSeq
<1>2. Len(frames) \in Nat /\ Len(frames) >= 1 /\ DOMAIN frames = 1 .. Len(frames)
  BY <1>1
<1>3. Head(frames) = frames[1] /\ 1 \in DOMAIN frames
  BY <1>1, <1>2
<1> DEFINE t == Tail(frames)
<1>4. /\ t \in Seq(S) /\ Len(t) = Len(frames) - 1 /\ DOMAIN t = 1 .. Len(frames) - 1
      /\ \A i \in 1 .. Len(frames) - 1 : t[i] = frames[i + 1]
  BY <1>1, <1>2
<1> HIDE DEF t
<1>5. Framed(t)
  <2>1. ASSUME NEW i \in DOMAIN t
        PROVE  /\ FrameTyped(t[i])
               /\ t[i].at \in RootPlaces => i + 1 \in DOMAIN t /\ t[i + 1].at \in {"flush", "task"}
    <3>1. t[i] = frames[i + 1] /\ i + 1 \in DOMAIN frames
      BY <1>2, <1>4
    <3>2. /\ FrameTyped(frames[i + 1])
          /\ frames[i + 1].at \in RootPlaces =>
               (i + 1) + 1 \in DOMAIN frames /\ frames[(i + 1) + 1].at \in {"flush", "task"}
      BY <3>1 DEF Framed
    <3>3. (i + 1) + 1 \in DOMAIN frames => i + 1 \in DOMAIN t /\ t[i + 1] = frames[(i + 1) + 1]
      BY <1>2, <1>4
    <3> QED BY <3>1, <3>2, <3>3
  <2> QED BY <1>4, <2>1 DEF Framed, IsSeq
<1>6. ASSUME Head(frames).at \in RootPlaces
      PROVE  /\ t # <<>> /\ Head(t) = frames[2]
             /\ frames[2].at \in {"flush", "task"} /\ FrameTyped(frames[2])
             /\ Framed(SubSeq(frames, 3, Len(frames)))
  <2>1. 2 \in DOMAIN frames /\ frames[2].at \in {"flush", "task"} /\ FrameTyped(frames[2])
    BY <1>3, <1>6 DEF Framed
  <2>2. Len(t) >= 1 /\ t[1] = frames[2]
    BY <1>2, <1>4, <2>1
  <2>3. t # <<>> /\ Head(t) = frames[2]
    BY <1>4, <2>2
  <2> DEFINE u == SubSeq(frames, 3, Len(frames))
  <2>4. /\ u \in Seq(S) /\ DOMAIN u = 1 .. Len(frames) - 2
        /\ \A i \in 1 .. Len(frames) - 2 : u[i] = frames[i + 2]
    BY <1>1, <1>2, <2>1
  <2> HIDE DEF u
  <2>5. ASSUME NEW i \in DOMAIN u
        PROVE  /\ FrameTyped(u[i])
               /\ u[i].at \in RootPlaces => i + 1 \in DOMAIN u /\ u[i + 1].at \in {"flush", "task"}
    <3>1. u[i] = frames[i + 2] /\ i + 2 \in DOMAIN frames
      BY <1>2, <2>4
    <3>2. /\ FrameTyped(frames[i + 2])
          /\ frames[i + 2].at \in RootPlaces =>
               (i + 2) + 1 \in DOMAIN frames /\ frames[(i + 2) + 1].at \in {"flush", "task"}
      BY <3>1 DEF Framed
    <3>3. (i + 2) + 1 \in DOMAIN frames => i + 1 \in DOMAIN u /\ u[i + 1] = frames[(i + 2) + 1]
      BY <1>2, <2>4
    <3> QED BY <3>1, <3>2, <3>3
  <2>6. Framed(u)
    BY <2>4, <2>5 DEF Framed, IsSeq
  <2> QED BY <2>1, <2>3, <2>6 DEF u
<1>7. FrameTyped(Head(frames))
  BY <1>3 DEF Framed
<1> QED BY <1>5, <1>6, <1>7 DEF t

\* Calls that are made on top of others.
LEMMA FramedCalls ==
  ASSUME NEW frames, Framed(frames)
  PROVE  /\ Framed(FlushPassiveEffects \o frames)
         /\ \A queue : Framed(FlushSyncCallbackQueue(queue) \o frames)
         /\ \A event \in Events : Framed(<<EventFrame(event)>> \o frames)
         /\ Framed(<<Frame("flush")>> \o frames)
         /\ Framed(<<Frame("flushPassiveEffects")>> \o frames)
<1>1. \A at \in {"flush", "flushSyncCallbackQueue", "flushPassiveEffects"} :
        FrameTyped(Frame(at)) /\ Frame(at).at \notin RootPlaces
  BY DEF FrameTyped, Frame, RootPlaces
<1>2. \A event \in Events : FrameTyped(EventFrame(event)) /\ EventFrame(event).at \notin RootPlaces
  BY DEF FrameTyped, EventFrame, RootPlaces
<1>3. <<>> \o frames = frames
  <2>1. PICK S : frames \in Seq(S)
    BY DEF Framed, IsSeq
  <2> QED BY <2>1
<1>4. \A at \in {"flush", "flushSyncCallbackQueue", "flushPassiveEffects"} :
        Framed(<<Frame(at)>> \o frames)
  BY <1>1, FramedOnTop
<1>5. \A event \in Events : Framed(<<EventFrame(event)>> \o frames)
  BY <1>2, FramedOnTop
<1> QED BY <1>3, <1>4, <1>5 DEF FlushPassiveEffects, FlushSyncCallbackQueue

\* The frame on top.
LEMMA FrameOnTop ==
  ASSUME Framed(stack), NEW place, At(place)
  PROVE  /\ stack # <<>> /\ FrameTyped(Head(stack)) /\ Head(stack).at = place
         /\ Framed(Tail(stack))
         /\ place \in RootPlaces =>
              \A f : FrameTyped(f) => Framed(<<f>> \o Tail(stack))
         /\ \A f : FrameTyped(f) /\ f.at \notin RootPlaces => Framed(<<f>> \o Tail(stack))
<1>1. stack # <<>> /\ Head(stack).at = place
  BY DEF At
<1>2. Framed(Tail(stack)) /\ FrameTyped(Head(stack))
  BY <1>1, FramedTail
<1>3. place \in RootPlaces => Tail(stack) # <<>> /\ Head(Tail(stack)).at \in {"flush", "task"}
  BY <1>1, FramedTail
<1> QED BY <1>1, <1>2, <1>3, FramedOnTop

\* A call of the root that goes on elsewhere.
LEMMA FrameMoves ==
  ASSUME NEW f, FrameTyped(f), f.at \in RootPlaces, NEW place \in RootPlaces,
         NEW callbacks \in Seq(Update), NEW effects \in Seq(Node)
  PROVE  /\ FrameTyped([f EXCEPT !.at = place])
         /\ FrameTyped([f EXCEPT !.callbacks = callbacks])
         /\ FrameTyped([f EXCEPT !.at = place, !.effects = effects])
         /\ FrameTyped([f EXCEPT !.at = place, !.callbacks = callbacks, !.effects = effects])
<1>1. \A p \in RootPlaces : p # "event" /\ p # "passive" /\ p # "task"
  BY DEF RootPlaces
<1>2. /\ {"at", "todo", "callbacks", "effects"} \subseteq DOMAIN f
      /\ f.todo \in Levels /\ f.callbacks \in Seq(Update) /\ f.effects \in Seq(Node)
  BY DEF FrameTyped
<1>3. FrameTyped([f EXCEPT !.at = place])
  BY <1>1, <1>2 DEF FrameTyped
<1>4. FrameTyped([f EXCEPT !.callbacks = callbacks])
  BY <1>1, <1>2 DEF FrameTyped
<1>5. FrameTyped([f EXCEPT !.at = place, !.effects = effects])
  BY <1>1, <1>2 DEF FrameTyped
<1>6. FrameTyped([f EXCEPT !.at = place, !.callbacks = callbacks, !.effects = effects])
  BY <1>1, <1>2 DEF FrameTyped
<1> QED BY <1>3, <1>4, <1>5, <1>6

LEMMA RootCallTyped ==
  ASSUME NEW todo \in Levels, NEW isSync, NEW wrapped
  PROVE  FrameTyped(RootCall(todo, isSync, wrapped))
<1>1. <<>> \in Seq(Update) /\ <<>> \in Seq(Node)
  OBVIOUS
<1>2. RootCall(todo, isSync, wrapped).at \in {"commitRoot", "renderRoot"}
  BY DEF RootCall
<1> QED BY <1>1, <1>2 DEF FrameTyped, RootCall

LEMMA ContinuationTyped ==
  ASSUME Framed(stack), \A t \in tasks : TaskTyped(t), NEW place \in RootPlaces, At(place),
         NEW todo \in Levels, ReturnContinuation(todo)
  PROVE  Framed(stack') /\ \A t \in tasks' : TaskTyped(t)
<1>1. /\ stack # <<>> /\ Head(stack).at = place
      /\ stack[2].at \in {"flush", "task"} /\ FrameTyped(stack[2])
      /\ Framed(SubSeq(stack, 3, Len(stack)))
  BY FramedTail DEF At
<1>2. \A f : FrameTyped(f) => Framed(<<f>> \o Tail(stack))
  BY FrameOnTop
<1>3. CASE stack[2].at = "flush"
  <2>1. /\ stack' = <<RootCall(todo, TRUE, Head(stack).wrapped)>> \o Tail(stack)
        /\ tasks' = tasks
    BY <1>3 DEF ReturnContinuation, Goto
  <2> QED BY <1>2, <2>1, RootCallTyped
<1>4. CASE stack[2].at = "task"
  <2> DEFINE task == stack[2].task
             t == [task EXCEPT !.todo = todo]
  <2>1. stack' = SubSeq(stack, 3, Len(stack)) /\ tasks' = tasks \cup {t}
    BY <1>4 DEF ReturnContinuation
  <2>2. TaskTyped(task)
    BY <1>1, <1>4 DEF FrameTyped
  <2>3. TaskTyped(t)
    BY <2>2 DEF TaskTyped
  <2> HIDE DEF t
  <2> QED BY <1>1, <2>1, <2>3
<1> QED BY <1>1, <1>3, <1>4

LEMMA NullTyped ==
  ASSUME Framed(stack), NEW place \in RootPlaces, At(place),
         DOMAIN root = RootFields, RootTyped(root), ReturnNull(root)
  PROVE  Framed(stack') /\ RootTyped(root')
<1>1. Framed(stack')
  BY FramedTail DEF At, ReturnNull
<1>2. RootTyped(root')
  <2> DEFINE r == [root EXCEPT !.callbackNode = NoCallback, !.callbackExpirationTime = NoWork]
  <2>1. root' = root \/ root' = r
    BY DEF ReturnNull
  <2>2. RootTyped(r)
    BY LevelFacts DEF RootTyped, RootFields
  <2> HIDE DEF r
  <2> QED BY <2>1, <2>2
<1> QED BY <1>1, <1>2

LEMMA ScheduleTyped ==
  ASSUME NEW r, DOMAIN r = RootFields, RootTyped(r), NEW priority, NEW expiration \in Levels,
         \A t \in tasks : TaskTyped(t), syncQueue \in Seq(SyncEntries),
         ScheduleCallbackForRoot(r, priority, expiration)
  PROVE  /\ RootTyped(root') /\ (\A t \in tasks' : TaskTyped(t))
         /\ syncQueue' \in Seq(SyncEntries)
<1> DEFINE id == IF expiration = Sync THEN FakeCallbackNode ELSE UnusedId
           s  == [r EXCEPT !.callbackNode = id, !.callbackExpirationTime = expiration]
           others == tasks \ { t \in RootTasks : t.id = r.callbackNode }
           entry == [todo |-> Sync, wrapped |-> TRUE]
<1>1. RootTyped(s)
  <2> HIDE DEF id
  <2> QED BY DEF RootTyped, RootFields
<1>2. entry \in SyncEntries
  BY LevelFacts DEF SyncEntries
<1>3. TaskTyped(OtherTask("flush")) /\ TaskTyped(RootTask(id, priority, expiration))
  <2> HIDE DEF id
  <2> QED BY DEF TaskTyped, OtherTask, RootTask
<1>4. \/ root' = r /\ tasks' = tasks /\ syncQueue' = syncQueue
      \/ root' = s /\ ScheduleSync(entry, others)
      \/ root' = s /\ tasks' = others \cup {RootTask(id, priority, expiration)} /\ syncQueue' = syncQueue
  BY Zenon DEF ScheduleCallbackForRoot
<1> HIDE DEF id, s, entry
<1>5. CASE root' = s /\ ScheduleSync(entry, others)
  <2>1. /\ syncQueue' = Append(syncQueue, entry)
        /\ \A t \in tasks' : t \in others \/ t = OtherTask("flush")
    BY <1>5 DEF ScheduleSync
  <2> QED BY <1>1, <1>2, <1>3, <1>5, <2>1
<1>6. CASE root' = s /\ tasks' = others \cup {RootTask(id, priority, expiration)} /\ syncQueue' = syncQueue
  BY <1>1, <1>3, <1>6
<1> QED BY <1>4, <1>5, <1>6

\* An update is made at a level.
LEMMA UpdateTyped ==
  ASSUME LoopTyped, DOMAIN root = RootFields, NEW u \in Update, NEW priority \in Priorities,
         NEW isInsideReact, NEW isDiscrete, MakeUpdate(u, priority, isInsideReact, isDiscrete)
  PROVE  /\ RootTyped(root') /\ (\A t \in tasks' : TaskTyped(t))
         /\ syncQueue' \in Seq(SyncEntries) /\ discrete' \in Levels
         /\ currentEventTime' \in Times \cup {NoWork}
         /\ ComputedExpiration(RequestedTime(isInsideReact), priority) \in Levels
<1> DEFINE n          == Target[u]
           expiration == ComputedExpiration(RequestedTime(isInsideReact), priority)
           first      == Max({root.firstPendingTime, expiration})
           r          == [root EXCEPT !.firstPendingTime = first]
<1>1. /\ expiration \in Levels /\ RequestedTime(isInsideReact) \in Times
      /\ RequestedTime(FALSE) \in Times
  BY LevelIsComputed DEF LoopTyped
<1>2. currentEventTime' \in Times \cup {NoWork}
  BY <1>1 DEF MakeUpdate, TimeRequested, LoopTyped
<1> HIDE DEF expiration
<1>3. CASE EagerlySame(n, u)
  <2>1. UNCHANGED <<root, tasks, syncQueue, discrete>>
    BY <1>3 DEF MakeUpdate
  <2> QED BY <1>1, <1>2, <2>1 DEF LoopTyped, expiration
<1>4. CASE ~EagerlySame(n, u)
  <2>1. /\ ScheduleCallbackForRoot(r, priority, expiration)
        /\ discrete' = expiration \/ discrete' = discrete
    BY <1>4 DEF MakeUpdate, ScheduleUpdate, expiration
  <2>2. first \in Levels
    BY <1>1, HigherLevel DEF LoopTyped, RootTyped
  <2> HIDE DEF first
  <2>3. RootTyped(r) /\ DOMAIN r = RootFields
    BY <2>2 DEF LoopTyped, RootTyped, RootFields
  <2> HIDE DEF r
  <2>4. /\ RootTyped(root') /\ (\A t \in tasks' : TaskTyped(t))
        /\ syncQueue' \in Seq(SyncEntries)
    BY <1>1, <2>1, <2>3, ScheduleTyped DEF LoopTyped
  <2> QED BY <1>1, <1>2, <2>1, <2>4 DEF LoopTyped, expiration
<1> QED BY <1>3, <1>4

LEMMA CallsAreSeqs ==
  /\ IsSeq(FlushPassiveEffects) /\ \A queue : IsSeq(FlushSyncCallbackQueue(queue))
  /\ \A f : IsSeq(<<f>>)
  /\ \A f, g : <<f, g>> = <<f>> \o <<g>>
<1>1. \A f : IsSeq(<<f>>)
  <2> TAKE f
  <2>1. <<f>> \in Seq({f})
    OBVIOUS
  <2> QED BY <2>1 DEF IsSeq
<1>2. IsSeq(<<>>)
  BY FramedEmpty DEF Framed
<1>3. IsSeq(FlushPassiveEffects) /\ \A queue : IsSeq(FlushSyncCallbackQueue(queue))
  BY <1>1, <1>2 DEF FlushPassiveEffects, FlushSyncCallbackQueue
<1>4. \A f, g : <<f, g>> = <<f>> \o <<g>>
  <2> TAKE f, g
  <2> DEFINE S == {f, g}
             s == <<f>> \o <<g>>
             t == <<f, g>>
  <2>1. /\ <<f>> \in Seq(S) /\ <<g>> \in Seq(S) /\ t \in Seq(S)
        /\ Len(t) = 2 /\ t[1] = f /\ t[2] = g
    OBVIOUS
  <2>2. s \in Seq(S) /\ Len(s) = 2 /\ s[1] = f /\ s[2] = g
    <3> HIDE DEF S
    <3> QED BY <2>1
  <2> HIDE DEF S, s, t
  <2>3. s = t
    BY <2>1, <2>2
  <2> QED BY <2>3 DEF s, t
<1> QED BY <1>1, <1>3, <1>4

\* Some calls on top of one more.
LEMMA FramedOverCall ==
  ASSUME NEW frames, Framed(frames), NEW f, Framed(<<f>> \o frames), Framed(frames)
  PROVE  /\ Framed((FlushPassiveEffects \o <<f>>) \o frames)
         /\ \A queue : Framed((FlushSyncCallbackQueue(queue) \o <<f>>) \o frames)
         /\ \A queue : Framed((FlushSyncCallbackQueue(queue) \o <<Frame("flushPassiveEffects"), f>>) \o frames)
<1>1. IsSeq(frames) /\ IsSeq(<<f>>) /\ IsSeq(FlushPassiveEffects)
  BY CallsAreSeqs DEF Framed
<1>2. (FlushPassiveEffects \o <<f>>) \o frames = FlushPassiveEffects \o (<<f>> \o frames)
  BY <1>1, ConcatAgain
<1>3. ASSUME NEW queue
      PROVE  Framed((FlushSyncCallbackQueue(queue) \o <<f>>) \o frames)
  <2>1. IsSeq(FlushSyncCallbackQueue(queue))
    BY CallsAreSeqs
  <2>2. (FlushSyncCallbackQueue(queue) \o <<f>>) \o frames
          = FlushSyncCallbackQueue(queue) \o (<<f>> \o frames)
    BY <1>1, <2>1, ConcatAgain
  <2> QED BY <2>2, FramedCalls
<1>4. ASSUME NEW queue
      PROVE  Framed((FlushSyncCallbackQueue(queue) \o <<Frame("flushPassiveEffects"), f>>) \o frames)
  <2> DEFINE g == Frame("flushPassiveEffects")
             two == <<g>> \o <<f>>
  <2>1. /\ IsSeq(FlushSyncCallbackQueue(queue)) /\ IsSeq(<<g>>)
        /\ <<g, f>> = two
    BY CallsAreSeqs
  <2>2. two \o frames = <<g>> \o (<<f>> \o frames)
    BY <1>1, <2>1, ConcatAgain
  <2>3. Framed(two \o frames)
    BY <2>2, FramedCalls
  <2>4. IsSeq(two)
    <3>1. \A x, y : IsSeq(x) /\ IsSeq(y) => IsSeq(x \o y)
      <4> SUFFICES ASSUME NEW x, NEW y, IsSeq(x), IsSeq(y) PROVE IsSeq(x \o y)
        OBVIOUS
      <4>1. PICK X, Y : x \in Seq(X) /\ y \in Seq(Y)
        BY DEF IsSeq
      <4>2. x \in Seq(X \cup Y) /\ y \in Seq(X \cup Y)
        BY <4>1
      <4>3. x \o y \in Seq(X \cup Y)
        BY <4>2
      <4> QED BY <4>3 DEF IsSeq
    <3> QED BY <1>1, <2>1, <3>1
  <2> HIDE DEF two
  <2>6. IsSeq(FlushSyncCallbackQueue(queue)) /\ IsSeq(two) /\ IsSeq(frames)
    BY <1>1, <2>1, <2>4
  <2>5. (FlushSyncCallbackQueue(queue) \o two) \o frames = FlushSyncCallbackQueue(queue) \o (two \o frames)
    <3> DEFINE a == FlushSyncCallbackQueue(queue)
    <3>1. IsSeq(a)
      BY <2>6
    <3> HIDE DEF a
    <3>2. (a \o two) \o frames = a \o (two \o frames)
      BY <2>6, <3>1, ConcatAgain
    <3> QED BY <3>2 DEF a
  <2> QED BY <2>1, <2>3, <2>5, FramedCalls
<1> QED BY <1>2, <1>3, <1>4, FramedCalls

\* FlattenSeq, which is defined by recursion, puts one list behind the other.
LEMMA FlattenedInTurn ==
  ASSUME NEW U, NEW seqs \in Seq(Seq(U))
  PROVE  \E f : /\ InTurn(f, Len(seqs), <<>>, Seq(U)) /\ f[Len(seqs)] = FlattenSeq(seqs)
                /\ \A i \in 1 .. Len(seqs) : f[i] = f[i - 1] \o seqs[i]
<1> DEFINE n == Len(seqs)
           V == Seq(U)
           act == [i \in 1 .. n |-> [v \in V |-> v \o seqs[i]]]
           Eq(g) == g = [i \in 1 .. n |-> IF i = 1 THEN seqs[i] ELSE g[i - 1] \o seqs[i]]
           flatten == CHOOSE g : Eq(g)
<1>1. n \in Nat /\ \A i \in 1 .. n : seqs[i] \in V
  OBVIOUS
<1>2. CASE n = 0
  <2>1. seqs = <<>> /\ FlattenSeq(seqs) = seqs
    BY <1>2 DEF FlattenSeq
  <2>2. <<>> \in Seq(U)
    OBVIOUS
  <2> DEFINE f == [i \in 0 .. n |-> <<>>]
  <2>3. InTurn(f, n, <<>>, V) /\ f[n] = <<>> /\ \A i \in 1 .. n : FALSE
    BY <1>2, <2>2 DEF InTurn
  <2> HIDE DEF f
  <2> QED BY <2>1, <2>3
<1>3. CASE n # 0
  <2>1. FlattenSeq(seqs) = flatten[n]
    BY <1>3, Zenon DEF FlattenSeq
  <2>2. \A i \in 1 .. n : \A v \in V : act[i][v] = v \o seqs[i] /\ act[i][v] \in V
    BY <1>1
  <2>3. <<>> \in V
    OBVIOUS
  <2> HIDE DEF act, V, n
  <2>4. PICK f \in [0 .. n -> V] : Counts(f, n, <<>>, act)
    BY <1>1, <2>2, <2>3, CountingUp
  <2> DEFINE g == [i \in 1 .. n |-> f[i]]
  <2>5. \A i \in 1 .. n : i \in 0 .. n /\ i - 1 \in 0 .. n /\ (i # 1 => i - 1 \in 1 .. n) /\ i # 0
    BY <1>1
  <2>6. f[0] = <<>> /\ \A i \in 1 .. n : f[i] = f[i - 1] \o seqs[i] /\ f[i - 1] \in V
    <3>1. \A i \in 0 .. n : f[i] = IF i = 0 THEN <<>> ELSE act[i][f[i - 1]]
      BY <2>4, Zenon DEF Counts
    <3>2. 0 \in 0 .. n
      BY <1>1
    <3>3. f[0] = <<>>
      BY <3>1, <3>2
    <3>4. \A i \in 1 .. n : f[i] = act[i][f[i - 1]] /\ f[i - 1] \in V
      BY <2>4, <2>5, <3>1
    <3> QED BY <2>2, <3>3, <3>4
  <2>7. \A i \in 1 .. n : f[i] = IF i = 1 THEN seqs[i] ELSE g[i - 1] \o seqs[i]
    <3>1. \A i \in 1 .. n : i = 1 => f[i] = seqs[i]
      <4> SUFFICES ASSUME 1 \in 1 .. n PROVE f[1] = seqs[1]
        OBVIOUS
      <4>1. f[1] = f[1 - 1] \o seqs[1]
        BY <2>6, Zenon
      <4>4. 1 - 1 = 0 /\ f[0] = <<>>
        BY <2>6
      <4>3. f[1] = <<>> \o seqs[1]
        BY <4>1, <4>4, Zenon
      <4>2. seqs[1] \in Seq(U)
        BY <1>1 DEF V
      <4> QED BY <4>2, <4>3
    <3>2. \A i \in 1 .. n : i # 1 => f[i] = g[i - 1] \o seqs[i]
      BY <2>5, <2>6
    <3> HIDE DEF g
    <3> QED BY <3>1, <3>2
  <2>8. Eq(g)
    <3>1. [i \in 1 .. n |-> f[i]] = [i \in 1 .. n |-> IF i = 1 THEN seqs[i] ELSE g[i - 1] \o seqs[i]]
      <4> HIDE DEF g
      <4> QED BY <2>7
    <3> QED BY <3>1
  <2>9. Eq(flatten)
    <3> HIDE DEF g, Eq
    <3> QED BY <2>8
  <2> HIDE DEF flatten
  <2>10. \A i \in 1 .. n : flatten[i] = IF i = 1 THEN seqs[i] ELSE flatten[i - 1] \o seqs[i]
    BY <2>9, Zenon
  <2> DEFINE S == { i \in 0 .. n : i = 0 \/ flatten[i] = f[i] }
  <2>11. 0 \in S
    BY <1>1
  <2>12. ASSUME NEW i \in 1 .. n, i - 1 \in S PROVE i \in S
    <3>1. CASE i = 1
      BY <2>5, <2>7, <2>10, <3>1
    <3>2. CASE i # 1
      <4>1. i - 1 # 0 /\ flatten[i - 1] = f[i - 1]
        BY <1>1, <2>12, <3>2
      <4>2. flatten[i] = f[i - 1] \o seqs[i]
        BY <2>10, <3>2, <4>1
      <4>3. flatten[i] = f[i]
        BY <2>6, <4>2
      <4> QED BY <2>5, <4>3
    <3> QED BY <3>1, <3>2
  <2> HIDE DEF S, g
  <2>13. 0 .. n \subseteq S
    BY <1>1, <2>11, <2>12, UpTo
  <2>14. n \in 0 .. n
    BY <1>1
  <2>15. flatten[n] = f[n]
    BY <1>3, <2>13, <2>14 DEF S
  <2>16. InTurn(f, n, <<>>, V) /\ \A i \in 1 .. n : f[i] = f[i - 1] \o seqs[i]
    BY <2>4, <2>6 DEF InTurn
  <2> QED BY <2>1, <2>15, <2>16 DEF n, V
<1> QED BY <1>2, <1>3

\* Flattened lists have the elements of their lists.
LEMMA FlattenedList ==
  ASSUME NEW U, NEW seqs \in Seq(Seq(U))
  PROVE  FlattenSeq(seqs) \in Seq(U)
<1>1. PICK f : InTurn(f, Len(seqs), <<>>, Seq(U)) /\ f[Len(seqs)] = FlattenSeq(seqs)
  BY FlattenedInTurn
<1>2. Len(seqs) \in 0 .. Len(seqs)
  OBVIOUS
<1> QED BY <1>1, <1>2 DEF InTurn

-----------------------------------------------------------------------------
\* The actions that only call and return keep what is passed around typed.
LEMMA CallsTyped ==
  ASSUME LoopTyped, DOMAIN root = RootFields,
         \/ \E event \in Events : BeginEvent(event)
         \/ EndEvent \/ BeginFlush \/ FlushNext \/ BeginPassiveEffects
         \/ Yield \/ BeginCommit \/ CommitNothing \/ BeginRenderRoot \/ CommitReturns
         \/ \E task \in tasks : RunTask(task)
         \/ Tick
  PROVE  LoopTyped'
<1>1. /\ RootTyped(root) /\ work.time \in Levels /\ work.effects \in Seq(Node)
      /\ (\A t \in tasks : TaskTyped(t))
      /\ syncQueue \in Seq(SyncEntries) /\ passive \in PassiveSet /\ discrete \in Levels
      /\ now \in Times /\ currentEventTime \in Times \cup {NoWork}
      /\ Framed(stack)
  BY DEF LoopTyped
<1>2. ASSUME NEW event \in Events, BeginEvent(event) PROVE LoopTyped'
  <2>1. /\ UNCHANGED <<root, work, passive, now, currentEventTime>> /\ stack = <<>>
    BY <1>2 DEF BeginEvent
  <2>2. Framed(<<EventFrame(event)>> \o stack)
    BY <1>1, <2>1, FramedCalls
  <2>3. Framed(stack')
    BY <1>1, <1>2, <2>2, FramedOverCall, Zenon DEF BeginEvent, Call
  <2>4. \/ UNCHANGED <<syncQueue, tasks, discrete>>
        \/ /\ discrete' = NoWork
           /\ ScheduleSync([todo |-> discrete, wrapped |-> FALSE], tasks)
    BY <1>2 DEF BeginEvent
  <2>5. CASE UNCHANGED <<syncQueue, tasks, discrete>>
    BY <1>1, <2>1, <2>3, <2>5 DEF LoopTyped
  <2>6. CASE discrete' = NoWork /\ ScheduleSync([todo |-> discrete, wrapped |-> FALSE], tasks)
    <3> DEFINE entry == [todo |-> discrete, wrapped |-> FALSE]
    <3>1. entry \in SyncEntries
      BY <1>1 DEF SyncEntries
    <3>2. TaskTyped(OtherTask("flush"))
      BY DEF TaskTyped, OtherTask
    <3> HIDE DEF entry
    <3>3. /\ syncQueue' = Append(syncQueue, entry)
          /\ \A t \in tasks' : t \in tasks \/ t = OtherTask("flush")
      BY <2>6 DEF ScheduleSync, entry
    <3>4. syncQueue' \in Seq(SyncEntries)
      BY <1>1, <3>1, <3>3
    <3>5. \A t \in tasks' : TaskTyped(t)
      BY <1>1, <3>2, <3>3
    <3> QED BY <1>1, <2>1, <2>3, <2>6, <3>4, <3>5, LevelFacts DEF LoopTyped
  <2> QED BY <2>4, <2>5, <2>6
<1>3. CASE EndEvent
  <2>1. UNCHANGED <<root, work, tasks, syncQueue, passive, discrete, now, currentEventTime>>
    BY <1>3 DEF EndEvent
  <2>2. Framed(Tail(stack)) /\ IsSeq(Tail(stack))
    BY <1>1, <1>3, FrameOnTop DEF EndEvent, Framed
  <2>3. <<>> \o Tail(stack) = Tail(stack)
    <3>1. PICK S : Tail(stack) \in Seq(S)
      BY <2>2 DEF IsSeq
    <3> QED BY <3>1
  <2>4. Framed(stack')
    BY <1>3, <2>2, <2>3, FramedCalls DEF EndEvent
  <2> QED BY <1>1, <2>1, <2>4 DEF LoopTyped
<1>4. CASE BeginFlush
  <2>1. UNCHANGED <<root, work, syncQueue, passive, discrete, now, currentEventTime>>
    BY <1>4 DEF BeginFlush
  <2>2. Framed(Tail(stack))
    BY <1>1, <1>4, FrameOnTop DEF BeginFlush
  <2>3. stack' = <<Frame("flush")>> \o Tail(stack) /\ tasks' \subseteq tasks
    BY <1>4 DEF BeginFlush, Goto
  <2>4. Framed(stack')
    BY <2>2, <2>3, FramedCalls
  <2> QED BY <1>1, <2>1, <2>3, <2>4 DEF LoopTyped
<1>5. CASE FlushNext
  <2>1. UNCHANGED <<root, work, tasks, passive, discrete, now, currentEventTime>>
    BY <1>5 DEF FlushNext
  <2>2. Framed(Tail(stack)) /\ stack # <<>> /\ Head(stack).at = "flush"
    BY <1>1, <1>5, FrameOnTop DEF FlushNext
  <2>3. CASE syncQueue = <<>>
    <3>1. stack' = Tail(stack) /\ syncQueue' = syncQueue
      BY <1>5, <2>3 DEF FlushNext, Return
    <3> QED BY <1>1, <2>1, <2>2, <3>1 DEF LoopTyped
  <2>4. CASE syncQueue # <<>>
    <3> DEFINE entry == Head(syncQueue)
               frame == RootCall(entry.todo, TRUE, entry.wrapped)
    <3>1. stack' = <<frame>> \o stack /\ syncQueue' = Tail(syncQueue)
      BY <1>5, <2>4 DEF FlushNext, Call
    <3>2. entry \in SyncEntries /\ syncQueue' \in Seq(SyncEntries)
      BY <1>1, <2>4, <3>1
    <3>3. FrameTyped(frame)
      BY <3>2, RootCallTyped DEF SyncEntries
    <3> HIDE DEF frame
    <3>4. Framed(stack')
      BY <1>1, <2>2, <3>1, <3>3, FramedOnTop
    <3> QED BY <1>1, <2>1, <3>2, <3>4 DEF LoopTyped
  <2> QED BY <2>3, <2>4
<1>6. CASE BeginPassiveEffects
  <2>1. /\ UNCHANGED <<root, work, tasks, syncQueue, discrete, now, currentEventTime>>
        /\ passive' = NoPassive
    BY <1>6 DEF BeginPassiveEffects
  <2>2. /\ Framed(Tail(stack))
        /\ \A f : FrameTyped(f) /\ f.at \notin RootPlaces => Framed(<<f>> \o Tail(stack))
    BY <1>1, <1>6, FrameOnTop DEF BeginPassiveEffects
  <2> DEFINE frame == [at |-> "passive", passive |-> passive]
  <2>3. FrameTyped(frame) /\ frame.at \notin RootPlaces
    BY <1>1 DEF FrameTyped, RootPlaces
  <2> HIDE DEF frame
  <2>4. stack' = Tail(stack) \/ stack' = <<frame>> \o Tail(stack)
    BY <1>6 DEF BeginPassiveEffects, Return, Goto, frame
  <2>5. Framed(stack')
    BY <2>2, <2>3, <2>4
  <2>6. NoPassive \in PassiveSet
    <3>1. <<>> \in Seq(Node)
      OBVIOUS
    <3> QED BY <3>1 DEF NoPassive, PassiveSet
  <2> QED BY <1>1, <2>1, <2>5, <2>6 DEF LoopTyped
<1>7. CASE Yield
  <2>1. UNCHANGED <<root, work, syncQueue, passive, discrete, now, currentEventTime>>
    BY <1>7 DEF Yield
  <2>2. At("workLoop") /\ ReturnContinuation(Head(stack).todo) /\ "workLoop" \in RootPlaces
    BY <1>7 DEF Yield, RootPlaces
  <2>3. FrameTyped(Head(stack)) /\ Head(stack).at = "workLoop"
    BY <1>1, <2>2, FrameOnTop
  <2>4. Head(stack).todo \in Levels
    BY <2>2, <2>3 DEF FrameTyped
  <2>5. Framed(stack') /\ \A t \in tasks' : TaskTyped(t)
    BY <1>1, <2>2, <2>4, ContinuationTyped
  <2> QED BY <1>1, <2>1, <2>5 DEF LoopTyped
<1>8. CASE BeginCommit
  <2>1. UNCHANGED <<root, work, tasks, syncQueue, passive, discrete, now, currentEventTime>>
    BY <1>8 DEF BeginCommit
  <2> DEFINE frame == [Head(stack) EXCEPT !.at = "commit"]
  <2>2. "commitRoot" \in RootPlaces /\ "commit" \in RootPlaces /\ At("commitRoot")
        /\ <<>> \in Seq(Update) /\ <<>> \in Seq(Node)
    BY <1>8 DEF BeginCommit, RootPlaces
  <2>3. /\ Framed(Tail(stack)) /\ FrameTyped(Head(stack)) /\ Head(stack).at = "commitRoot"
        /\ \A f : FrameTyped(f) => Framed(<<f>> \o Tail(stack))
    BY <1>1, <2>2, FrameOnTop
  <2>4. FrameTyped(frame)
    BY <2>2, <2>3, FrameMoves
  <2> HIDE DEF frame
  <2>5. stack' = (FlushPassiveEffects \o <<frame>>) \o Tail(stack)
    BY <1>8 DEF BeginCommit, frame
  <2>6. Framed(stack')
    BY <2>3, <2>4, <2>5, FramedOverCall
  <2> QED BY <1>1, <2>1, <2>6 DEF LoopTyped
<1>9. CASE CommitNothing
  <2>1. UNCHANGED <<root, work, tasks, syncQueue, passive, discrete, now, currentEventTime>>
    BY <1>9 DEF CommitNothing
  <2> DEFINE frame == [Head(stack) EXCEPT !.at = "committed"]
  <2>2. "committed" \in RootPlaces /\ "commit" \in RootPlaces /\ At("commit")
        /\ <<>> \in Seq(Update) /\ <<>> \in Seq(Node)
    BY <1>9 DEF CommitNothing, RootPlaces
  <2>3. /\ FrameTyped(Head(stack)) /\ Head(stack).at = "commit"
        /\ \A f : FrameTyped(f) => Framed(<<f>> \o Tail(stack))
    BY <1>1, <2>2, FrameOnTop
  <2>4. FrameTyped(frame)
    BY <2>2, <2>3, FrameMoves
  <2> HIDE DEF frame
  <2>5. stack' = <<frame>> \o Tail(stack)
    BY <1>9 DEF CommitNothing, Goto, frame
  <2> QED BY <1>1, <2>1, <2>3, <2>4, <2>5 DEF LoopTyped
<1>10. CASE BeginRenderRoot
  <2>1. UNCHANGED <<work, syncQueue, passive, discrete, now, currentEventTime>>
    BY <1>10 DEF BeginRenderRoot
  <2> DEFINE frame == [Head(stack) EXCEPT !.at = "prepare"]
  <2>2. "renderRoot" \in RootPlaces /\ "prepare" \in RootPlaces /\ At("renderRoot")
        /\ <<>> \in Seq(Update) /\ <<>> \in Seq(Node)
    BY <1>10 DEF BeginRenderRoot, RootPlaces
  <2>3. /\ Framed(Tail(stack)) /\ FrameTyped(Head(stack)) /\ Head(stack).at = "renderRoot"
        /\ \A f : FrameTyped(f) => Framed(<<f>> \o Tail(stack))
    BY <1>1, <2>2, FrameOnTop
  <2>4. FrameTyped(frame)
    BY <2>2, <2>3, FrameMoves
  <2> HIDE DEF frame
  <2>5. \/ ReturnNull(root) /\ tasks' = tasks
        \/ ReturnContinuation(Commit) /\ root' = root
        \/ stack' = (FlushPassiveEffects \o <<frame>>) \o Tail(stack) /\ root' = root /\ tasks' = tasks
    BY <1>10 DEF BeginRenderRoot, frame
  <2>6. CASE ReturnNull(root) /\ tasks' = tasks
    <3>1. Framed(stack') /\ RootTyped(root')
      BY <1>1, <2>2, <2>6, NullTyped
    <3> QED BY <1>1, <2>1, <2>6, <3>1 DEF LoopTyped
  <2>7. CASE ReturnContinuation(Commit) /\ root' = root
    <3>1. Framed(stack') /\ \A t \in tasks' : TaskTyped(t)
      BY <1>1, <2>2, <2>7, LevelFacts, ContinuationTyped
    <3> QED BY <1>1, <2>1, <2>7, <3>1 DEF LoopTyped
  <2>8. CASE stack' = (FlushPassiveEffects \o <<frame>>) \o Tail(stack) /\ root' = root /\ tasks' = tasks
    <3>1. Framed(stack')
      BY <2>3, <2>4, <2>8, FramedOverCall
    <3> QED BY <1>1, <2>1, <2>8, <3>1 DEF LoopTyped
  <2> QED BY <2>5, <2>6, <2>7, <2>8
<1>11. CASE CommitReturns
  <2>1. /\ UNCHANGED <<work, syncQueue, passive, discrete, now, currentEventTime>>
        /\ \A t \in tasks' : t \in tasks \/ t = OtherTask("passive")
    BY <1>11 DEF CommitReturns
  <2>2. "committed" \in RootPlaces /\ At("committed") /\ ReturnNull(root)
    BY <1>11 DEF CommitReturns, RootPlaces
  <2>3. Framed(stack') /\ RootTyped(root')
    BY <1>1, <2>2, NullTyped
  <2>4. TaskTyped(OtherTask("passive"))
    BY DEF TaskTyped, OtherTask
  <2>5. \A t \in tasks' : TaskTyped(t)
    BY <1>1, <2>1, <2>4
  <2> QED BY <1>1, <2>1, <2>3, <2>5 DEF LoopTyped
<1>12. ASSUME NEW task \in tasks, RunTask(task) PROVE LoopTyped'
  <2>1. /\ UNCHANGED <<root, work, syncQueue, passive, discrete, now, currentEventTime>>
        /\ tasks' \subseteq tasks
    BY <1>12 DEF RunTask
  <2>2. \/ stack' = FlushPassiveEffects \o stack
        \/ stack' = stack \/ stack' = <<Frame("flush")>> \o stack
        \/ /\ task.kind = "root"
           /\ \E didTimeout : stack' = <<RootCall(task.todo, didTimeout, TRUE),
                                         [at |-> "task", task |-> task]>> \o stack
    BY <1>12 DEF RunTask, Call
  <2>3. ASSUME task.kind = "root", NEW didTimeout
        PROVE  Framed(<<RootCall(task.todo, didTimeout, TRUE), [at |-> "task", task |-> task]>> \o stack)
    <3> DEFINE f == RootCall(task.todo, didTimeout, TRUE)
               g == [at |-> "task", task |-> task]
    <3>1. FrameTyped(g) /\ g.at = "task" /\ "task" \notin RootPlaces
      BY <1>1 DEF FrameTyped, RootPlaces
    <3>2. FrameTyped(f)
      BY <1>1, <2>3, RootCallTyped DEF TaskTyped
    <3> HIDE DEF f, g
    <3>3. LET s == <<g>> \o stack IN Framed(s) /\ s # <<>> /\ Head(s) = g
      BY <1>1, <3>1, FramedOnTop
    <3>4. Framed(<<f>> \o (<<g>> \o stack))
      BY <3>1, <3>2, <3>3, FramedOnTop
    <3>5. <<f, g>> \o stack = <<f>> \o (<<g>> \o stack)
      <4>1. <<f, g>> = <<f>> \o <<g>> /\ IsSeq(<<f>>) /\ IsSeq(<<g>>) /\ IsSeq(stack)
        BY <1>1, CallsAreSeqs DEF Framed
      <4>2. (<<f>> \o <<g>>) \o stack = <<f>> \o (<<g>> \o stack)
        BY <4>1, ConcatAgain
      <4> QED BY <4>1, <4>2
    <3>6. Framed(<<f, g>> \o stack)
      BY <3>4, <3>5
    <3> QED BY <3>6 DEF f, g
  <2>4. Framed(stack')
    BY <1>1, <2>2, <2>3, FramedCalls
  <2> QED BY <1>1, <2>1, <2>4 DEF LoopTyped
<1>13. CASE Tick
  BY <1>1, <1>13 DEF Tick, LoopTyped
<1> QED BY <1>2, <1>3, <1>4, <1>5, <1>6, <1>7, <1>8, <1>9, <1>10, <1>11, <1>12, <1>13

\* The reactions of a component are updates.
LEMMA ReactionsAreUpdates ==
  ASSUME fiber \in FiberTrees, current \in Sides, NEW n \in Node
  PROVE  Reactions(n) \subseteq Update
<1> DEFINE x == fiber[n][SideIn(fiber, current)[n]]
<1>1. SideIn(fiber, current) \in [Node -> Sides]
  BY TreesAreFibers, SidesAreWired DEF Wired
<1>2. x.state \in Seq(Update)
  <2>1. SideIn(fiber, current)[n] \in Sides
    BY <1>1
  <2>2. x \in FiberSet
    BY <2>1 DEF FiberTrees
  <2> HIDE DEF x
  <2> QED BY <2>2 DEF FiberSet
<1>3. Reactions(n) = { Reaction[u] : u \in Range(x.state) } \ {None}
  BY Zenon DEF Reactions
<1> HIDE DEF x
<1>4. Range(x.state) \subseteq Update
  BY <1>2 DEF Range
<1> QED BY <1>3, <1>4, WorkLoopAssumption

\* A step that makes an update, in the place it is made in.
MakesUpdate(u, priority, isInsideReact, isDiscrete) ==
  u \in Update /\ priority \in Priorities /\ MakeUpdate(u, priority, isInsideReact, isDiscrete)

\* An event makes an update of its kind.
LEMMA EventUpdateMakes ==
  ASSUME LoopTyped, NEW u \in Update, EventUpdate(u)
  PROVE  /\ MakesUpdate(u, PriorityIn(Event[u]), FALSE, Event[u] = "discrete")
         /\ Framed(stack')
<1>1. At("event") /\ Event[u] = Head(stack).event /\ Framed(stack)
  BY DEF EventUpdate, LoopTyped
<1>2. /\ FrameTyped(Head(stack)) /\ Head(stack).at = "event"
      /\ \A f : FrameTyped(f) /\ f.at \notin RootPlaces => Framed(<<f>> \o Tail(stack))
  BY <1>1, FrameOnTop
<1>3. "event" \in DOMAIN Head(stack) /\ Event[u] \in Events /\ "at" \in DOMAIN Head(stack)
  BY <1>1, <1>2 DEF FrameTyped
<1>4. PriorityIn(Event[u]) \in Priorities
  BY <1>3 DEF PriorityIn, Events, Priorities
<1> DEFINE frame == [Head(stack) EXCEPT !.updates = @ + 1]
<1>5. frame.at = "event" /\ frame.event \in Events /\ {"at", "event"} \subseteq DOMAIN frame
  BY <1>1, <1>2, <1>3
<1> HIDE DEF frame
<1>6. FrameTyped(frame) /\ frame.at \notin RootPlaces
  BY <1>5 DEF FrameTyped, RootPlaces
<1>7. stack' = <<frame>> \o Tail(stack)
  BY DEF EventUpdate, Goto, frame
<1> QED BY <1>2, <1>4, <1>6, <1>7 DEF EventUpdate, MakesUpdate

\* An effect makes an update of the priority it has, or is done.
LEMMA PassiveEffectMakes ==
  ASSUME LoopTyped, fiber \in FiberTrees, current \in Sides, RunPassiveEffect
  PROVE  /\ Framed(stack')
         /\ \/ \E u \in Update, priority \in Priorities : MakesUpdate(u, priority, TRUE, FALSE)
            \/ UNCHANGED <<treeVars, root, tasks, syncQueue, discrete, currentEventTime, made>>
<1> DEFINE mine == Head(stack).passive
           left == UNION { Reactions(n) : n \in Range(mine.nodes) } \ MadeUpdates
<1>1. At("passive") /\ Framed(stack)
  BY DEF RunPassiveEffect, LoopTyped
<1>2. FrameTyped(Head(stack)) /\ Head(stack).at = "passive" /\ Framed(Tail(stack))
  BY <1>1, FrameOnTop
<1>3. mine \in PassiveSet
  BY <1>2 DEF FrameTyped
<1>4. CASE left = {}
  <2>1. /\ stack' = FlushSyncCallbackQueue(syncQueue) \o Tail(stack)
        /\ UNCHANGED <<treeVars, root, tasks, syncQueue, discrete, currentEventTime, made>>
    BY <1>4 DEF RunPassiveEffect
  <2> QED BY <1>2, <2>1, FramedCalls
<1>5. CASE left # {}
  <2>1. stack' = stack /\ \E u \in left : MakeUpdate(u, mine.priority, TRUE, FALSE)
    BY <1>5 DEF RunPassiveEffect
  <2>2. mine.priority \in Priorities
    BY <1>3 DEF PassiveSet, Priorities
  <2>3. left \subseteq Update
    <3>1. Range(mine.nodes) \subseteq Node
      <4>1. mine.nodes \in Seq(Node)
        BY <1>3 DEF PassiveSet
      <4> QED BY <4>1 DEF Range
    <3> HIDE DEF mine
    <3> QED BY <3>1, ReactionsAreUpdates
  <2> HIDE DEF left, mine
  <2> QED BY <1>1, <2>1, <2>2, <2>3 DEF MakesUpdate
<1> QED BY <1>4, <1>5

\* A callback makes an update, or it does not.
LEMMA CallbackMakes ==
  ASSUME LoopTyped, CallCallback
  PROVE  /\ Framed(stack')
         /\ \/ \E u \in Update : MakesUpdate(u, "immediate", TRUE, FALSE)
            \/ UNCHANGED <<level, next, eager, fiber, queues, hooks, root, tasks,
                           syncQueue, discrete, currentEventTime, made>>
<1> DEFINE u == Head(Head(stack).callbacks)
           v == Reaction[u]
           frame == [Head(stack) EXCEPT !.callbacks = Tail(Head(stack).callbacks)]
<1>1. At("layout") /\ Framed(stack) /\ Head(stack).callbacks # <<>> /\ "layout" \in RootPlaces
  BY DEF CallCallback, LoopTyped, RootPlaces
<1>2. /\ FrameTyped(Head(stack)) /\ Head(stack).at = "layout"
      /\ \A f : FrameTyped(f) => Framed(<<f>> \o Tail(stack))
  BY <1>1, FrameOnTop
<1>3. Head(stack).callbacks \in Seq(Update)
  BY <1>1, <1>2 DEF FrameTyped
<1>4. u \in Update /\ Tail(Head(stack).callbacks) \in Seq(Update)
  BY <1>1, <1>3
<1>5. <<>> \in Seq(Node)
  OBVIOUS
<1>6. FrameTyped(frame)
  BY <1>1, <1>2, <1>4, <1>5, FrameMoves
<1>7. stack' = <<frame>> \o Tail(stack)
  BY DEF CallCallback, Goto
<1> HIDE DEF frame
<1>8. Framed(stack')
  BY <1>2, <1>6, <1>7
<1>9. v \in Update \cup {None}
  BY <1>4, WorkLoopAssumption
<1>10. "immediate" \in Priorities
  BY DEF Priorities
<1>11. CASE v # None /\ v \notin MadeUpdates
  <2>1. MakeUpdate(v, "immediate", TRUE, FALSE)
    BY <1>11 DEF CallCallback
  <2> HIDE DEF v
  <2> QED BY <1>8, <1>9, <1>10, <1>11, <2>1 DEF MakesUpdate
<1>12. CASE ~(v # None /\ v \notin MadeUpdates)
  <2>1. UNCHANGED <<level, next, eager, fiber, queues, hooks, root, tasks,
                    syncQueue, discrete, currentEventTime, made>>
    BY <1>12 DEF CallCallback
  <2> QED BY <1>8, <2>1
<1> QED BY <1>11, <1>12

\* Such steps keep what is passed around typed.
LEMMA UpdatesTypedLoop ==
  ASSUME LoopTyped, fiber \in FiberTrees, FinishedInv,
         \/ \E u \in Update : EventUpdate(u)
         \/ RunPassiveEffect \/ CallCallback \/ EndCommit
  PROVE  LoopTyped'
<1>1. /\ RootTyped(root) /\ work.time \in Levels /\ work.effects \in Seq(Node)
      /\ (\A t \in tasks : TaskTyped(t))
      /\ syncQueue \in Seq(SyncEntries) /\ passive \in PassiveSet /\ discrete \in Levels
      /\ now \in Times /\ currentEventTime \in Times \cup {NoWork}
      /\ Framed(stack)
  BY DEF LoopTyped
<1>2. DOMAIN root = RootFields /\ current \in Sides
  BY DEF FinishedInv
<1>3. ASSUME NEW u, NEW priority, NEW isInsideReact, NEW isDiscrete,
             MakesUpdate(u, priority, isInsideReact, isDiscrete),
             UNCHANGED <<work, passive, now>>, Framed(stack')
      PROVE  LoopTyped'
  <2>1. /\ RootTyped(root') /\ (\A t \in tasks' : TaskTyped(t))
        /\ syncQueue' \in Seq(SyncEntries) /\ discrete' \in Levels
        /\ currentEventTime' \in Times \cup {NoWork}
    BY <1>2, <1>3, UpdateTyped DEF MakesUpdate
  <2> QED BY <1>1, <1>3, <2>1 DEF LoopTyped
<1>4. ASSUME NEW u \in Update, EventUpdate(u) PROVE LoopTyped'
  <2>1. UNCHANGED <<work, passive, now>>
    BY <1>4 DEF EventUpdate
  <2> QED BY <1>3, <1>4, <2>1, EventUpdateMakes
<1>5. CASE RunPassiveEffect
  <2>1. UNCHANGED <<work, passive, now>>
    BY <1>5 DEF RunPassiveEffect
  <2>2. Framed(stack')
    BY <1>2, <1>5, PassiveEffectMakes
  <2>3. CASE \E u \in Update, priority \in Priorities : MakesUpdate(u, priority, TRUE, FALSE)
    BY <1>3, <2>1, <2>2, <2>3
  <2>4. CASE UNCHANGED <<treeVars, root, tasks, syncQueue, discrete, currentEventTime, made>>
    BY <1>1, <2>1, <2>2, <2>4 DEF LoopTyped
  <2> QED BY <1>2, <1>5, <2>3, <2>4, PassiveEffectMakes
<1>6. CASE CallCallback
  <2>1. UNCHANGED <<work, passive, now>>
    BY <1>6 DEF CallCallback
  <2>2. Framed(stack')
    BY <1>6, CallbackMakes
  <2>3. CASE \E u \in Update : MakesUpdate(u, "immediate", TRUE, FALSE)
    BY <1>3, <2>1, <2>2, <2>3
  <2>4. CASE UNCHANGED <<level, next, eager, fiber, queues, hooks, root, tasks,
                         syncQueue, discrete, currentEventTime, made>>
    BY <1>1, <2>1, <2>2, <2>4 DEF LoopTyped
  <2> QED BY <1>6, <2>3, <2>4, CallbackMakes
<1>7. CASE EndCommit
  <2> DEFINE frame == [Head(stack) EXCEPT !.at = "committed", !.effects = <<>>]
  <2>1. /\ UNCHANGED <<work, discrete, now>>
        /\ \/ UNCHANGED <<root, tasks, syncQueue, currentEventTime>>
           \/ /\ TimeRequested(FALSE)
              /\ \E priority : ScheduleCallbackForRoot(root, priority, root.firstPendingTime)
    BY <1>7 DEF EndCommit
  <2>2. "layout" \in RootPlaces /\ "committed" \in RootPlaces /\ At("layout")
        /\ <<>> \in Seq(Update) /\ <<>> \in Seq(Node)
    BY <1>7 DEF EndCommit, RootPlaces
  <2>3. /\ Framed(Tail(stack)) /\ FrameTyped(Head(stack)) /\ Head(stack).at = "layout"
        /\ \A f : FrameTyped(f) => Framed(<<f>> \o Tail(stack))
    BY <1>1, <2>2, FrameOnTop
  <2>4. FrameTyped(frame)
    BY <2>2, <2>3, FrameMoves
  <2> HIDE DEF frame
  <2>5. stack' = (FlushSyncCallbackQueue(syncQueue') \o <<frame>>) \o Tail(stack)
    BY <1>7 DEF EndCommit, frame
  <2>6. Framed(stack')
    BY <2>3, <2>4, <2>5, FramedOverCall
  <2>7. /\ RootTyped(root') /\ (\A t \in tasks' : TaskTyped(t))
        /\ syncQueue' \in Seq(SyncEntries) /\ currentEventTime' \in Times \cup {NoWork}
    <3>1. RequestedTime(FALSE) \in Times
      BY <1>1 DEF RequestedTime
    <3>2. CASE UNCHANGED <<root, tasks, syncQueue, currentEventTime>>
      BY <1>1, <3>2
    <3>3. CASE /\ TimeRequested(FALSE)
               /\ \E priority : ScheduleCallbackForRoot(root, priority, root.firstPendingTime)
      <4>1. currentEventTime' \in Times
        BY <3>1, <3>3 DEF TimeRequested
      <4>2. root.firstPendingTime \in Levels
        BY <1>1 DEF RootTyped
      <4> QED BY <1>1, <1>2, <3>3, <4>1, <4>2, ScheduleTyped
    <3> QED BY <2>1, <3>2, <3>3
  <2>8. passive' \in PassiveSet
    <3>1. Head(stack).effects \in Seq(Node)
      BY <2>2, <2>3 DEF FrameTyped
    <3>2. \/ passive' = passive
          \/ \E p \in {"idle", "normal"} : passive' = [nodes |-> Head(stack).effects, priority |-> p]
      BY <1>7 DEF EndCommit
    <3> QED BY <1>1, <3>1, <3>2 DEF PassiveSet
  <2> QED BY <1>1, <2>1, <2>6, <2>7, <2>8 DEF LoopTyped
<1> QED BY <1>4, <1>5, <1>6, <1>7

\* The callbacks of a fiber that is committed.
LEMMA CallbacksAreUpdates ==
  ASSUME UpdatesTyped, NEW n \in Node, NEW side \in Sides
  PROVE  CallbacksOf(n, side) \in Seq(Update)
<1>1. fiber[n][side] \in FiberSet
  BY DEF UpdatesTyped, FiberTrees
<1>2. fiber[n][side].queue # 0 => queues[n][fiber[n][side].queue] \in QueueSet
  BY <1>1 DEF UpdatesTyped, FiberSet
<1>3. <<>> \in Seq(Update)
  OBVIOUS
<1> QED BY <1>2, <1>3 DEF CallbacksOf, QueueSet

\* What is put on a list is of the list's kind.
LEMMA ThoseAreListed ==
  ASSUME NEW U, NEW list \in Seq(U), NEW some
  PROVE  Those(list, some) \in Seq(U)
<1>1. PICK f : InTurn(f, Len(list), <<>>, Seq(U)) /\ f[Len(list)] = Those(list, some)
  BY ThoseInTurn
<1>2. Len(list) \in 0 .. Len(list)
  OBVIOUS
<1> QED BY <1>1, <1>2 DEF InTurn

\* The steps of a render leave what the loop passes around typed.
LEMMA PrepareTyped ==
  ASSUME LoopTyped, DOMAIN root = RootFields, Prepare
  PROVE  LoopTyped'
<1> DEFINE frame == Head(stack)
           loop  == [frame EXCEPT !.at = "workLoop"]
<1>1. /\ RootTyped(root) /\ work.time \in Levels /\ work.effects \in Seq(Node)
      /\ (\A t \in tasks : TaskTyped(t))
      /\ syncQueue \in Seq(SyncEntries) /\ passive \in PassiveSet /\ discrete \in Levels
      /\ now \in Times /\ currentEventTime \in Times \cup {NoWork}
      /\ Framed(stack)
  BY DEF LoopTyped
<1>2. "prepare" \in RootPlaces /\ "workLoop" \in RootPlaces /\ At("prepare")
      /\ <<>> \in Seq(Update) /\ <<>> \in Seq(Node)
  BY DEF Prepare, RootPlaces
<1>3. /\ FrameTyped(frame) /\ frame.at = "prepare"
      /\ \A f : FrameTyped(f) => Framed(<<f>> \o Tail(stack))
  BY <1>1, <1>2, FrameOnTop
<1>4. FrameTyped(loop)
  BY <1>2, <1>3, FrameMoves
<1>5. frame.todo \in Levels
  BY <1>2, <1>3 DEF FrameTyped
<1> HIDE DEF loop
<1>6. PrepareStack(frame.todo) /\ UNCHANGED <<syncQueue, passive, discrete, now>>
      /\ (ReturnContinuation(now) \/ (stack' = <<loop>> \o Tail(stack) /\ tasks' = tasks))
      /\ (currentEventTime' = currentEventTime \/ currentEventTime' = NoWork)
  <2>1. PrepareStack(frame.todo) /\ UNCHANGED <<syncQueue, passive, discrete, now>>
    BY DEF Prepare
  <2>2. ReturnContinuation(now) \/ (stack' = <<loop>> \o Tail(stack) /\ tasks' = tasks)
    BY DEF Prepare, Goto, loop
  <2>3. currentEventTime' = currentEventTime \/ currentEventTime' = NoWork
    BY DEF Prepare
  <2> QED BY <2>1, <2>2, <2>3
<1>7. Framed(stack') /\ \A t \in tasks' : TaskTyped(t)
  <2>1. CASE ReturnContinuation(now)
    <3>1. now \in Levels
      BY <1>1, LevelFacts
    <3> QED BY <1>1, <1>2, <2>1, <3>1, ContinuationTyped
  <2>2. CASE stack' = <<loop>> \o Tail(stack) /\ tasks' = tasks
    BY <1>1, <1>3, <1>4, <2>2
  <2> QED BY <1>6, <2>1, <2>2
<1> HIDE DEF frame
<1>8. RootTyped(root') /\ work'.time \in Levels /\ work'.effects \in Seq(Node)
  <2>1. CASE UNCHANGED <<fiber, work, root>>
    BY <1>1, <2>1
  <2>2. CASE /\ work' = [busy |-> TRUE, unit |-> Root, time |-> frame.todo, effects |-> <<>>]
             /\ root' = [root EXCEPT !.finishedWork = 0, !.finishedExpirationTime = NoWork]
    <3>1. RootTyped(root')
      BY <1>1, <2>2, LevelFacts DEF RootTyped, RootFields
    <3> QED BY <1>2, <1>5, <2>2, <3>1
  <2> QED BY <1>6, <2>1, <2>2 DEF PrepareStack
<1> QED BY <1>1, <1>6, <1>7, <1>8 DEF LoopTyped

LEMMA RenderTyped ==
  ASSUME LoopTyped, ScreenInv, PerformUnitOfWork \/ CompleteUnitOfWork \/ FinishRender
  PROVE  LoopTyped'
<1>1. /\ RootTyped(root) /\ work.time \in Levels /\ work.effects \in Seq(Node)
      /\ (\A t \in tasks : TaskTyped(t))
      /\ syncQueue \in Seq(SyncEntries) /\ passive \in PassiveSet /\ discrete \in Levels
      /\ now \in Times /\ currentEventTime \in Times \cup {NoWork}
      /\ Framed(stack)
  BY DEF LoopTyped
<1>2. /\ {"busy", "unit", "time", "effects"} \subseteq DOMAIN work
      /\ DOMAIN root = RootFields /\ CallStack
      /\ {"workLoop", "completeUnitOfWork"} \subseteq RootPlaces
      /\ <<>> \in Seq(Update) /\ <<>> \in Seq(Node)
  BY DEF ScreenInv, FinishedInv, RootPlaces
<1>3. ASSUME NEW place \in RootPlaces, NEW other \in RootPlaces, At(place)
      PROVE  Framed(<<[Head(stack) EXCEPT !.at = other]>> \o Tail(stack))
  <2>1. /\ FrameTyped(Head(stack)) /\ Head(stack).at = place
        /\ \A f : FrameTyped(f) => Framed(<<f>> \o Tail(stack))
    BY <1>1, <1>3, FrameOnTop
  <2>2. FrameTyped([Head(stack) EXCEPT !.at = other])
    BY <1>2, <1>3, <2>1, FrameMoves
  <2> QED BY <2>1, <2>2
<1>4. CASE PerformUnitOfWork
  <2>1. /\ UNCHANGED <<root, tasks, syncQueue, passive, discrete, now, currentEventTime>>
        /\ At("workLoop")
        /\ stack' = stack \/ stack' = <<[Head(stack) EXCEPT !.at = "completeUnitOfWork"]>> \o Tail(stack)
        /\ work' = work \/ \E unit : work' = [work EXCEPT !.unit = unit]
    BY <1>4 DEF PerformUnitOfWork, Goto
  <2>2. Framed(stack')
    BY <1>1, <1>2, <1>3, <2>1
  <2>3. work'.time = work.time /\ work'.effects = work.effects
    BY <1>2, <2>1
  <2> QED BY <1>1, <2>1, <2>2, <2>3 DEF LoopTyped
<1>5. CASE CompleteUnitOfWork
  <2> DEFINE done == Completing[work.unit]
             some == { n \in Node : fiber[n][SideIn(fiber, Other(current))[n]].effect }
             unit == FollowedBy(work.unit)
             more == Those(done, some)
  <2>1. /\ UNCHANGED <<root, tasks, syncQueue, passive, discrete, now, currentEventTime>>
        /\ At("completeUnitOfWork")
        /\ stack' = <<[Head(stack) EXCEPT !.at = "workLoop"]>> \o Tail(stack)
        /\ work' = [work EXCEPT !.unit = unit, !.effects = @ \o more]
    BY <1>5 DEF CompleteUnitOfWork, Goto
  <2>2. Framed(stack')
    BY <1>1, <1>2, <1>3, <2>1
  <2>3. more \in Seq(Node)
    <3>1. done \in Seq(Node)
      BY <1>2, <2>1, LastCompleted DEF CallStack
    <3> HIDE DEF done, some
    <3> QED BY <3>1, ThoseAreListed
  <2> HIDE DEF more, unit
  <2>4. work'.time = work.time /\ work'.effects = work.effects \o more
    BY <1>2, <2>1
  <2>5. work'.effects \in Seq(Node)
    BY <1>1, <2>3, <2>4
  <2> QED BY <1>1, <2>1, <2>2, <2>4, <2>5 DEF LoopTyped
<1>6. CASE FinishRender
  <2> DEFINE r == [root EXCEPT !.finishedWork = Other(current),
                               !.finishedExpirationTime = Head(stack).todo]
  <2>1. /\ UNCHANGED <<syncQueue, passive, discrete, now, currentEventTime>>
        /\ At("workLoop") /\ ReturnContinuation(Commit)
        /\ root' = r /\ work' = [work EXCEPT !.busy = FALSE]
    BY <1>6 DEF FinishRender
  <2>2. Framed(stack') /\ \A t \in tasks' : TaskTyped(t)
    BY <1>1, <1>2, <2>1, LevelFacts, ContinuationTyped
  <2>3. Head(stack).todo \in Levels
    <3>1. FrameTyped(Head(stack)) /\ Head(stack).at = "workLoop"
      BY <1>1, <2>1, FrameOnTop
    <3> QED BY <1>2, <3>1 DEF FrameTyped
  <2>4. RootTyped(root')
    BY <1>1, <1>2, <2>1, <2>3 DEF RootTyped, RootFields
  <2>5. work'.time = work.time /\ work'.effects = work.effects
    BY <1>2, <2>1
  <2> QED BY <1>1, <2>1, <2>2, <2>4, <2>5 DEF LoopTyped
<1> QED BY <1>4, <1>5, <1>6

LEMMA CommitTyped ==
  ASSUME LoopTyped, ScreenInv, UpdatesTyped, CommitTree
  PROVE  LoopTyped'
<1> DEFINE side  == SideIn(fiber, root.finishedWork)
           lists == [i \in DOMAIN work.effects |->
                       CallbacksOf(work.effects[i], side[work.effects[i]])]
           callbacks == FlattenSeq(lists)
           effects   == Those(work.effects, Functions)
           frame == [Head(stack) EXCEPT !.at = "layout", !.callbacks = callbacks,
                                        !.effects = effects]
<1>1. /\ RootTyped(root) /\ work.time \in Levels /\ work.effects \in Seq(Node)
      /\ (\A t \in tasks : TaskTyped(t))
      /\ syncQueue \in Seq(SyncEntries) /\ passive \in PassiveSet /\ discrete \in Levels
      /\ now \in Times /\ currentEventTime \in Times \cup {NoWork}
      /\ Framed(stack)
  BY DEF LoopTyped
<1>2. /\ fiber \in FiberTrees /\ AreFibers(fiber) /\ root.finishedWork \in Sides
      /\ At("commit") /\ "commit" \in RootPlaces /\ "layout" \in RootPlaces
  BY Others DEF CommitTree, UpdatesTyped, ScreenInv, FinishedInv, RootPlaces
<1>3. side \in [Node -> Sides]
  BY <1>2, SidesAreWired DEF Wired
<1> HIDE DEF side
<1>4. lists \in Seq(Seq(Update))
  <2>1. \A i \in DOMAIN work.effects : lists[i] \in Seq(Update)
    <3> TAKE i \in DOMAIN work.effects
    <3>1. work.effects[i] \in Node
      BY <1>1
    <3>2. side[work.effects[i]] \in Sides
      BY <1>3, <3>1
    <3> QED BY <3>1, <3>2, CallbacksAreUpdates
  <2>2. DOMAIN work.effects = 1 .. Len(work.effects) /\ Len(work.effects) \in Nat
    BY <1>1
  <2>3. lists \in [1 .. Len(work.effects) -> Seq(Update)]
    BY <2>1, <2>2, Zenon
  <2> HIDE DEF lists
  <2> QED BY <2>2, <2>3
<1> HIDE DEF lists
<1>5. callbacks \in Seq(Update) /\ effects \in Seq(Node)
  BY <1>1, <1>4, FlattenedList, ThoseAreListed
<1> HIDE DEF callbacks, effects
<1>6. /\ FrameTyped(Head(stack)) /\ Head(stack).at = "commit"
      /\ \A f : FrameTyped(f) => Framed(<<f>> \o Tail(stack))
  BY <1>1, <1>2, FrameOnTop
<1>7. FrameTyped(frame)
  BY <1>2, <1>5, <1>6, FrameMoves
<1> HIDE DEF frame
<1>8. /\ root' = RootCommitted(fiber[Root][root.finishedWork])
      /\ work' = [busy |-> FALSE, unit |-> None, effects |-> <<>>,
                  time |-> IF work.busy THEN NoWork ELSE work.time]
      /\ stack' = <<frame>> \o Tail(stack)
      /\ UNCHANGED <<tasks, syncQueue, passive, discrete, now, currentEventTime>>
  BY DEF CommitTree, Goto, frame, callbacks, lists, effects, side
<1>9. RootTyped(root')
  <2> DEFINE top == fiber[Root][root.finishedWork]
  <2>1. top \in FiberSet
    BY <1>2, TreeAssumption DEF FiberTrees
  <2>2. Max({top.time, top.childTime}) \in Levels
    <3>1. top.time \in Levels /\ top.childTime \in Levels
      BY <2>1 DEF FiberSet
    <3> QED BY <3>1, HigherLevel
  <2> HIDE DEF top
  <2>3. root' = RootCommitted(top)
    BY <1>8 DEF top
  <2> QED BY <2>2, <2>3, LevelFacts DEF RootCommitted, RootTyped
<1>10. work'.time \in Levels /\ work'.effects \in Seq(Node)
  <2>1. <<>> \in Seq(Node)
    OBVIOUS
  <2> QED BY <1>1, <1>8, <2>1, LevelFacts
<1> QED BY <1>1, <1>6, <1>7, <1>8, <1>9, <1>10 DEF LoopTyped

\* Nothing is passed around yet.
LEMMA InitTyped == Init => LoopTyped
<1> SUFFICES ASSUME Init PROVE LoopTyped
  OBVIOUS
<1>1. /\ root = [ firstPendingTime |-> NoWork, callbackNode |-> NoCallback,
                  callbackExpirationTime |-> NoWork,
                  finishedWork |-> 0, finishedExpirationTime |-> NoWork ]
      /\ work = [busy |-> FALSE, unit |-> None, time |-> NoWork, effects |-> <<>>]
      /\ tasks = {} /\ syncQueue = <<>> /\ stack = <<>>
      /\ passive = NoPassive /\ discrete = NoWork
      /\ now = Offset /\ currentEventTime = NoWork
  BY DEF Init
<1>2. <<>> \in Seq(Node) /\ <<>> \in Seq(SyncEntries)
  OBVIOUS
<1>3. RootTyped(root) /\ work.time \in Levels /\ work.effects \in Seq(Node)
  BY <1>1, <1>2, LevelFacts DEF RootTyped
<1>4. passive \in PassiveSet
  BY <1>1, <1>2 DEF NoPassive, PassiveSet
<1> QED BY <1>1, <1>2, <1>3, <1>4, LevelFacts, FramedEmpty, WorkLoopAssumption DEF LoopTyped

-----------------------------------------------------------------------------
(***************************************************************************)
(* Every step keeps the lists of every component.                          *)
(***************************************************************************)

\* Fibers that are copies, or have other levels, and queues that are clones.
LEMMA ListsStay ==
  ASSUME Lists, UNCHANGED <<level, next, eager, hooks, made>>,
         fiber' \in FiberTrees, queues' \in [Node -> [Sides -> QueueSet]],
         \A n \in Node, s \in Sides : SameQueue(queues'[n][s], queues[n][s]),
         \A n \in Node, s \in Sides : \E t \in Sides : SameLists(fiber'[n][s], fiber[n][t])
  PROVE  Lists'
<1>1. UpdatesTyped /\ MadeOnce /\ \A n \in Node : NodeLists(n)
  BY DEF Lists
<1>2. \A u \in Update : level[u] = NotMade => next'[u] = None
  BY <1>1 DEF MadeOnce
<1>3. MadeOnce' /\ \A n \in Node : History(n)' = History(n)
  BY <1>1, <1>2, MadeOnceStays
<1>4. UpdatesTyped'
  BY <1>1 DEF UpdatesTyped
<1>5. ASSUME NEW n \in Node PROVE NodeLists(n)'
  <2>1. \A s \in Sides : fiber[n][s].queue \in {0} \cup Sides
    BY <1>1 DEF UpdatesTyped, FiberTrees, FiberSet
  <2>2. \A i \in 1 .. Len(History(n)) :
          next'[History(n)[i]] = next[History(n)[i]] /\ eager'[History(n)[i]] = eager[History(n)[i]]
    OBVIOUS
  <2>3. NodeLists(n) /\ History(n)' = History(n) /\ hooks'[n] = hooks[n]
    BY <1>1, <1>3
  <2> QED BY <1>1, <2>1, <2>2, <2>3, OtherLists
<1> QED BY <1>3, <1>4, <1>5 DEF Lists

LEMMA ListsUnchanged ==
  ASSUME Lists, UNCHANGED <<level, next, eager, fiber, queues, hooks, made>>
  PROVE  Lists'
<1>1. fiber' \in FiberTrees /\ queues' \in [Node -> [Sides -> QueueSet]]
  BY DEF Lists, UpdatesTyped
<1>2. \A n \in Node, s \in Sides : SameQueue(queues'[n][s], queues[n][s])
  BY DEF SameQueue
<1>3. \A n \in Node, s \in Sides : \E t \in Sides : SameLists(fiber'[n][s], fiber[n][t])
  BY DEF SameLists
<1> QED BY <1>1, <1>2, <1>3, ListsStay

\* The fibers of a tree exist.
LEMMA OwnFibers ==
  ASSUME NEW f \in FiberTrees, Alive(f), NEW top \in Sides
  PROVE  \A n \in Node : SideIn(f, top)[n] \in Sides /\ f[n][SideIn(f, top)[n]].exists
<1> DEFINE side == SideIn(f, top)
           Good == { n \in Node : side[n] \in Sides /\ f[n][side[n]].exists }
<1>1. Wired(f, top, side)
  BY TreesAreFibers, SidesAreWired
<1> HIDE DEF side
<1>2. Root \in Good
  BY <1>1, TreeAssumption DEF Wired, Alive
<1>3. \A n \in Children : Parent[n] \in Good => n \in Good
  <2> SUFFICES ASSUME NEW n \in Children, Parent[n] \in Good PROVE n \in Good
    OBVIOUS
  <2>1. n \in Node /\ side[n] \in Sides /\ side[n] = f[Parent[n]][side[Parent[n]]].kids
    BY <1>1, TreeParent DEF Wired
  <2>2. f[Parent[n]][side[Parent[n]]].exists /\ side[Parent[n]] \in Sides
    OBVIOUS
  <2> HIDE DEF Good
  <2>3. f[n][f[Parent[n]][side[Parent[n]]].kids].exists
    BY <2>2 DEF Alive
  <2> QED BY <2>1, <2>3 DEF Good
<1> HIDE DEF Good
<1>4. Node \subseteq Good
  BY <1>2, <1>3, TreeInduction
<1> QED BY <1>4 DEF Good, side

\* A fresh stack.
LEMMA PrepareLists ==
  ASSUME Lists, Alive(fiber), current \in Sides, Prepare
  PROVE  Lists' /\ Alive(fiber')
<1>1. UNCHANGED <<level, next, eager, queues, hooks, made>>
      /\ (fiber' = fiber \/ fiber' = WorkInProgress(fiber, Root, current))
  BY DEF Prepare, PrepareStack
<1>2. fiber \in FiberTrees /\ queues \in [Node -> [Sides -> QueueSet]] /\ Root \in Node
  BY TreeAssumption DEF Lists, UpdatesTyped
<1>3. CASE fiber' = fiber
  BY <1>1, <1>3, ListsUnchanged
<1>4. CASE fiber' = WorkInProgress(fiber, Root, current)
  <2> DEFINE g == WorkInProgress(fiber, Root, current)
  <2>1. /\ g \in FiberTrees
        /\ CopyOf(g[Root][Other(current)], fiber[Root][current])
        /\ \A m \in Node, s \in Sides : (m # Root \/ s # Other(current)) => g[m][s] = fiber[m][s]
    BY <1>2, CopiedInTree
  <2> HIDE DEF g
  <2>2. fiber' = g
    BY <1>4 DEF g
  <2>3. \A n \in Node, s \in Sides : \E t \in Sides : SameLists(fiber'[n][s], fiber[n][t])
    <3> TAKE n \in Node, s \in Sides
    <3>1. CASE n = Root /\ s = Other(current)
      BY <2>1, <2>2, <3>1 DEF CopyOf
    <3>2. CASE n # Root \/ s # Other(current)
      BY <2>1, <2>2, <3>2 DEF SameLists
    <3> QED BY <3>1, <3>2
  <2>4. \A n \in Node, s \in Sides : SameQueue(queues'[n][s], queues[n][s])
    BY <1>1 DEF SameQueue
  <2>5. Lists'
    BY <1>1, <1>2, <2>1, <2>2, <2>3, <2>4, ListsStay
  <2>6. Other(current) \in Sides /\ fiber[Root][current].exists
        /\ \A s \in Sides : s = current \/ s = Other(current)
    BY Others DEF Alive
  <2>7. /\ \A m \in Node, s \in Sides : g[m][s].exists = fiber[m][s].exists
        /\ \A m \in Children, s \in Sides : g[m][s] = fiber[m][s]
        /\ g[Root][current] = fiber[Root][current]
        /\ g[Root][Other(current)].kids = fiber[Root][current].kids
    <3>1. fiber[Root][Other(current)].exists
      BY <2>6 DEF Alive
    <3>2. \A m \in Children : m \in Node /\ m # Root
      BY TreeParent
    <3>3. /\ g[Root][Other(current)].exists = fiber[Root][current].exists
          /\ g[Root][Other(current)].kids = fiber[Root][current].kids
      BY <2>1 DEF CopyOf, SameLists
    <3>4. Other(current) # current
      BY Others
    <3> QED BY <1>2, <2>1, <2>6, <3>1, <3>2, <3>3, <3>4
  <2>8. Alive(g)
    <3>1. /\ \A s \in Sides : g[Root][s].exists
          /\ \A n \in Node : g[n][1].exists
      BY <1>2, <2>7 DEF Alive, Sides
    <3>2. ASSUME NEW n \in Children, NEW s \in Sides, g[Parent[n]][s].exists
          PROVE  g[n][g[Parent[n]][s].kids].exists
      <4>1. n \in Node /\ Parent[n] \in Node
        BY TreeParent
      <4>2. \A x \in Sides : fiber[Parent[n]][x].exists => /\ fiber[n][fiber[Parent[n]][x].kids].exists
                                                           /\ fiber[Parent[n]][x].kids \in Sides
        BY <1>2, <4>1 DEF Alive, FiberTrees, FiberSet
      <4>3. CASE Parent[n] = Root /\ s = Other(current)
        BY <2>6, <2>7, <4>1, <4>2, <4>3
      <4>4. CASE Parent[n] # Root \/ s # Other(current)
        <5>1. g[Parent[n]][s] = fiber[Parent[n]][s]
          BY <2>1, <4>1, <4>4
        <5> QED BY <2>7, <3>2, <4>1, <4>2, <5>1
      <4> QED BY <4>3, <4>4
    <3> QED BY <3>1, <3>2 DEF Alive
  <2> QED BY <2>2, <2>5, <2>8
<1> QED BY <1>1, <1>3, <1>4

\* A unit of work.
LEMMA PerformLists ==
  ASSUME Lists, Alive(fiber), ScreenInv, PerformUnitOfWork
  PROVE  Lists' /\ Alive(fiber')
<1> DEFINE n    == work.unit
           side == SideIn(fiber, Other(current))[n]
<1>1. /\ n \in Node /\ BeginWork(n, side, work.time) /\ made' = made
      /\ Other(current) \in Sides /\ fiber \in FiberTrees
  BY Others DEF PerformUnitOfWork, ScreenInv, FinishedInv, Lists, UpdatesTyped
<1>2. side \in Sides /\ fiber[n][side].exists
  BY <1>1, OwnFibers
<1> HIDE DEF n, side
<1> QED BY <1>1, <1>2, BeginLists

\* The completion of some fibers.
LEMMA CompleteLists ==
  ASSUME Lists, Alive(fiber), ScreenInv, CompleteUnitOfWork
  PROVE  Lists' /\ Alive(fiber')
<1> DEFINE side == SideIn(fiber, Other(current))
           done == Completing[work.unit]
<1>1. /\ UNCHANGED <<level, next, eager, queues, hooks, made>>
      /\ fiber' = ChildTimesReset(side, done, work.time) /\ At("completeUnitOfWork")
  BY DEF CompleteUnitOfWork
<1>2. /\ fiber \in FiberTrees /\ queues \in [Node -> [Sides -> QueueSet]]
      /\ AreFibers(fiber) /\ Other(current) \in Sides /\ work.unit \in Node
  BY <1>1, Others DEF Lists, UpdatesTyped, ScreenInv, FinishedInv, CallStack
<1>3. side \in [Node -> Sides] /\ done \in Seq(Node)
  BY <1>2, SidesAreWired, LastCompleted DEF Wired
<1> HIDE DEF side, done
<1>4. Steady(fiber, fiber')
  BY <1>1, <1>2, <1>3, ResetsAreSteady
<1>5. \A n \in Node, s \in Sides : \E t \in Sides : SameLists(fiber'[n][s], fiber[n][t])
  BY <1>4 DEF Steady, SameFiber
<1>6. \A n \in Node, s \in Sides : SameQueue(queues'[n][s], queues[n][s])
  BY <1>1 DEF SameQueue
<1>7. fiber' \in FiberTrees
  BY <1>4 DEF Steady
<1> QED BY <1>1, <1>2, <1>4, <1>5, <1>6, <1>7, ListsStay, SteadyIsAlive

\* A commit, which forgets the callbacks that queues hold.
LEMMA CommitLists ==
  ASSUME Lists, Alive(fiber), CommitTree
  PROVE  Lists' /\ Alive(fiber')
<1>1. /\ UNCHANGED <<level, next, eager, fiber, hooks, made>>
      /\ queues' = [n \in Node |-> IF n \in Range(work.effects)
                      THEN [i \in Sides |-> CloneOf(queues[n][i])] ELSE queues[n]]
  BY DEF CommitTree
<1>2. fiber \in FiberTrees /\ queues \in [Node -> [Sides -> QueueSet]]
  BY DEF Lists, UpdatesTyped
<1>3. ASSUME NEW n \in Node, NEW s \in Sides
      PROVE  queues'[n][s] \in QueueSet /\ SameQueue(queues'[n][s], queues[n][s])
  <2>1. queues[n][s] \in QueueSet
    BY <1>2
  <2>2. queues'[n][s] = CloneOf(queues[n][s]) \/ queues'[n][s] = queues[n][s]
    BY <1>1
  <2> QED BY <2>1, <2>2, QueueIsCloned DEF SameQueue
<1>4. queues' \in [Node -> [Sides -> QueueSet]]
  <2>1. \A n \in Node : queues'[n] \in [Sides -> QueueSet]
    <3> TAKE n \in Node
    <3>1. queues'[n] = [s \in Sides |-> queues'[n][s]]
      BY <1>1, <1>2
    <3> QED BY <1>3, <3>1
  <2>2. queues' = [n \in Node |-> queues'[n]]
    BY <1>1
  <2> QED BY <2>1, <2>2
<1>5. \A n \in Node, s \in Sides : \E t \in Sides : SameLists(fiber'[n][s], fiber[n][t])
  BY <1>1 DEF SameLists
<1> QED BY <1>1, <1>2, <1>3, <1>4, <1>5, ListsStay

\* The steps that may make an update.
LEMMA MakingLists ==
  ASSUME Lists, Alive(fiber), LoopTyped, FinishedInv,
         \/ \E u \in Update : EventUpdate(u)
         \/ RunPassiveEffect \/ CallCallback
  PROVE  Lists' /\ Alive(fiber')
<1>1. current \in Sides /\ DOMAIN root = RootFields /\ fiber \in FiberTrees
  BY DEF FinishedInv, Lists, UpdatesTyped
<1>2. \/ \E u, priority, isInsideReact, isDiscrete :
           MakesUpdate(u, priority, isInsideReact, isDiscrete)
      \/ UNCHANGED <<level, next, eager, fiber, queues, hooks, made>>
  <2>1. CASE \E u \in Update : EventUpdate(u)
    BY <2>1, EventUpdateMakes
  <2>2. CASE RunPassiveEffect
    BY <1>1, <2>2, PassiveEffectMakes DEF treeVars
  <2>3. CASE CallCallback
    BY <2>3, CallbackMakes
  <2> QED BY <2>1, <2>2, <2>3
<1>3. ASSUME NEW u, NEW priority, NEW isInsideReact, NEW isDiscrete,
             MakesUpdate(u, priority, isInsideReact, isDiscrete)
      PROVE  Lists' /\ Alive(fiber')
  <2>1. u \in Update /\ priority \in Priorities /\ MakeUpdate(u, priority, isInsideReact, isDiscrete)
    BY <1>3 DEF MakesUpdate
  <2>2. ComputedExpiration(RequestedTime(isInsideReact), priority) \in Levels
    BY <1>1, <2>1, UpdateTyped
  <2> QED BY <1>1, <2>1, <2>2, UpdateLists
<1>4. CASE UNCHANGED <<level, next, eager, fiber, queues, hooks, made>>
  BY <1>4, ListsUnchanged
<1> QED BY <1>2, <1>3, <1>4

\* The others are not about updates.
LEMMA QuietLists ==
  ASSUME Lists, Alive(fiber),
         \/ \E event \in Events : BeginEvent(event)
         \/ EndEvent \/ BeginFlush \/ FlushNext \/ BeginPassiveEffects
         \/ Yield \/ BeginCommit \/ CommitNothing \/ BeginRenderRoot \/ CommitReturns
         \/ FinishRender \/ EndCommit
         \/ \E task \in tasks : RunTask(task)
         \/ Tick
  PROVE  Lists' /\ Alive(fiber')
<1>1. UNCHANGED <<treeVars, made>>
  <2>1. CASE \/ \E event \in Events : BeginEvent(event)
             \/ EndEvent \/ BeginFlush \/ FlushNext \/ BeginPassiveEffects
    BY <2>1 DEF BeginEvent, EndEvent, BeginFlush, FlushNext, BeginPassiveEffects
  <2>2. CASE Yield \/ BeginCommit \/ CommitNothing \/ BeginRenderRoot \/ CommitReturns
    BY <2>2 DEF Yield, BeginCommit, CommitNothing, BeginRenderRoot, CommitReturns
  <2>3. CASE FinishRender \/ EndCommit
    BY <2>3 DEF FinishRender, EndCommit
  <2>4. CASE (\E task \in tasks : RunTask(task)) \/ Tick
    BY <2>4 DEF RunTask, Tick
  <2> QED BY <2>1, <2>2, <2>3, <2>4
<1> QED BY <1>1, ListsUnchanged DEF treeVars

\* What is true of the updates in every state.
UpdatesInv == ScreenInv /\ Lists /\ Alive(fiber) /\ LoopTyped

LEMMA UpdatesStep == UpdatesInv /\ [Next]_vars => UpdatesInv'
<1> SUFFICES ASSUME UpdatesInv, [Next]_vars PROVE UpdatesInv'
  OBVIOUS
<1>1. /\ ScreenInv /\ Lists /\ Alive(fiber) /\ LoopTyped /\ FinishedInv /\ UpdatesTyped
      /\ DOMAIN root = RootFields /\ current \in Sides /\ fiber \in FiberTrees
  BY DEF UpdatesInv, ScreenInv, FinishedInv, Lists, UpdatesTyped
<1>2. ScreenInv'
  BY <1>1, ScreenStep
<1>3. CASE UNCHANGED vars
  <2>1. Lists'
    BY <1>1, <1>3, ListsUnchanged DEF vars, treeVars, loopVars
  <2>2. LoopTyped' /\ Alive(fiber')
    BY <1>1, <1>3 DEF vars, treeVars, loopVars, LoopTyped
  <2> QED BY <1>2, <2>1, <2>2 DEF UpdatesInv
<1>4. CASE \/ \E event \in Events : BeginEvent(event)
           \/ EndEvent \/ BeginFlush \/ FlushNext \/ BeginPassiveEffects
           \/ Yield \/ BeginCommit \/ CommitNothing \/ BeginRenderRoot \/ CommitReturns
           \/ \E task \in tasks : RunTask(task)
           \/ Tick
  <2>1. LoopTyped'
    BY <1>1, <1>4, CallsTyped
  <2>2. Lists' /\ Alive(fiber')
    BY <1>1, <1>4, QuietLists
  <2> QED BY <1>2, <2>1, <2>2 DEF UpdatesInv
<1>5. CASE (\E u \in Update : EventUpdate(u)) \/ RunPassiveEffect \/ CallCallback
  BY <1>1, <1>2, <1>5, UpdatesTypedLoop, MakingLists DEF UpdatesInv
<1>6. CASE EndCommit
  BY <1>1, <1>2, <1>6, UpdatesTypedLoop, QuietLists DEF UpdatesInv
<1>7. CASE FinishRender
  BY <1>1, <1>2, <1>7, RenderTyped, QuietLists DEF UpdatesInv
<1>8. CASE Prepare
  BY <1>1, <1>2, <1>8, PrepareTyped, PrepareLists DEF UpdatesInv
<1>9. CASE PerformUnitOfWork
  BY <1>1, <1>2, <1>9, RenderTyped, PerformLists DEF UpdatesInv
<1>10. CASE CompleteUnitOfWork
  BY <1>1, <1>2, <1>10, RenderTyped, CompleteLists DEF UpdatesInv
<1>11. CASE CommitTree
  BY <1>1, <1>2, <1>11, CommitTyped, CommitLists DEF UpdatesInv
<1> QED BY <1>3, <1>4, <1>5, <1>6, <1>7, <1>8, <1>9, <1>10, <1>11 DEF Next, Step

\* A tree that has just been mounted has no updates but the one that mounted it.
LEMMA NothingMade ==
  ASSUME Init
  PROVE  /\ MadeOnce
         /\ History(Root) = <<MountUpdate>> /\ \A n \in Children : History(n) = <<>>
<1>1. /\ level = [u \in Update |-> IF u = MountUpdate THEN Sync ELSE NotMade]
      /\ next = [u \in Update |-> None] /\ eager = [u \in Update |-> <<>>]
      /\ made = [n \in Node |-> <<>>]
  BY DEF Init, TreeInit
<1>2. MountUpdate \in Update /\ Root \in Node /\ \A n \in Children : n \in Node /\ n # Root
  BY TreeAssumption, TreeParent
<1>3. Sync # NotMade
  BY LevelFacts DEF NotMade
<1>4. \A n \in Node : made[n] = <<>>
  BY <1>1
<1>5. MadeUpdates = {MountUpdate}
  BY <1>1, <1>2, <1>3 DEF MadeUpdates
<1>6. IsFiniteSet(MadeUpdates)
  BY <1>5, FS_Singleton
<1>7. <<>> \in Seq(Update) /\ IsInjective(<<>>) /\ Range(<<>>) = {}
  BY DEF IsInjective, Range
<1>8. made \in [Node -> Seq(Update)]
  BY <1>1, <1>7
<1>9. \A u \in Update : level[u] # NotMade <=> (u = MountUpdate \/ u \in Range(made[Target[u]]))
  BY <1>1, <1>2, <1>3, <1>4, <1>7, WorkLoopAssumption
<1>10. \A u \in Update : level[u] = NotMade => next[u] = None /\ eager[u] = <<>>
  BY <1>1
<1>11. MadeOnce
  BY <1>4, <1>6, <1>7, <1>8, <1>9, <1>10 DEF MadeOnce
<1>12. <<MountUpdate>> \o <<>> = <<MountUpdate>>
  OBVIOUS
<1> QED BY <1>2, <1>4, <1>11, <1>12 DEF History

LEMMA MountedFibers ==
  /\ NoFiber \in FiberSet /\ Mounted \in FiberSet
  /\ Mounted.exists /\ Mounted.kids = 1 /\ Mounted.queue = 0 /\ Mounted.state = <<>>
  /\ Mounted.base = <<>> /\ Mounted.baseUpdate = None
  /\ ~NoFiber.exists /\ NoFiber.queue = 0 /\ NoFiber.state = <<>>
  /\ NoFiber.base = <<>> /\ NoFiber.baseUpdate = None
<1>1. <<>> \in Seq(Update) /\ NoWork \in Levels /\ 1 \in Sides
  BY LevelFacts DEF Sides
<1> QED BY <1>1 DEF NoFiber, Mounted, FiberSet

LEMMA InitUpdates == Init => UpdatesInv
<1> SUFFICES ASSUME Init PROVE UpdatesInv
  OBVIOUS
<1> DEFINE H(n) == History(n)
<1>1. /\ level = [u \in Update |-> IF u = MountUpdate THEN Sync ELSE NotMade]
      /\ next = [u \in Update |-> None] /\ eager = [u \in Update |-> <<>>]
      /\ hooks = [n \in Node |-> NewHookQueue]
  BY DEF Init, TreeInit
<1>2. /\ fiber = [n \in Node |-> [s \in Sides |->
                    IF n = Root THEN [Mounted EXCEPT !.queue = s]
                    ELSE IF s = 1 THEN Mounted ELSE NoFiber]]
      /\ queues = [n \in Node |-> [s \in Sides |->
                    IF n = Root /\ s = 2
                      THEN [NewQueue(<<>>) EXCEPT !.first = MountUpdate, !.last = MountUpdate]
                      ELSE NewQueue(<<>>)]]
  BY DEF Init, TreeInit
<1>3. /\ MountUpdate \in Update /\ Root \in Node /\ Root \notin Functions
      /\ \A n \in Children : n \in Node /\ n # Root
      /\ Node = Children \cup {Root}
  BY TreeAssumption, TreeParent DEF Children
<1>4. /\ MadeOnce /\ History(Root) = <<MountUpdate>> /\ \A n \in Children : History(n) = <<>>
  BY NothingMade
<1>5. <<>> \in Seq(Update) /\ <<>> \in Seq(Seq(Update)) /\ 1 \in Sides /\ 2 \in Sides
  BY DEF Sides
<1>6. \A s \in Sides :
        LET x == [Mounted EXCEPT !.queue = s]
        IN  /\ x \in FiberSet /\ x.exists /\ x.queue = s /\ x.kids = 1 /\ x.state = <<>>
            /\ x.base = <<>> /\ x.baseUpdate = None
  BY MountedFibers DEF FiberSet
<1>7. /\ NewQueue(<<>>) \in QueueSet
      /\ [NewQueue(<<>>) EXCEPT !.first = MountUpdate, !.last = MountUpdate] \in QueueSet
  BY <1>3, <1>5 DEF NewQueue, QueueSet
<1>8. fiber \in FiberTrees /\ queues \in [Node -> [Sides -> QueueSet]]
  BY <1>2, <1>6, <1>7, MountedFibers DEF FiberTrees
<1>9. hooks \in [Node -> HookSet]
  BY <1>1, <1>5 DEF NewHookQueue, HookSet
<1>10. UpdatesTyped
  <2>1. level \in [Update -> Levels \cup {NotMade}]
    BY <1>1, LevelFacts
  <2>2. next \in [Update -> Update \cup {None}] /\ eager \in [Update -> Seq(Seq(Update))]
    BY <1>1, <1>5
  <2> QED BY <1>8, <1>9, <2>1, <2>2 DEF UpdatesTyped
<1>11. Alive(fiber)
  <2>1. \A n \in Node, s \in Sides :
          /\ n = Root \/ s = 1 => fiber[n][s].exists
          /\ fiber[n][s].exists => fiber[n][s].kids = 1
    <3> TAKE n \in Node, s \in Sides
    <3>1. CASE n = Root
      <4>1. fiber[n][s] = [Mounted EXCEPT !.queue = s]
        BY <1>2, <3>1
      <4> QED BY <1>6, <4>1
    <3>2. CASE n # Root
      <4>1. fiber[n][s] = IF s = 1 THEN Mounted ELSE NoFiber
        BY <1>2, <3>2
      <4> QED BY <3>2, <4>1, MountedFibers
    <3> QED BY <3>1, <3>2
  <2>3. \A n \in Children : Parent[n] \in Node
    BY TreeParent
  <2> QED BY <1>3, <1>5, <2>1, <2>3 DEF Alive
<1>12. /\ Possible(<<>>)[0] = {<<>>} /\ Possible(<<MountUpdate>>)[0] = {<<>>}
       /\ <<>> \in Possible(<<MountUpdate>>)[1]
  <2>1. <<MountUpdate>> \in Seq(Update) /\ Len(<<MountUpdate>>) = 1
    BY <1>3
  <2>2. /\ Possible(<<>>)[0] = {<<>>} /\ Possible(<<MountUpdate>>)[0] = {<<>>}
    BY <1>5, <2>1, PossibleStates
  <2>3. Possible(<<MountUpdate>>)[0] \subseteq Possible(<<MountUpdate>>)[1]
    <3>1. 1 \in 0 .. Len(<<MountUpdate>>) /\ 0 \in 0 .. 1
      BY <2>1
    <3> QED BY <2>1, <3>1, PossibleStays
  <2> QED BY <2>2, <2>3
<1>13. NodeLists(Root)
  <2> DEFINE G == <<MountUpdate>>
  <2>1. G # <<>> /\ Len(G) = 1 /\ G[1] = MountUpdate
    OBVIOUS
  <2>2. QueueFrom(queues[Root][1], G, 1)
    <3>1. queues[Root][1] = NewQueue(<<>>)
      BY <1>2, <1>3, <1>5
    <3> HIDE DEF G
    <3> QED BY <1>12, <2>1, <3>1 DEF QueueFrom, NewQueue, G
  <2>3. QueueFrom(queues[Root][2], G, 0)
    <3>1. queues[Root][2] = [NewQueue(<<>>) EXCEPT !.first = MountUpdate, !.last = MountUpdate]
      BY <1>2, <1>3, <1>5
    <3> HIDE DEF G
    <3> QED BY <1>12, <2>1, <3>1 DEF QueueFrom, NewQueue, G
  <2>4. \A s \in Sides : QueueOver(queues[Root][s], G)
    <3> HIDE DEF G
    <3> QED BY <2>1, <2>2, <2>3 DEF QueueOver, Sides
  <2>5. ClassList(Root)
    BY <1>1, <1>3, <1>4 DEF ClassList
  <2>6. ASSUME NEW s \in Sides PROVE ClassSide(Root, fiber[Root][s])
    <3>1. fiber[Root][s] = [Mounted EXCEPT !.queue = s] /\ s # 0
      BY <1>2, <1>3 DEF Sides
    <3> HIDE DEF G
    <3> QED BY <1>4, <1>6, <1>12, <2>1, <2>4, <3>1 DEF ClassSide, G
  <2> QED BY <1>3, <2>5, <2>6 DEF NodeLists, ListOf, SideOf
<1>14. ASSUME NEW n \in Children PROVE NodeLists(n)
  <2>1. History(n) = <<>> /\ Len(<<>>) = 0 /\ n \in Node
    BY <1>3, <1>4
  <2>2. ASSUME NEW s \in Sides
        PROVE  LET x == fiber[n][s]
               IN  x.queue = 0 /\ x.state = <<>> /\ x.base = <<>> /\ x.baseUpdate = None
    <3>1. fiber[n][s] = Mounted \/ fiber[n][s] = NoFiber
      BY <1>2, <1>3
    <3> QED BY <3>1, MountedFibers
  <2>3. CASE n \in Functions
    <3>1. HookList(n)
      <4>1. hooks[n].last = None /\ hooks[n].rendered = <<>>
        BY <1>1, <2>1 DEF NewHookQueue
      <4> QED BY <1>12, <2>1, <4>1 DEF HookList, CircleOf, LastOf
    <3>2. \A s \in Sides : HookSide(n, fiber[n][s])
      BY <1>12, <2>1, <2>2 DEF HookSide, HookFrom
    <3> QED BY <2>3, <3>1, <3>2 DEF NodeLists, ListOf, SideOf
  <2>4. CASE n \notin Functions
    <3>1. ClassList(n) /\ \A s \in Sides : ClassSide(n, fiber[n][s])
      BY <1>12, <2>1, <2>2 DEF ClassList, ClassSide
    <3> QED BY <2>4, <3>1 DEF NodeLists, ListOf, SideOf
  <2> QED BY <2>3, <2>4
<1>15. Lists
  BY <1>3, <1>4, <1>10, <1>13, <1>14 DEF Lists
<1> QED BY <1>11, <1>15, InitScreen, InitTyped DEF UpdatesInv

-----------------------------------------------------------------------------
(***************************************************************************)
(* What is shown is what some of the updates make of the initial state.    *)
(***************************************************************************)

\* An update that changes nothing may come first.
LEMMA MountChangesNothing ==
  ASSUME NEW h \in Seq(Update)
  PROVE  LET g == <<MountUpdate>> \o h
         IN  Len(g) = Len(h) + 1 /\ Possible(g)[Len(g)] = Possible(h)[Len(h)]
<1> DEFINE g == <<MountUpdate>> \o h
           n == Len(h)
           Good == { k \in 0 .. n : Possible(g)[k + 1] = Possible(h)[k] }
<1>1. /\ g \in Seq(Update) /\ n \in Nat /\ Len(g) = n + 1 /\ g[1] = MountUpdate
      /\ \A k \in 1 .. n : g[k + 1] = h[k]
      /\ MountUpdate \in Noops
  BY TreeAssumption
<1> HIDE DEF g
<1>2. /\ Possible(g)[0] = {<<>>} /\ Possible(h)[0] = {<<>>}
      /\ \A k \in 1 .. n + 1 :
           Possible(g)[k] = Possible(g)[k - 1] \cup { Applied(x, g[k]) : x \in Possible(g)[k - 1] }
      /\ \A k \in 1 .. n :
           Possible(h)[k] = Possible(h)[k - 1] \cup { Applied(x, h[k]) : x \in Possible(h)[k - 1] }
  BY <1>1, PossibleStates
<1>3. 0 \in Good
  <2>1. Possible(g)[1] = Possible(g)[0] \cup { Applied(x, g[1]) : x \in Possible(g)[0] }
    <3>1. 1 \in 1 .. n + 1 /\ 1 - 1 = 0
      BY <1>1
    <3> QED BY <1>2, <3>1
  <2>2. Applied(<<>>, g[1]) = <<>>
    <3>1. g[1] \in Noops /\ g[1] \notin Replacing
      BY <1>1, UpdateAssumption
    <3> QED BY <3>1, Zenon DEF Applied
  <2>3. Possible(g)[1] = {<<>>}
    BY <1>2, <2>1, <2>2
  <2>4. 0 + 1 = 1 /\ 0 \in 0 .. n
    BY <1>1
  <2> QED BY <1>2, <2>3, <2>4
<1>4. ASSUME NEW k \in 1 .. n, k - 1 \in Good PROVE k \in Good
  <2>1. /\ k \in 0 .. n /\ k + 1 \in 1 .. n + 1 /\ (k + 1) - 1 = k /\ (k - 1) + 1 = k
        /\ g[k + 1] = h[k]
    BY <1>1
  <2>2. Possible(g)[k] = Possible(h)[k - 1]
    BY <1>4, <2>1
  <2>3. Possible(g)[k + 1] = Possible(g)[k] \cup { Applied(x, h[k]) : x \in Possible(g)[k] }
    BY <1>2, <2>1
  <2>4. Possible(g)[k + 1] = Possible(h)[k]
    BY <1>2, <2>2, <2>3
  <2> QED BY <2>1, <2>4
<1> HIDE DEF Good
<1>5. 0 .. n \subseteq Good
  BY <1>1, <1>3, <1>4, UpTo
<1>6. n \in Good
  BY <1>1, <1>5
<1> QED BY <1>1, <1>6 DEF Good, g

ShownAreResults ==
  \A n \in Node : \E some \in SUBSET Range(made[n]) : Shown[n] = States!Result(made[n], some)

LEMMA ShownAreMade == UpdatesInv => ShownAreResults
<1> SUFFICES ASSUME UpdatesInv, NEW n \in Node
             PROVE  \E some \in SUBSET Range(made[n]) : Shown[n] = States!Result(made[n], some)
  BY DEF ShownAreResults
<1>1. /\ MadeOnce /\ fiber \in FiberTrees /\ AreFibers(fiber) /\ current \in Sides /\ NodeLists(n)
  BY DEF UpdatesInv, Lists, UpdatesTyped, ScreenInv, FinishedInv
<1>2. made[n] \in Seq(Update) /\ IsInjective(made[n])
  BY <1>1 DEF MadeOnce
<1>3. Side[n] \in Sides /\ Shown[n] = fiber[n][Side[n]].state
  BY <1>1, SidesAreWired DEF Wired, Side, Shown
<1>4. Shown[n] \in Possible(History(n))[Len(History(n))]
  BY <1>1, <1>3 DEF NodeLists, SideOf, HookSide, ClassSide
<1>5. Shown[n] \in Possible(made[n])[Len(made[n])]
  BY <1>2, <1>4, MountChangesNothing DEF History
<1> QED BY <1>2, <1>5, PossibleIsResult

\* An update is put on a list; what is shown stays.
LEMMA ShownStays ==
  ASSUME ScreenInv, Stays
  PROVE  Shown' = Shown
<1>1. AreFibers(fiber) /\ Similar(fiber, fiber') /\ current \in Sides /\ current' = current
  BY DEF ScreenInv, FinishedInv, Stays
<1>2. SideIn(fiber, current) \in [Node -> Sides]
  BY <1>1, SidesAreWired DEF Wired
<1>3. AreFibers(fiber') /\ \A n \in Node, s \in Sides : /\ fiber'[n][s].kids = fiber[n][s].kids
                                                       /\ fiber'[n][s].state = fiber[n][s].state
  BY <1>1 DEF Similar, Alike
<1>4. SideIn(fiber', current) = SideIn(fiber, current)
  BY <1>1, <1>2, <1>3, SameSides
<1>5. \A n \in Node : fiber'[n][SideIn(fiber', current')[n]].state
                    = fiber[n][SideIn(fiber, current)[n]].state
  BY <1>1, <1>2, <1>3, <1>4
<1> QED BY <1>5 DEF Shown, Side

LEMMA MakesOnce ==
  ASSUME UpdatesInv, NEW u, NEW priority, NEW isInsideReact, NEW isDiscrete,
         MakesUpdate(u, priority, isInsideReact, isDiscrete), Shown' = Shown
  PROVE  u \in Update /\ States!Make(u)
<1>1. /\ u \in Update /\ level[u] = NotMade
      /\ made' = [made EXCEPT ![Target[u]] = Append(@, u)]
  BY DEF MakesUpdate, MakeUpdate
<1>2. u \notin Range(made[Target[u]])
  BY <1>1 DEF UpdatesInv, Lists, MadeOnce
<1>3. u \notin States!Range(made[Target[u]])
  BY <1>2 DEF Range, States!Range
<1> QED BY <1>1, <1>3 DEF States!Make

\* Either one update is made, and nothing changes on the screen, or none.
LEMMA MadeOrNot ==
  ASSUME UpdatesInv, [Next]_vars
  PROVE  (\E u \in Update : States!Make(u)) \/ made' = made
<1>1. /\ ScreenInv /\ LoopTyped /\ fiber \in FiberTrees /\ current \in Sides
  BY DEF UpdatesInv, ScreenInv, FinishedInv, Lists, UpdatesTyped
<1>2. CASE (\E u \in Update : EventUpdate(u)) \/ RunPassiveEffect \/ CallCallback
  <2>1. Shown' = Shown
    BY <1>1, <1>2, UpdatesStay, ShownStays
  <2>2. \/ \E u, priority, isInsideReact, isDiscrete :
             MakesUpdate(u, priority, isInsideReact, isDiscrete)
        \/ made' = made
    <3>1. CASE \E u \in Update : EventUpdate(u)
      BY <1>1, <3>1, EventUpdateMakes
    <3>2. CASE RunPassiveEffect
      BY <1>1, <3>2, PassiveEffectMakes
    <3>3. CASE CallCallback
      BY <1>1, <3>3, CallbackMakes
    <3> QED BY <1>2, <3>1, <3>2, <3>3
  <2> QED BY <2>1, <2>2, MakesOnce
<1>3. CASE UNCHANGED vars
  BY <1>3 DEF vars, loopVars
<1>4. CASE \/ \E event \in Events : BeginEvent(event)
           \/ EndEvent \/ BeginFlush \/ FlushNext \/ BeginPassiveEffects
  BY <1>4 DEF BeginEvent, EndEvent, BeginFlush, FlushNext, BeginPassiveEffects
<1>5. CASE Yield \/ BeginCommit \/ CommitNothing \/ BeginRenderRoot \/ CommitReturns
  BY <1>5 DEF Yield, BeginCommit, CommitNothing, BeginRenderRoot, CommitReturns
<1>6. CASE FinishRender \/ EndCommit \/ Prepare \/ PerformUnitOfWork
  BY <1>6 DEF FinishRender, EndCommit, Prepare, PerformUnitOfWork
<1>7. CASE CompleteUnitOfWork \/ CommitTree
  BY <1>7 DEF CompleteUnitOfWork, CommitTree
<1>8. CASE (\E task \in tasks : RunTask(task)) \/ Tick
  BY <1>8 DEF RunTask, Tick
<1> QED BY <1>2, <1>3, <1>4, <1>5, <1>6, <1>7, <1>8 DEF Next, Step

\* In every reachable state a component shows what some of its updates, applied in the order in
\* which they were made, make of the initial state: no update is applied out of order, twice or
\* before it is made, however it was skipped, rebased or interrupted; and a step makes one update
\* that is new or changes what is shown.
THEOREM StatesAreResults == Spec => States!Init /\ [][States!Next]_<<made, Shown>>
<1>1. Init => UpdatesInv
  BY InitUpdates
<1>2. UpdatesInv /\ [Next]_vars => UpdatesInv'
  BY UpdatesStep
<1>3. UpdatesInv => ShownAreResults
  BY ShownAreMade
<1>4. Init => States!Init
  <2> SUFFICES ASSUME Init PROVE States!Init
    OBVIOUS
  <2>1. AreFibers(fiber) /\ current \in Sides
    BY InitScreen DEF ScreenInv, FinishedInv
  <2>2. \A n \in Node : Side[n] \in Sides
    BY <2>1, SidesAreWired DEF Wired, Side
  <2>3. \A n \in Node, s \in Sides : fiber[n][s].state = <<>>
    <3> TAKE n \in Node, s \in Sides
    <3>1. \/ fiber[n][s] = [Mounted EXCEPT !.queue = s]
          \/ fiber[n][s] = Mounted \/ fiber[n][s] = NoFiber
      BY DEF Init, TreeInit
    <3> QED BY <3>1, MountedFibers DEF FiberSet
  <2>4. Shown = [n \in Node |-> <<>>]
    BY <2>2, <2>3 DEF Shown
  <2>5. made = [n \in Node |-> <<>>]
    BY DEF Init
  <2> QED BY <2>4, <2>5 DEF States!Init
<1>5. UpdatesInv /\ [Next]_vars /\ ShownAreResults' => [States!Next]_<<made, Shown>>
  <2> SUFFICES ASSUME UpdatesInv, [Next]_vars, ShownAreResults'
               PROVE  States!Next
    OBVIOUS
  <2>1. CASE \E u \in Update : States!Make(u)
    BY <2>1 DEF States!Next
  <2>2. CASE made' = made
    <3>1. \A n \in Node : \E some \in SUBSET Range(made[n]) :
            Shown'[n] = States!Result(made[n], some)
      BY <2>2 DEF ShownAreResults
    <3>2. Shown' = [n \in Node |-> Shown'[n]]
      BY DEF Shown
    <3>3. \A n \in Node : States!Range(made[n]) = Range(made[n])
      BY DEF Range, States!Range
    <3>4. \A n \in Node : \E some \in SUBSET States!Range(made[n]) :
            Shown'[n] = States!Result(made[n], some)
      BY <3>1, <3>3
    <3>5. States!Commit
      BY <2>2, <3>2, <3>4 DEF States!Commit
    <3> QED BY <3>5 DEF States!Next
  <2> QED BY <2>1, <2>2, MadeOrNot
<1> QED BY <1>1, <1>2, <1>3, <1>4, <1>5, PTL DEF Spec
=============================================================================
