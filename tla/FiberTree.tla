----------------------------- MODULE FiberTree -----------------------------
(***************************************************************************)
(* The fibers of a mounted tree.  Each node has two, on sides 1 and 2: one *)
(* is part of the tree that is on the screen, the other is made from it by *)
(* createWorkInProgress when a render gets to the node.  A fiber points to *)
(* its children of one side.  Below a node that a render leaves out, both  *)
(* of the node's fibers point to the same children.                        *)
(***************************************************************************)
EXTENDS UpdateQueues

CONSTANTS
  Kids,        \* [Node -> Seq(Node)]: the tree, which does not change
  Root,        \* its host root
  Functions,   \* the nodes that are function components with a useState hook
  MountUpdate  \* the update that mounted the tree

Node     == DOMAIN Kids
Children == Node \ {Root}
Parent   == [n \in Children |-> CHOOSE p \in Node : n \in Range(Kids[p])]

\* A tree: every child has one parent, and they lead to the root.
ASSUME TreeAssumption ==
  /\ Root \in Node /\ Functions \subseteq Children
  /\ \A p \in Node : Kids[p] \in Seq(Children) /\ IsInjective(Kids[p])
  /\ \A n \in Children : \E p \in Node : \A q \in Node : n \in Range(Kids[q]) <=> q = p
  /\ \E depth \in [Node -> 0 .. Cardinality(Node)] :
       \A p \in Node : \A n \in Range(Kids[p]) : depth[n] = depth[p] + 1
  /\ MountUpdate \in Update \cap Noops

\* That there is no fiber is told from any fiber.
ASSUME NoneAssumption == None \notin Node

Sides == 1 .. 2
Other(side) == 3 - side

VARIABLES
  fiber,     \* [Node -> [Sides -> fiber]]
  queues,    \* [Node -> [Sides -> queue]]: the update queues fibers refer to
  hooks,     \* [Node -> queue of its hook]
  current    \* root.current: the side of the root's fiber on the screen

treeVars == <<level, next, called, eager, fiber, queues, hooks, current>>

\* Before a fiber has an alternate.
NoFiber == [ exists |-> FALSE, time |-> NoWork, childTime |-> NoWork, kids |-> 1,
             state |-> <<>>, props |-> <<>>, fresh |-> FALSE, effect |-> FALSE,
             queue |-> 0, base |-> <<>>, baseUpdate |-> None ]

Mounted == [NoFiber EXCEPT !.exists = TRUE]

\* A tree that has just been mounted: the root's alternate, from before, still
\* has the update that mounted it.
TreeInit ==
  /\ level = [u \in Update |-> IF u = MountUpdate THEN Sync ELSE NotMade]
  /\ next = [u \in Update |-> None] /\ eager = [u \in Update |-> <<>>]
  /\ called = [u \in Update |-> 0]
  /\ current = 1
  /\ fiber = [n \in Node |-> [s \in Sides |->
       IF n = Root THEN [Mounted EXCEPT !.queue = s]
       ELSE IF s = 1 THEN Mounted ELSE NoFiber]]
  /\ queues = [n \in Node |-> [s \in Sides |->
       IF n = Root /\ s = 2
         THEN [NewQueue(<<>>) EXCEPT !.first = MountUpdate, !.last = MountUpdate]
         ELSE NewQueue(<<>>)]]
  /\ hooks = [n \in Node |-> NewHookQueue]

\* The side of a node in the tree whose root is on side `top'.
SideIn(fibers, top) ==
  LET side[n \in Node] ==
        IF n = Root THEN top ELSE fibers[Parent[n]][side[Parent[n]]].kids
  IN  side
-----------------------------------------------------------------------------
\* enqueueUpdate makes the queue of a fiber when it is first needed: one for
\* both fibers if there is just one, and else one for each.  (A fiber is copied
\* with its queue, so that it never is just one of two that has none.)
Living(n) == { s \in Sides : fiber[n][s].exists }
QueueOf(n, side) ==
  IF fiber[n][side].queue # 0 THEN fiber[n][side].queue
  ELSE IF Cardinality(Living(n)) = 1 THEN 1 ELSE side

WithQueues(n) ==
  [fiber EXCEPT ![n] = [s \in Sides |->
     IF s \in Living(n) THEN [@[s] EXCEPT !.queue = QueueOf(n, s)] ELSE @[s]]]

\* Mutant: the other fiber's queue does not get the update.
EnqueuedOnOneQueue(n, side, u) ==
  LET queue == IF fiber[n][side].queue # 0 THEN queues[n][QueueOf(n, side)]
               ELSE NewQueue(fiber[n][side].state)
  IN  /\ queues' = [queues EXCEPT ![n][QueueOf(n, side)] = WithUpdate(queue, u)]
      /\ next' = Linked(next, queue, u)
      /\ UNCHANGED <<hooks, eager>>

\* enqueueUpdate, called with the fiber on side `side': the update goes to the
\* queues of both fibers.  Two that are not empty end in the same update, so that
\* it is linked once.
EnqueuedOnQueue(n, side, u) ==
  LET given  == [s \in Sides |-> IF fiber[n][s].queue # 0 THEN queues[n][QueueOf(n, s)]
                                 ELSE NewQueue(fiber[n][s].state)]
      first  == given[side]
      second == given[Other(side)]
      single == Other(side) \notin Living(n) \/ QueueOf(n, 1) = QueueOf(n, 2)
      linked == Linked(next, first, u)
  IN  /\ queues' = [queues EXCEPT ![n] = [i \in Sides |->
           IF \E s \in Living(n) : QueueOf(n, s) = i
             THEN WithUpdate(given[CHOOSE s \in Living(n) : QueueOf(n, s) = i], u) ELSE @[i]]]
      /\ next' = IF single \/ (first.last # None /\ second.last # None)
                   THEN linked ELSE Linked(linked, second, u)
      /\ UNCHANGED <<hooks, eager>>

\* dispatchAction: with nothing pending the new state is computed at once.
HookIsIdle(n) == \A s \in Sides : fiber[n][s].time = NoWork

EnqueuedOnHook(n, u) ==
  /\ next' = HookLinked(next, hooks[n], u)
  /\ hooks' = [hooks EXCEPT ![n].last = u]
  /\ eager' = IF HookIsIdle(n)
                THEN [eager EXCEPT ![u] = <<Applied(hooks[n].rendered, u)>>] ELSE eager
  /\ UNCHANGED queues

\* There is no need to render, since the state would be the same.
EagerlySame(n, u) == n \in Functions /\ HookIsIdle(n) /\ Applied(hooks[n].rendered, u) = hooks[n].rendered

\* Mutant: the alternates of the ancestors are forgotten.
MarkedOnlyCurrent(fibers, n, expiration) ==
  LET side == SideIn(fibers, current)
      above[m \in Node] == IF m = Root THEN {} ELSE {Parent[m]} \cup above[Parent[m]]
      raised(time) == Max({time, expiration})
  IN  [m \in Node |-> [s \in Sides |->
        IF m = n THEN [fibers[m][s] EXCEPT !.time = raised(@)]
        ELSE IF m \in above[n] /\ s = side[m]
          THEN [fibers[m][s] EXCEPT !.childTime = raised(@)] ELSE fibers[m][s]]]

\* markUpdateTimeFromFiberToRoot: both fibers of the node and of its ancestors.
Marked(fibers, n, expiration) ==
  LET above[m \in Node] == IF m = Root THEN {} ELSE {Parent[m]} \cup above[Parent[m]]
      raised(time) == Max({time, expiration})
  IN  [m \in Node |-> [s \in Sides |->
        IF m = n THEN [fibers[m][s] EXCEPT !.time = raised(@)]
        ELSE IF m \in above[n]
          THEN [fibers[m][s] EXCEPT !.childTime = raised(@)] ELSE fibers[m][s]]]
-----------------------------------------------------------------------------
\* Mutant: an alternate that exists is used as it was left.
WorkInProgressStale(fibers, n, side) ==
  IF fibers[n][Other(side)].exists
    THEN [fibers EXCEPT ![n][Other(side)].time = fibers[n][side].time,
                        ![n][Other(side)].childTime = fibers[n][side].childTime,
                        ![n][Other(side)].fresh = FALSE, ![n][Other(side)].effect = FALSE]
  ELSE [fibers EXCEPT ![n][Other(side)] =
          [fibers[n][side] EXCEPT !.fresh = FALSE, !.effect = FALSE]]

\* createWorkInProgress: the fiber on the other side becomes a copy.
WorkInProgress(fibers, n, side) ==
  [fibers EXCEPT ![n][Other(side)] =
     [fibers[n][side] EXCEPT !.fresh = FALSE, !.effect = FALSE]]

\* cloneChildFibers
ChildrenCloned(fibers, n, side) ==
  LET kids    == fibers[n][side].kids
      spawned == Range(Kids[n])
      other   == [fibers EXCEPT ![n][side].kids = Other(kids)]
  IN  [m \in Node |-> IF m \in spawned THEN WorkInProgress(fibers, m, kids)[m] ELSE other[m]]

\* reconcileChildren, where every child is there already: new props for all.
ChildrenReconciled(fibers, n, side) ==
  LET mine    == fibers[n][side]
      spawned == Range(Kids[n])
      cloned  == ChildrenCloned(fibers, n, side)
  IN  [m \in Node |-> IF m \in spawned
                        THEN [cloned[m] EXCEPT ![Other(mine.kids)].fresh = TRUE,
                                               ![Other(mine.kids)].props = mine.state]
                        ELSE cloned[m]]

\* bailoutOnAlreadyFinishedWork: children are looked at if they have work.
HasChildWork(fibers, n, side, render) == fibers[n][side].childTime >= render

BailedOut(fibers, n, side, render) ==
  IF HasChildWork(fibers, n, side, render) THEN ChildrenCloned(fibers, n, side) ELSE fibers

\* beginWork of a fiber without new props or sufficient updates.
NothingToDo(n, side, render) ==
  ~fiber[n][side].fresh /\ fiber[n][side].time < render

BeginBailsOut(n, side, render) ==
  /\ NothingToDo(n, side, render)
  /\ fiber' = BailedOut(fiber, n, side, render)
  /\ UNCHANGED <<next, queues, hooks>>

\* updateHostRoot and updateClassComponent: the queue is processed on a clone.
\* Without new props or state the children are as they were.
BeginQueue(n, side, render) ==
  LET mine    == fiber[n][side]
      id      == IF mine.queue # fiber[n][Other(side)].queue THEN mine.queue
                 ELSE Other(mine.queue)
      result  == Processed(CloneOf(queues[n][mine.queue]), render)
      updated == IF mine.queue = 0 THEN [mine EXCEPT !.time = NoWork]
                 ELSE [mine EXCEPT !.time = result.remaining, !.state = result.state,
                                   !.queue = id, !.effect = result.queue.effects # <<>>]
      fibers  == [fiber EXCEPT ![n][side] = updated]
      same    == /\ ~mine.fresh
                 /\ mine.queue # 0 => ~result.changed /\ result.state = mine.state
  IN  /\ ~NothingToDo(n, side, render) /\ n \notin Functions
      /\ queues' = IF mine.queue = 0 THEN queues
                   ELSE [queues EXCEPT ![n][id] = result.queue]
      /\ fiber' = IF same THEN BailedOut(fibers, n, side, render)
                  ELSE ChildrenReconciled(fibers, n, side)
      /\ UNCHANGED <<next, hooks>>

\* updateFunctionComponent.  bailoutHooks takes the work off the current fiber.
BeginFunction(n, side, render) ==
  LET mine    == fiber[n][side]
      old     == fiber[n][Other(side)]
      result  == HookProcessed(hooks[n], old.base, old.baseUpdate, render)
      updated == IF result.empty THEN [mine EXCEPT !.time = NoWork]
                 ELSE [mine EXCEPT !.time = result.remaining, !.state = result.state,
                                   !.base = result.base, !.baseUpdate = result.baseUpdate]
      same    == ~mine.fresh /\ updated.state = old.state
      fibers  == [fiber EXCEPT
                    ![n][side] = [updated EXCEPT !.effect = ~same],
                    ![n][Other(side)].time = IF same /\ @ <= render THEN NoWork ELSE @]
  IN  /\ ~NothingToDo(n, side, render) /\ n \in Functions
      /\ next' = HookOpened(next, hooks[n], old.baseUpdate)
      /\ hooks' = IF result.empty THEN hooks
                  ELSE [hooks EXCEPT ![n].rendered = result.state]
      /\ fiber' = IF same THEN BailedOut(fibers, n, side, render)
                  ELSE ChildrenReconciled(fibers, n, side)
      /\ UNCHANGED queues

\* beginWork: every fiber whose work is not left out is rendered.
BeginWork(n, side, render) ==
  /\ \/ BeginBailsOut(n, side, render)
     \/ BeginQueue(n, side, render)
     \/ BeginFunction(n, side, render)
  /\ UNCHANGED <<level, called, eager, current>>
-----------------------------------------------------------------------------
IsLastChild(n) == n = Last(Kids[Parent[n]])

\* The fibers that completeUnitOfWork completes when it starts with this one.
Completing ==
  LET from[n \in Node] ==
        IF n # Root /\ IsLastChild(n) THEN <<n>> \o from[Parent[n]] ELSE <<n>>
  IN  from

\* The unit of work after a fiber that has no child to go on with.
FollowedBy(n) ==
  LET last == Last(Completing[n])
  IN  IF last = Root THEN None
      ELSE LET siblings == Kids[Parent[last]]
           IN  siblings[1 + CHOOSE i \in DOMAIN siblings : siblings[i] = last]

\* Mutant: the work of grandchildren does not bubble.
ChildTimeOfChildren(fibers, n, side, render) ==
  LET mine == fibers[n][side]
  IN  [fibers EXCEPT ![n][side].childTime =
         Max({NoWork} \cup { fibers[k][mine.kids].time : k \in Range(Kids[n]) })]

\* resetChildExpirationTime; hidden children do not bubble.
ChildTimeReset(fibers, n, side, render) ==
  LET mine  == fibers[n][side]
      times == UNION { {fibers[k][mine.kids].time, fibers[k][mine.kids].childTime} :
                       k \in Range(Kids[n]) }
  IN  IF render # Never /\ mine.childTime = Never THEN fibers
      ELSE [fibers EXCEPT ![n][side].childTime = Max({NoWork} \cup times)]

\* The loop of completeUnitOfWork, which goes through `done', children first.
ChildTimesReset(side, done, render) ==
  LET after[i \in 0 .. Len(done)] ==
        IF i = 0 THEN fiber
        ELSE ChildTimeReset(after[i - 1], done[i], side[done[i]], render)
  IN  after[Len(done)]
=============================================================================
