------------------------ MODULE ChildReconciliation ------------------------
(***************************************************************************)
(* How the children of a fiber follow the elements that it renders: which  *)
(* fibers are reused, deleted, created and moved, and what the commit does *)
(* to the nodes of the host (the DOM) for that.                            *)
(*                                                                         *)
(* An element is [key, type, kids], where only fragments (and components)  *)
(* have kids here: they have no node of their own, and what is inside of a *)
(* host element is another list.  A fiber adds its id, by which the host   *)
(* knows the node created for it, its index (from 1), whether it is new,   *)
(* whether it is to be placed, the elements to be reconciled with its kids *)
(* and the kids that it has given up then.                                 *)
(*                                                                         *)
(* Bound: a fragment has no fragments below it.                            *)
(***************************************************************************)
EXTENDS Integers, SequencesExt

CONSTANTS
  ChildLists,    \* the lists of elements, with holes, that may be rendered
  OnlyChildren   \* the elements that may be rendered by themselves (no fragments
                 \* without a key, which are taken for lists)

NoKey == "no key"
Hole  == [key |-> NoKey, type |-> "hole", kids |-> <<>>]   \* null, or a boolean

IsHost(x) == x.type # "fragment"

\* The fiber of an element (updateElement, updateTextNode, updateFragment): the
\* one in `currents' if that has its type, or one made at this place.
FiberFor(currents, child, i, at) ==
  LET same    == { f \in currents : f.type = child.type }
      current == CHOOSE f \in same : TRUE
  IN  [ id |-> IF same = {} THEN Append(at, i) ELSE current.id, isNew |-> same = {},
        key |-> child.key, type |-> child.type, index |-> i, placed |-> FALSE,
        elements |-> child.kids, kids |-> IF same = {} THEN <<>> ELSE current.kids, gone |-> <<>> ]

WithId(fibers, id) == { f \in fibers : f.id = id }

\* Mutant: a fiber moves if its index has become smaller.
MovesToTheLeft(oldIndex, lastPlacedIndex, newIndex) == oldIndex > newIndex

\* A fiber moves if it was to the left of one that stays and is before it now.
Moves(oldIndex, lastPlacedIndex, newIndex) == oldIndex < lastPlacedIndex

\* placeChild, and the fiber is added to its siblings.
Placed(s, currents, fiber, isTracked) ==
  LET same     == WithId(currents, fiber.id)
      oldIndex == (CHOOSE f \in same : TRUE).index
      moves    == same = {} \/ Moves(oldIndex, s.lastPlaced, fiber.index)
  IN  [s EXCEPT !.kids = Append(@, [fiber EXCEPT !.placed = isTracked /\ moves]),
                !.lastPlaced = IF moves THEN @ ELSE oldIndex]

\* The old fiber at the next child's place, if there is one.
Slot(s, i) == IF Head(s.rest).index > i THEN {} ELSE {Head(s.rest)}

\* Children are taken in pairs with the old fibers as long as their keys agree
\* (updateSlot).  An old fiber of the same key but another type is replaced.
Matches(s, child, i) ==
  /\ s.isPaired /\ s.rest # <<>> /\ child # Hole
  /\ child.key = IF Slot(s, i) = {} THEN NoKey ELSE Head(s.rest).key

Paired(s, child, i, at, isTracked) ==
  LET slot  == Slot(s, i)
      fiber == FiberFor(slot, child, i, at)
  IN  Placed([s EXCEPT !.rest = IF slot = {} THEN @ ELSE Tail(@),
                       !.gone = @ \o SetToSeq(slot \ WithId(slot, fiber.id))],
             slot, fiber, isTracked)

\* From the first pair that disagrees on, the rest of the old fibers are looked up
\* by key, or by index if they have none (mapRemainingChildren, updateFromMap).
LookedUp(s, child, i, at, isTracked) ==
  LET found == { f \in Range(s.rest) : f.key = child.key /\ (f.key = NoKey => f.index = i) }
      fiber == FiberFor(found, child, i, at)
  IN  IF child = Hole THEN [s EXCEPT !.isPaired = FALSE]
      ELSE Placed([s EXCEPT !.isPaired = FALSE,
                            !.rest = SelectSeq(@, LAMBDA f : f.id # fiber.id)],
                  found, fiber, isTracked)

\* reconcileChildrenArray.  Without isTracked it is mountChildFibers, which marks
\* nothing since the parent is placed as a whole.
ReconciledList(olds, children, at, isTracked) ==
  LET Child(s, i) == IF Matches(s, children[i], i)
                       THEN Paired(s, children[i], i, at, isTracked)
                       ELSE LookedUp(s, children[i], i, at, isTracked)
      done == FoldLeft(Child,
                [rest |-> olds, isPaired |-> TRUE, kids |-> <<>>, gone |-> <<>>, lastPlaced |-> 0],
                [i \in DOMAIN children |-> i])
  IN  [kids |-> done.kids, gone |-> done.gone \o done.rest]

\* reconcileSingleElement, reconcileSingleTextNode and placeSingleChild: the first
\* old fiber with the child's key counts, of texts the first old fiber.
ReconciledOnly(olds, child, at) ==
  LET firsts == IF child.type = "text" THEN { i \in DOMAIN olds : i = 1 }
                ELSE { i \in DOMAIN olds : /\ olds[i].key = child.key
                                           /\ \A j \in 1 .. i - 1 : olds[j].key # child.key }
      fiber  == FiberFor({ olds[i] : i \in firsts }, child, 1, at)
  IN  [ kids |-> <<[fiber EXCEPT !.placed = WithId(Range(olds), fiber.id) = {}]>>,
        gone |-> SelectSeq(olds, LAMBDA f : f.id # fiber.id) ]

\* The work goes on below the children: a fragment reconciles its own.
Begun(parent, at) ==
  LET Begin(kids, kid) ==
        LET below == ReconciledList(kid.kids, kid.elements, Append(at, kid.index), ~kid.isNew)
        IN  Append(kids, [kid EXCEPT !.kids = below.kids, !.gone = below.gone])
  IN  [parent EXCEPT !.kids = FoldLeft(Begin, <<>>, @)]

Reconciled(olds, children, at) == Begun(ReconciledList(olds, children, at, TRUE), at)
-----------------------------------------------------------------------------
\* The list of effects of a parent whose children have been completed: what it has
\* given up, then for each child the effects below it and its own.
OwnEffects(parent, BelowKid(_)) ==
  [i \in DOMAIN parent.gone |-> [tag |-> "Deletion", fiber |-> parent.gone[i]]]
    \o FlattenSeq([i \in DOMAIN parent.kids |->
         LET kid == parent.kids[i]
         IN  BelowKid(kid)
               \o (IF kid.placed THEN <<[tag |-> "Placement", fiber |-> kid]>> ELSE <<>>)])
EffectsOf(parent) == OwnEffects(parent, LAMBDA kid : OwnEffects(kid, LAMBDA leaf : <<>>))

\* The fibers below a parent in the order of the document, each with those that
\* it is within, itself included.
Walk(kids) ==
  FlattenSeq([i \in DOMAIN kids |->
    <<[fiber |-> kids[i], within |-> {kids[i].id}]>>
      \o [j \in DOMAIN kids[i].kids |->
           [fiber |-> kids[i].kids[j], within |-> {kids[i].id, kids[i].kids[j].id}]]])

HostNodes(kids) ==
  LET hosts == SelectSeq(Walk(kids), LAMBDA step : IsHost(step.fiber))
  IN  [i \in DOMAIN hosts |-> hosts[i].fiber.id]

\* getHostSibling: the nodes after a fiber that are not about to be placed, neither
\* by themselves nor with a fragment that begins after it.
StableNodes(walk, pending, id) ==
  LET p == CHOOSE q \in DOMAIN walk : walk[q].fiber.id = id
  IN  { n \in DOMAIN walk :
          /\ n > p /\ IsHost(walk[n].fiber) /\ id \notin walk[n].within
          /\ (walk[n].within \ walk[p].within) \cap pending = {} }

\* What the host does.  It throws if a node that it refers to is not there.
Throws == <<"NotFoundError">>
RemoveChild(dom, id) == IF id \in Range(dom) THEN Remove(dom, id) ELSE Throws
AppendChild(dom, id) == Append(Remove(dom, id), id)
InsertBefore(dom, id, before) ==
  LET others == Remove(dom, id)
  IN  IF before \in Range(others)
        THEN InsertAt(others, CHOOSE i \in DOMAIN others : others[i] = before, id) ELSE Throws

\* commitPlacement inserts all the nodes of a fiber.
CommitPlacement(s, walk, fiber) ==
  LET stable == StableNodes(walk, s.pending, fiber.id)
      before == walk[CHOOSE n \in stable : \A m \in stable : n <= m].fiber.id
      Insert(dom, id) == IF stable = {} THEN AppendChild(dom, id) ELSE InsertBefore(dom, id, before)
  IN  [ dom |-> FoldLeft(Insert, s.dom, HostNodes(<<fiber>>)), pending |-> s.pending \ {fiber.id} ]

\* commitDeletion removes them.
CommitDeletion(s, fiber) == [s EXCEPT !.dom = FoldLeft(RemoveChild, @, HostNodes(<<fiber>>))]

\* The nodes of the host parent after the effects.
Committed(dom, parent) ==
  LET walk    == Walk(parent.kids)
      effects == EffectsOf(parent)
      Do(s, effect) == CASE effect.tag = "Deletion"  -> CommitDeletion(s, effect.fiber)
                         [] effect.tag = "Placement" -> CommitPlacement(s, walk, effect.fiber)
      start   == [ dom |-> dom, pending |-> { walk[n].fiber.id : n \in
                                   { n \in DOMAIN walk : walk[n].fiber.placed } } ]
  IN  FoldLeft(Do, start, effects).dom
-----------------------------------------------------------------------------
\* The children of one render after those of another: the nodes are in the order
\* of the elements, ...
InOrder(olds, parent) == Committed(HostNodes(olds), parent) = HostNodes(parent.kids)

\* ... and a fiber goes on exactly where there is a child of its type and key, or
\* of its type and place if it has no key.
SameChild(fiber, child, i) ==
  fiber.type = child.type /\ fiber.key = child.key /\ (child.key = NoKey => fiber.index = i)

StateKept(olds, children, parent) ==
  \A f \in Range(olds) :
    (\E kid \in Range(parent.kids) : kid.id = f.id)
      <=> \E i \in DOMAIN children : SameChild(f, children[i], i)

MountedFrom(children) ==
  Begun(ReconciledList(<<>>, children, <<"old">>, FALSE), <<"old">>).kids

\* For all lists of children before and after a render.
AllInOrder ==
  \A before \in ChildLists :
    LET olds == MountedFrom(before)
    IN  /\ \A children \in ChildLists :
             LET parent == Reconciled(olds, children, <<"new">>)
             IN  InOrder(olds, parent) /\ StateKept(olds, children, parent)
        /\ \A child \in OnlyChildren :
             LET parent == Begun(ReconciledOnly(olds, child, <<"new">>), <<"new">>)
             IN  /\ InOrder(olds, parent)
                 /\ child.key # NoKey => StateKept(olds, <<child>>, parent)
=============================================================================
