----------------------------- MODULE MCWorkLoop -----------------------------
(***************************************************************************)
(* A root with a class component and, below it, a function component: the  *)
(* updates r of the root, c of the class and h of the function.  Beside it,*)
(* lists of up to three children with keys, holes and fragments.           *)
(***************************************************************************)
EXTENDS WorkLoop, ChildReconciliation

CONSTANTS top, outer, inner, mount, r1, c1, c2, c3, h1, h2, h3, h4

MCKids == (top :> <<outer>>) @@ (outer :> <<inner>>) @@ (inner :> <<>>)

MCTarget ==
  [u \in Update |-> CASE u \in {mount, r1} -> top [] u \in {c1, c2, c3} -> outer [] OTHER -> inner]

MCEvent ==
  [u \in Update |-> CASE u \in {c1, h1, h4} -> "discrete" [] u = h3 -> "normal"
                       [] u = r1 -> "flushSync" [] OTHER -> "reaction"]

\* Callbacks of r1 and c1, and an effect of the function component.
MCReaction ==
  LET reactions == (r1 :> c3) @@ (c1 :> h2) @@ (h1 :> c2)
  IN  [u \in Update |-> IF u \in DOMAIN reactions /\ reactions[u] \in Update
                          THEN reactions[u] ELSE None]

Element(key, type, kids) == [key |-> key, type |-> type, kids |-> kids]
Text == Element(NoKey, "text", <<>>)
A    == Element("a", "div", <<>>)
B    == Element("b", "div", <<>>)

MCElements ==
  { Hole, Text, A, B, Element(NoKey, "div", <<>>), Element("a", "span", <<>>) }
    \cup { Element("c", "fragment", kids) : kids \in { <<>>, <<Text, A>>, <<A, Hole, B>> } }

MCChildLists ==
  { list \in UNION { [1 .. n -> MCElements] : n \in 0 .. 3 } :
      \A i, j \in DOMAIN list : i # j /\ list[i].key # NoKey => list[i].key # list[j].key }

MCOnlyChildren == MCElements \ {Hole}

\* What is rendered after anything else is shown in its order, whatever has moved,
\* appeared or gone and in whatever order that is committed, the host is never
\* asked for a node that it has not got, and no state is lost or taken over by
\* another element (ReactChildFiber, commitPlacement).  Keys are unique among
\* siblings.  That depends on no state: it is evaluated in the initial one.
ReconciledInOrder == (now = Offset /\ stack = <<>> /\ MadeUpdates = {mount}) => AllInOrder
=============================================================================
