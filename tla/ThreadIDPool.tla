---------------------------- MODULE ThreadIDPool ----------------------------
(***************************************************************************)
(* What the renderers rely on, without the array: each live renderer owns  *)
(* an ID nobody else owns, below a capacity that doubles only when every   *)
(* smaller ID is owned ("Tries to stay as compact as possible"), and a     *)
(* renderer is refused only when the capacity is used up and may not grow. *)
(***************************************************************************)
EXTENDS Integers

CONSTANTS Renderer, InitialSize, MaxSize

VARIABLES
  capacity,   \* IDs are 1 .. capacity - 1
  owned,      \* the ID each renderer owns, 0 for none
  refused     \* has a renderer been refused an ID?

vars == <<capacity, owned, refused>>

Free == { id \in 1 .. capacity - 1 : \A r \in Renderer : owned[r] # id }

Init ==
  /\ capacity = InitialSize
  /\ owned = [r \in Renderer |-> 0]
  /\ refused = FALSE

Acquire(r) ==
  /\ owned[r] = 0
  /\ \/ /\ \E id \in Free : owned' = [owned EXCEPT ![r] = id]
        /\ UNCHANGED capacity
     \/ /\ Free = {} /\ 2 * capacity <= MaxSize
        /\ capacity' = 2 * capacity
        /\ owned' = [owned EXCEPT ![r] = capacity]
  /\ UNCHANGED refused

Refuse(r) ==
  /\ owned[r] = 0 /\ Free = {} /\ 2 * capacity > MaxSize
  /\ refused' = TRUE
  /\ UNCHANGED <<capacity, owned>>

Release(r) ==
  /\ owned[r] # 0
  /\ owned' = [owned EXCEPT ![r] = 0]
  /\ UNCHANGED <<capacity, refused>>

Next == \E r \in Renderer : Acquire(r) \/ Refuse(r) \/ Release(r)

Spec == Init /\ [][Next]_vars
=============================================================================
