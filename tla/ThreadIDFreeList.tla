-------------------------- MODULE ThreadIDFreeList --------------------------
(***************************************************************************)
(* The array behind ReactThreadIDAllocator.js.  `nextAvailableThreadIDs'   *)
(* is a free list threaded through a typed array: slot 0 holds the first   *)
(* free ID, slot i the free ID that follows i, and 0 ends the list.  A     *)
(* list is a record of the array's length and its contents, so that every  *)
(* renderer module can keep one and apply the allocator's operations.      *)
(***************************************************************************)
EXTENDS Integers

CONSTANTS
  InitialSize,   \* length of the first array (16 in the source)
  MaxSize        \* largest length ever allowed (0x10000 in the source)

ASSUME SizesAssumption ==
  /\ InitialSize \in Nat /\ InitialSize >= 2
  /\ MaxSize \in Nat /\ InitialSize <= MaxSize /\ MaxSize <= 65536

\* A Uint16Array keeps the low 16 bits of what is stored in it.
Uint16(x) == x % 65536

IDs(list) == 1 .. list.size - 1

\* Mutant: the last slot of the first array links past its end.
InitialListUnterminated ==
  [ size |-> InitialSize,
    next |-> [ i \in 0 .. InitialSize - 1 |-> Uint16(i + 1) ] ]

InitialList ==
  [ size |-> InitialSize,
    next |-> [ i \in 0 .. InitialSize - 1 |->
                 IF i = InitialSize - 1 THEN 0 ELSE Uint16(i + 1) ] ]

\* allocThreadID: an empty list doubles the array, and the old length is the ID.
CanGrow(list)     == 2 * list.size <= MaxSize
CanAlloc(list)    == list.next[0] # 0 \/ CanGrow(list)
AllocatedID(list) == IF list.next[0] = 0 THEN list.size ELSE list.next[0]

\* Mutant: slot 0 keeps the ID that the growing call returns.
GrownKeepsReturnedID(list) ==
  [ size |-> 2 * list.size,
    next |-> [ i \in 0 .. 2 * list.size - 1 |->
                 IF i = 0 THEN list.size
                 ELSE IF i < list.size THEN list.next[i]
                 ELSE IF i < 2 * list.size - 1 THEN Uint16(i + 1) ELSE 0 ] ]

Grown(list) ==
  [ size |-> 2 * list.size,
    next |-> [ i \in 0 .. 2 * list.size - 1 |->
                 IF i = 0 THEN Uint16(list.size + 1)
                 ELSE IF i < list.size THEN list.next[i]
                 ELSE IF i < 2 * list.size - 1 THEN Uint16(i + 1) ELSE 0 ] ]

AfterAlloc(list) ==
  IF list.next[0] = 0
    THEN Grown(list)
    ELSE [ size |-> list.size,
           next |-> [list.next EXCEPT ![0] = list.next[list.next[0]]] ]

\* Mutant: slot 0 is overwritten before it is linked.
AfterFreeSwapped(list, id) ==
  [ size |-> list.size, next |-> [list.next EXCEPT ![0] = id, ![id] = id] ]

\* freeThreadID: the ID becomes the head of the list; nothing is checked.
AfterFree(list, id) ==
  [ size |-> list.size,
    next |-> [list.next EXCEPT ![id] = list.next[0], ![0] = id] ]
-----------------------------------------------------------------------------
IsFreeList(list) ==
  /\ list.size \in InitialSize .. MaxSize
  /\ list.next \in [0 .. list.size - 1 -> 0 .. list.size - 1]
  /\ list = [size |-> list.size, next |-> list.next]

\* `chain' is the free part of `list' while the IDs in `held' are in use: it
\* starts in slot 0, follows the array, ends in 0, visits no ID twice, and
\* holds exactly the IDs that are not held.
IsFreeChain(chain, list, held) ==
  /\ \A i, j \in DOMAIN chain : chain[i] = chain[j] => i = j
  /\ list.next[0] = IF DOMAIN chain = {} THEN 0 ELSE chain[1]
  /\ \A i \in DOMAIN chain :
       list.next[chain[i]] =
         IF i + 1 \in DOMAIN chain THEN chain[i + 1] ELSE 0
  /\ \A id \in IDs(list) :
       (\E i \in DOMAIN chain : chain[i] = id) <=> id \notin held

Intact(list, held) ==
  \E n \in 0 .. list.size - 1 :
    \E chain \in [1 .. n -> IDs(list)] : IsFreeChain(chain, list, held)
=============================================================================
