---------------------- MODULE ThreadIDAllocatorProofs ----------------------
(***************************************************************************)
(* Proofs about ThreadIDAllocator: how renderers share the free list, on   *)
(* top of the lemmas about the list itself.                                *)
(***************************************************************************)
EXTENDS ThreadIDAllocator, DataLemmas

-----------------------------------------------------------------------------
\* The inductive invariant: IDs can only be shown distinct together with where
\* the free ones are, because allocThreadID trusts whatever slot 0 holds.
IInv == TypeOK /\ LiveIDsDistinct /\ FreeListIntact

Held == { threadID[r] : r \in Live }

\* Before any renderer exists the chain of the initial list is its witness.
LEMMA InitEstablishes == Init => IInv
PROOF
<1>. SUFFICES ASSUME Init PROVE IInv
  OBVIOUS
<1>1. Live = {} /\ Held = {}
  BY DEF Init, Live, Held
<1>2. IsFreeList(freeList) /\ Intact(freeList, Held)
  BY <1>1, InitialListIntact DEF Init
<1>3. TypeOK
  BY <1>1, <1>2 DEF TypeOK, Init
<1>4. LiveIDsDistinct /\ FreeListIntact
  BY <1>1, <1>2 DEF LiveIDsDistinct, FreeListIntact, Held
<1>. QED
  BY <1>3, <1>4 DEF IInv

\* A constructor takes an ID that nobody holds.
LEMMA ConstructPreserves ==
  ASSUME IInv, NEW r \in Renderer, Construct(r)
  PROVE  IInv'
PROOF
<1>. DEFINE id == AllocatedID(freeList)
<1>1. /\ IsFreeList(freeList) /\ Intact(freeList, Held) /\ CanAlloc(freeList)
      /\ Held \subseteq IDs(freeList)
  BY DEF IInv, TypeOK, FreeListIntact, Held, Construct
<1>3. /\ IsFreeList(freeList') /\ Intact(freeList', Held \cup {id})
      /\ id \in IDs(freeList') /\ id \notin Held
      /\ IDs(freeList) \subseteq IDs(freeList')
  BY <1>1, AllocTakesFree DEF Construct
<1>4. /\ phase' = [phase EXCEPT ![r] = "live"] /\ phase[r] = "unborn"
      /\ threadID' = [threadID EXCEPT ![r] = id]
      /\ phase \in [Renderer -> {"unborn", "live", "exhausted"}]
      /\ threadID \in [Renderer -> Nat]
  BY DEF Construct, IInv, TypeOK
<1>5. Live' = Live \cup {r} /\ r \notin Live
  BY <1>4 DEF Live
<1>6. threadID'[r] = id /\ \A s \in Live : threadID'[s] = threadID[s]
  BY <1>4, <1>5 DEF Live
<1>7. Held' = Held \cup {id}
  BY <1>4, <1>5, <1>6 DEF Held
<1>8. TypeOK'
  <2>1. threadID' \in [Renderer -> Nat]
    <3>1. id \in Nat
      BY <1>3, SizesAssumption DEF IsFreeList, IDs
    <3>. QED
      BY <1>4, <3>1
  <2>2. phase' \in [Renderer -> {"unborn", "live", "exhausted"}]
    BY <1>4
  <2>3. \A s \in Live' : threadID'[s] \in IDs(freeList)'
    BY <1>1, <1>3, <1>5, <1>6 DEF IInv, TypeOK
  <2>4. refused' \in BOOLEAN
    BY DEF Construct, IInv, TypeOK
  <2>. QED
    BY <1>3, <2>1, <2>2, <2>3, <2>4 DEF TypeOK
<1>9. LiveIDsDistinct'
  <2>1. \A s \in Live : threadID'[s] # id
    BY <1>3, <1>6 DEF Held
  <2>. QED
    BY <1>5, <1>6, <2>1 DEF IInv, LiveIDsDistinct
<1>10. FreeListIntact'
  BY <1>3, <1>7 DEF FreeListIntact, Held
<1>. QED
  BY <1>8, <1>9, <1>10 DEF IInv

\* A live renderer that leaves gives back an ID that nobody else holds.
LEMMA LeavePreserves ==
  ASSUME IInv, NEW r \in Live, NEW rest,
         phase' = [phase EXCEPT ![r] = rest], rest \in {"unborn", "exhausted"},
         freeList' = AfterFree(freeList, threadID[r]),
         threadID' \in [Renderer -> Nat],
         \A s \in Renderer \ {r} : threadID'[s] = threadID[s],
         refused' = refused
  PROVE  IInv'
PROOF
<1>. DEFINE id == threadID[r]
<1>1. /\ IsFreeList(freeList) /\ Intact(freeList, Held)
      /\ id \in Held /\ id \in IDs(freeList)
  BY DEF IInv, TypeOK, FreeListIntact, Held
<1>2. /\ IsFreeList(freeList') /\ Intact(freeList', Held \ {id})
      /\ freeList'.size = freeList.size
  BY <1>1, FreeToList
<1>3. r \in Renderer /\ phase \in [Renderer -> {"unborn", "live", "exhausted"}]
  BY DEF Live, IInv, TypeOK
<1>4. Live' = Live \ {r}
  BY <1>3 DEF Live
<1>5. \A s \in Live' : s \in Live /\ threadID'[s] = threadID[s] /\ threadID[s] # id
  BY <1>4 DEF IInv, LiveIDsDistinct, Live
<1>6. Held' = Held \ {id}
  BY <1>4, <1>5 DEF Held
<1>7. TypeOK'
  <2>1. phase' \in [Renderer -> {"unborn", "live", "exhausted"}]
    BY <1>3
  <2>2. \A s \in Live' : threadID'[s] \in IDs(freeList)'
    BY <1>2, <1>5 DEF IInv, TypeOK, IDs
  <2>. QED
    BY <1>2, <2>1, <2>2 DEF TypeOK, IInv
<1>8. LiveIDsDistinct'
  BY <1>5 DEF IInv, LiveIDsDistinct
<1>9. FreeListIntact'
  BY <1>2, <1>6 DEF FreeListIntact, Held
<1>. QED
  BY <1>7, <1>8, <1>9 DEF IInv

\* No operation of the allocator or of a renderer breaks the invariant.
LEMMA NextPreserves == IInv /\ [Next]_vars => IInv'
PROOF
<1>. SUFFICES ASSUME IInv, [Next]_vars PROVE IInv'
  OBVIOUS
<1>1. ASSUME NEW r \in Renderer, Construct(r) PROVE IInv'
  BY <1>1, ConstructPreserves
<1>2. ASSUME NEW r \in Renderer, ConstructThrows(r) PROVE IInv'
  BY <1>2 DEF ConstructThrows, IInv, TypeOK, LiveIDsDistinct, FreeListIntact, Live, IDs
<1>3. ASSUME NEW r \in Renderer, Exhaust(r) PROVE IInv'
  BY <1>3, LeavePreserves DEF Exhaust, Live, IInv, TypeOK
<1>4. ASSUME NEW r \in Renderer, Destroy(r) PROVE IInv'
  <2>1. threadID' \in [Renderer -> Nat] /\ \A s \in Renderer \ {r} : threadID'[s] = threadID[s]
    BY <1>4 DEF Destroy, IInv, TypeOK
  <2>2. CASE phase[r] = "live"
    BY <1>4, <2>1, <2>2, LeavePreserves DEF Destroy, Live
  <2>3. CASE phase[r] # "live"
    <3>1. /\ freeList' = freeList /\ phase' = [phase EXCEPT ![r] = "unborn"]
          /\ phase \in [Renderer -> {"unborn", "live", "exhausted"}]
      BY <1>4, <2>3 DEF Destroy, IInv, TypeOK
    <3>2. Live' = Live /\ \A s \in Live : threadID'[s] = threadID[s]
      BY <2>1, <2>3, <3>1 DEF Live
    <3>3. TypeOK'
      BY <1>4, <2>1, <3>1, <3>2 DEF Destroy, IInv, TypeOK, IDs
    <3>4. LiveIDsDistinct'
      BY <3>2 DEF IInv, LiveIDsDistinct
    <3>5. FreeListIntact'
      <4>1. { threadID'[s] : s \in Live' } = { threadID[s] : s \in Live }
        BY <3>2
      <4>. QED
        BY <3>1, <4>1 DEF IInv, FreeListIntact
    <3>. QED
      BY <3>3, <3>4, <3>5 DEF IInv
  <2>. QED
    BY <2>2, <2>3
<1>5. CASE UNCHANGED vars
  BY <1>5 DEF vars, IInv, TypeOK, LiveIDsDistinct, FreeListIntact, Live, IDs
<1>. QED
  BY <1>1, <1>2, <1>3, <1>4, <1>5 DEF Next

\* The inductive invariant: types, distinct IDs, and a chain of the free ones.
THEOREM Invariance == Spec => []IInv
PROOF
  BY InitEstablishes, NextPreserves, PTL DEF Spec

\* The allocator's array and the renderers' fields keep their types.
THEOREM TypeCorrect == Spec => []TypeOK
PROOF
<1>1. IInv => TypeOK
  BY DEF IInv
<1>. QED
  BY Invariance, <1>1, PTL

\* Two renderers that are rendering never share a thread ID.
THEOREM DistinctIDs == Spec => []LiveIDsDistinct
PROOF
<1>1. IInv => LiveIDsDistinct
  BY DEF IInv
<1>. QED
  BY Invariance, <1>1, PTL

\* Every free ID stays reachable from slot 0, once.
THEOREM NoIDLostOrDoubled == Spec => []FreeListIntact
PROOF
<1>1. IInv => FreeListIntact
  BY DEF IInv
<1>. QED
  BY Invariance, <1>1, PTL

-----------------------------------------------------------------------------
\* freeThreadID writes into the array and never replaces it.
LEMMA FreeKeepsSize ==
  ASSUME IInv, NEW r \in Live
  PROVE  AfterFree(freeList, threadID[r]).size = freeList.size
  BY DEF AfterFree

\* When slot 0 holds 0, allocThreadID has nothing left but to grow.
LEMMA EveryIDHeld ==
  ASSUME IInv, freeList.next[0] = 0
  PROVE  \A id \in IDs(freeList) : \E r \in Live : threadID[r] = id
PROOF
<1>1. IDs(freeList) \subseteq Held
  BY FullWhenEmpty DEF IInv, TypeOK, FreeListIntact, Held
<1>. QED
  BY <1>1 DEF Held

\* Memory grows, and a constructor is refused, only when every ID is in use.
THEOREM Compact == Spec => GrowsOnlyWhenFull
PROOF
<1>. DEFINE Full == \A id \in IDs(freeList) : \E r \in Live : threadID[r] = id
            Grows == freeList'.size # freeList.size \/ refused' # refused
<1>1. ASSUME IInv, [Next]_vars PROVE [Grows => Full]_vars
  <2>1. ASSUME NEW r \in Renderer, Construct(r), Grows PROVE Full
    <3>1. /\ IsFreeList(freeList) /\ Intact(freeList, Held)
      BY <1>1 DEF IInv, TypeOK, FreeListIntact, Held
    <3>2. freeList.next[0] = 0
      BY <2>1, <3>1, AllocFromList DEF Construct
    <3>. QED
      BY <1>1, <3>2, EveryIDHeld
  <2>2. ASSUME NEW r \in Renderer, ConstructThrows(r) PROVE Full
    BY <1>1, <2>2, EveryIDHeld DEF ConstructThrows, CanAlloc
  <2>3. ASSUME NEW r \in Renderer, Exhaust(r) PROVE ~Grows
    BY <1>1, <2>3, FreeKeepsSize DEF Exhaust, Live
  <2>4. ASSUME NEW r \in Renderer, Destroy(r) PROVE ~Grows
    BY <1>1, <2>4, FreeKeepsSize DEF Destroy, Live
  <2>. QED
    BY <1>1, <2>1, <2>2, <2>3, <2>4 DEF Next
<1>. QED
  BY <1>1, Invariance, PTL DEF Spec, GrowsOnlyWhenFull

\* The refinement mapping, as an operator of its own.
Owned == [r \in Renderer |-> IF phase[r] = "live" THEN threadID[r] ELSE 0]

\* What a renderer owns in the pool, in terms of its phase and its field.
LEMMA OwnedFacts ==
  ASSUME IInv
  PROVE  /\ \A r \in Renderer : r \in Live => Owned[r] = threadID[r] /\ Owned[r] # 0
         /\ \A r \in Renderer : r \notin Live => Owned[r] = 0
         /\ Pool!Free = IDs(freeList) \ Held
PROOF
<1>1. \A r \in Renderer : r \in Live => Owned[r] = threadID[r] /\ Owned[r] # 0
  BY DEF IInv, TypeOK, Owned, Live, IDs
<1>2. \A r \in Renderer : r \notin Live => Owned[r] = 0
  BY DEF Owned, Live
<1>3. Pool!Free = { id \in IDs(freeList) : \A r \in Renderer : Owned[r] # id }
  BY DEF Pool!Free, IDs, Owned
<1>4. \A id \in IDs(freeList) : (\A r \in Renderer : Owned[r] # id) <=> id \notin Held
  <2>1. \A id \in IDs(freeList) : id # 0
    BY DEF IDs
  <2>. QED
    BY <1>1, <1>2, <2>1 DEF Held, Live
<1>. QED
  BY <1>1, <1>2, <1>3, <1>4

\* Every step of the allocator is one step of the pool, or none.
LEMMA StepImplementsPool ==
  ASSUME IInv, [Next]_vars
  PROVE  [Pool!Next]_Pool!vars
PROOF
<1>0. /\ Pool!vars = <<freeList.size, Owned, refused>>
      /\ Pool!vars' = <<freeList'.size, Owned', refused'>>
  BY DEF Pool!vars, Owned
<1>1. ASSUME NEW r \in Renderer, Construct(r) PROVE Pool!Acquire(r)
  <2>1. /\ IsFreeList(freeList) /\ Intact(freeList, Held)
        /\ CanAlloc(freeList) /\ Held \subseteq IDs(freeList)
    BY <1>1 DEF IInv, TypeOK, FreeListIntact, Held, Construct
  <2>2. r \notin Live /\ Owned[r] = 0
    BY <1>1, OwnedFacts DEF Construct, Live
  <2>3. Owned' = [Owned EXCEPT ![r] = AllocatedID(freeList)]
    <3>1. /\ phase' = [phase EXCEPT ![r] = "live"]
          /\ threadID' = [threadID EXCEPT ![r] = AllocatedID(freeList)]
          /\ phase \in [Renderer -> {"unborn", "live", "exhausted"}]
          /\ threadID \in [Renderer -> Nat]
      BY <1>1 DEF Construct, IInv, TypeOK
    <3>. QED
      BY <3>1 DEF Owned
  <2>4. CASE freeList.next[0] # 0
    <3>1. /\ AllocatedID(freeList) \in Pool!Free
          /\ freeList'.size = freeList.size
      BY <1>1, <2>1, <2>4, AllocFromList, OwnedFacts DEF Construct
    <3>. QED
      BY <1>1, <2>2, <2>3, <3>1 DEF Pool!Acquire, Construct, Owned
  <2>5. CASE freeList.next[0] = 0
    <3>1. CanGrow(freeList)
      BY <2>1, <2>5 DEF CanAlloc
    <3>2. /\ AllocatedID(freeList) = freeList.size
          /\ freeList'.size = 2 * freeList.size
          /\ IDs(freeList) \subseteq Held
      BY <1>1, <2>1, <2>5, <3>1, AllocGrows DEF Construct
    <3>3. Pool!Free = {} /\ 2 * freeList.size <= MaxSize
      BY <3>1, <3>2, OwnedFacts DEF CanGrow
    <3>. QED
      BY <1>1, <2>2, <2>3, <3>2, <3>3 DEF Pool!Acquire, Construct, Owned
  <2>. QED
    BY <2>4, <2>5
<1>2. ASSUME NEW r \in Renderer, ConstructThrows(r) PROVE Pool!Refuse(r)
  <2>1. freeList.next[0] = 0 /\ ~CanGrow(freeList) /\ r \notin Live
    BY <1>2 DEF ConstructThrows, CanAlloc, Live
  <2>2. Pool!Free = {}
    BY <2>1, EveryIDHeld, OwnedFacts DEF Held
  <2>3. 2 * freeList.size > MaxSize
    BY <2>1, SizesAssumption DEF CanGrow, IInv, TypeOK, IsFreeList
  <2>4. Owned[r] = 0 /\ Owned' = Owned
    BY <1>2, <2>1, OwnedFacts DEF ConstructThrows, Owned
  <2>. QED
    BY <1>2, <2>2, <2>3, <2>4 DEF Pool!Refuse, ConstructThrows, Owned
<1>3. ASSUME NEW r \in Live, freeList' = AfterFree(freeList, threadID[r]),
             Owned' = [Owned EXCEPT ![r] = 0], refused' = refused
      PROVE  Pool!Release(r)
  <2>1. freeList'.size = freeList.size /\ Owned[r] # 0
    BY <1>3, FreeKeepsSize, OwnedFacts DEF Live
  <2>. QED
    BY <1>3, <2>1 DEF Pool!Release, Owned
<1>4. phase \in [Renderer -> {"unborn", "live", "exhausted"}] /\ threadID \in [Renderer -> Nat]
  BY DEF IInv, TypeOK
<1>5. ASSUME NEW r \in Renderer, Exhaust(r) PROVE Pool!Release(r)
  <2>1. Owned' = [Owned EXCEPT ![r] = 0]
    BY <1>4, <1>5 DEF Exhaust, Owned
  <2>. QED
    BY <1>3, <1>5, <2>1 DEF Exhaust, Live
<1>6. ASSUME NEW r \in Renderer, Destroy(r)
      PROVE  Pool!Release(r) \/ UNCHANGED Pool!vars
  <2>1. Owned' = [Owned EXCEPT ![r] = 0]
    BY <1>4, <1>6 DEF Destroy, Owned
  <2>2. CASE phase[r] = "live"
    BY <1>3, <1>6, <2>1, <2>2 DEF Destroy, Live
  <2>3. CASE phase[r] # "live"
    <3>1. Owned' = Owned
      BY <2>1, <2>3 DEF Owned
    <3>. QED
      BY <1>0, <1>6, <2>3, <3>1 DEF Destroy
  <2>. QED
    BY <2>2, <2>3
<1>7. CASE UNCHANGED vars
  BY <1>0, <1>7 DEF vars, Owned
<1>8. ASSUME NEW r \in Renderer, Construct(r) \/ ConstructThrows(r) \/ Exhaust(r)
      PROVE  Pool!Next
  BY <1>1, <1>2, <1>5, <1>8 DEF Pool!Next
<1>9. ASSUME NEW r \in Renderer, Destroy(r) PROVE [Pool!Next]_Pool!vars
  BY <1>6, <1>9 DEF Pool!Next
<1>. QED
  BY <1>7, <1>8, <1>9 DEF Next

\* The array of the source implements the abstract pool of IDs.
THEOREM AllocatorImplementsPool == Spec => ImplementsPool
PROOF
<1>1. Init => Pool!Init
  <2>. SUFFICES ASSUME Init PROVE Pool!Init
    OBVIOUS
  <2>1. freeList.size = InitialSize /\ refused = FALSE
    BY DEF Init, InitialList
  <2>2. Owned = [r \in Renderer |-> 0]
    BY DEF Init, Owned
  <2>. QED
    BY <2>1, <2>2 DEF Pool!Init, Owned
<1>2. IInv /\ [Next]_vars => [Pool!Next]_Pool!vars
  BY StepImplementsPool
<1>. QED
  BY <1>1, <1>2, Invariance, PTL DEF Spec, ImplementsPool, Pool!Spec
=============================================================================
