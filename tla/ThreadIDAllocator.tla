------------------------- MODULE ThreadIDAllocator -------------------------
(***************************************************************************)
(* ReactThreadIDAllocator.js as its synchronous clients use it: a          *)
(* ReactDOMServerRenderer takes an ID in its constructor and gives it back *)
(* when read() empties its stack or when it is destroyed before that.  Its *)
(* field `threadID' keeps the number after the ID was given back, so only  *)
(* the `exhausted' flag stands between a renderer and a double free.       *)
(***************************************************************************)
EXTENDS ThreadIDFreeList

CONSTANT Renderer   \* the renderers that may exist at one time

VARIABLES
  freeList,    \* nextAvailableThreadIDs
  phase,       \* of each renderer: "unborn", "live" or "exhausted"
  threadID,    \* its field threadID (stale once exhausted), 0 if unborn
  refused      \* has allocThreadID thrown?

vars == <<freeList, phase, threadID, refused>>

Init ==
  /\ freeList = InitialList
  /\ phase = [r \in Renderer |-> "unborn"]
  /\ threadID = [r \in Renderer |-> 0]
  /\ refused = FALSE

Construct(r) ==
  /\ phase[r] = "unborn"
  /\ CanAlloc(freeList)
  /\ threadID' = [threadID EXCEPT ![r] = AllocatedID(freeList)]
  /\ freeList' = AfterAlloc(freeList)
  /\ phase' = [phase EXCEPT ![r] = "live"]
  /\ UNCHANGED refused

\* The invariant of growThreadCountAndReturnNextAvailable throws out of the
\* constructor: there is no renderer, and the array is left as it was.
ConstructThrows(r) ==
  /\ phase[r] = "unborn"
  /\ ~CanAlloc(freeList)
  /\ refused' = TRUE
  /\ UNCHANGED <<freeList, phase, threadID>>

\* read() finds its stack empty.
Exhaust(r) ==
  /\ phase[r] = "live"
  /\ phase' = [phase EXCEPT ![r] = "exhausted"]
  /\ freeList' = AfterFree(freeList, threadID[r])
  /\ UNCHANGED <<threadID, refused>>

\* Mutant: destroy() does not look at `exhausted'.
DestroyUnguarded(r) ==
  /\ phase[r] # "unborn"
  /\ freeList' = AfterFree(freeList, threadID[r])
  /\ phase' = [phase EXCEPT ![r] = "unborn"]
  /\ threadID' = [threadID EXCEPT ![r] = 0]
  /\ UNCHANGED refused

\* destroy(), after which the wrapper drops the renderer.
Destroy(r) ==
  /\ phase[r] # "unborn"
  /\ freeList' = IF phase[r] = "live" THEN AfterFree(freeList, threadID[r])
                                      ELSE freeList
  /\ phase' = [phase EXCEPT ![r] = "unborn"]
  /\ threadID' = [threadID EXCEPT ![r] = 0]
  /\ UNCHANGED refused

Next == \E r \in Renderer :
          Construct(r) \/ ConstructThrows(r) \/ Exhaust(r) \/ Destroy(r)

Spec == Init /\ [][Next]_vars
-----------------------------------------------------------------------------
Live == { r \in Renderer : phase[r] = "live" }

\* The array maps 0 and the IDs to 0 and the IDs, its length stays within the
\* limit, and a live renderer's ID indexes it.
TypeOK ==
  /\ IsFreeList(freeList)
  /\ phase \in [Renderer -> {"unborn", "live", "exhausted"}]
  /\ threadID \in [Renderer -> Nat]
  /\ \A r \in Live : threadID[r] \in IDs(freeList)
  /\ refused \in BOOLEAN

\* Two renderers that are both rendering never share an ID: context values are
\* stored per ID, so sharing one would mix the contexts of two requests.
LiveIDsDistinct ==
  \A r, s \in Live : threadID[r] = threadID[s] => r = s

\* Following the array from slot 0 meets every free ID once and then ends: no
\* sequence of constructions, completed reads and destroys loses an ID, frees
\* one twice or ties the list into a cycle.
FreeListIntact == Intact(freeList, { threadID[r] : r \in Live })

\* The array doubles, and a constructor is refused, only when every ID is in
\* use: freed IDs are always found again before memory grows.
GrowsOnlyWhenFull ==
  [][ (freeList'.size # freeList.size \/ refused' # refused) =>
        \A id \in IDs(freeList) : \E r \in Live : threadID[r] = id ]_vars

Pool == INSTANCE ThreadIDPool
          WITH capacity <- freeList.size,
               owned <- [r \in Renderer |->
                           IF phase[r] = "live" THEN threadID[r] ELSE 0]

\* The allocator and its clients implement the pool: an ID is owned exactly
\* from a renderer's construction to its exhaustion or its destruction.
ImplementsPool == Pool!Spec
=============================================================================
