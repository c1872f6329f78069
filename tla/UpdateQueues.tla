---------------------------- MODULE UpdateQueues ----------------------------
(***************************************************************************)
(* The queues of state updates: ReactUpdateQueue's, which a class component*)
(* and the host root have in pairs, one for each of their fibers, and the  *)
(* one of a useState hook, which both fibers share.  Updates are linked by *)
(* `next'; the lists of a pair end in the same updates.                    *)
(***************************************************************************)
EXTENDS ExpirationTimes, SequencesExt

CONSTANTS
  Update,         \* the updates that components make
  Noops,          \* those that leave the state as it is
  Replacing,      \* those that replace the state instead of adding to it
  WithCallback,   \* those that bring a callback
  None

ASSUME UpdateAssumption ==
  /\ Noops \cup Replacing \cup WithCallback \subseteq Update
  /\ Noops \cap Replacing = {} /\ None \notin Update

VARIABLES
  level,     \* [Update -> expirationTime], NotMade before it is made
  next,      \* [Update -> Update or None]
  called,    \* how often each update's callback was called
  eager      \* of a hook's update: <<>>, or the state computed when it was made

NotMade == -1
MadeUpdates == { u \in Update : level[u] # NotMade }

\* A state is told by the updates it is the result of.
Applied(state, u) ==
  CASE u \in Noops     -> state
    [] u \in Replacing -> <<u>>
    [] OTHER           -> Append(state, u)

\* The loops over updates: some of them are applied ...
AppliedSome(state, updates, some) ==
  LET after[i \in 0 .. Len(updates)] ==
        IF i = 0 THEN state
        ELSE IF updates[i] \in some THEN Applied(after[i - 1], updates[i]) ELSE after[i - 1]
  IN  after[Len(updates)]
AppliedAll(state, updates) == AppliedSome(state, updates, Range(updates))

\* ... or put on a list, in their order.
Those(list, some) ==
  LET after[i \in 0 .. Len(list)] ==
        IF i = 0 THEN <<>>
        ELSE IF list[i] \in some THEN Append(after[i - 1], list[i]) ELSE after[i - 1]
  IN  after[Len(list)]

Sufficient(u, render) == level[u] >= render

\* How many updates at the front are done with: all before the first skipped one.
Settled(updates, render) ==
  LET skipped == { i \in DOMAIN updates : ~Sufficient(updates[i], render) }
  IN  IF skipped = {} THEN Len(updates) ELSE Min(skipped) - 1

\* The most urgent of the updates that are skipped.
Remaining(updates, render) ==
  Max({NoWork} \cup { level[u] : u \in { v \in Range(updates) : ~Sufficient(v, render) } })
-----------------------------------------------------------------------------
NewQueue(state) == [base |-> state, first |-> None, last |-> None, effects |-> <<>>]

\* cloneUpdateQueue
CloneOf(queue) == [queue EXCEPT !.effects = <<>>]

\* appendUpdateToQueue, of the queue and of the list.
WithUpdate(queue, u) ==
  [queue EXCEPT !.first = IF queue.last = None THEN u ELSE @, !.last = u]
Linked(links, queue, u) ==
  IF queue.last = None THEN links ELSE [links EXCEPT ![queue.last] = u]

\* The updates from `first' on, in the order in which they were made: the links
\* end with the last one or lead back to the first.
Listed(links, first) ==
  LET bound == Cardinality(MadeUpdates)
      follow[u \in Update \cup {None}] == IF u = None THEN None ELSE links[u]
      after[i \in 0 .. bound] == IF i = 0 THEN first ELSE follow[after[i - 1]]
      length == CHOOSE i \in 1 .. bound :
                  after[i] \in {None, first} /\ \A j \in 1 .. i - 1 : after[j] \notin {None, first}
  IN  IF first = None THEN <<>> ELSE [i \in 1 .. length |-> after[i - 1]]

\* The updates that are not skipped.
Due(updates, render) == { u \in Range(updates) : Sufficient(u, render) }

\* Mutant: the base state has the updates that come after a skipped one.
NewBaseOfAll(base, updates, render) ==
  AppliedSome(base, updates, Due(updates, render))

\* The state before the first update that is skipped.
NewBase(base, updates, render) ==
  AppliedSome(base, updates, Range(SubSeq(updates, 1, Settled(updates, render))))

\* Mutant: the callbacks of skipped updates, too.
CallbacksOfAll(updates, render) ==
  Those(updates, { u \in WithCallback : called[u] = 0 })

\* The updates that are applied and whose callbacks have not been called.
CallbacksIn(updates, render) ==
  Those(updates, { u \in Due(updates, render) \cap WithCallback : called[u] = 0 })

\* processUpdateQueue: the updates of sufficient priority are applied in order;
\* from the first that is skipped all of them stay, to be applied once more.
Processed(queue, render) ==
  LET processed[updates \in Seq(Update)] ==
        LET due     == Due(updates, render)
            settled == Settled(updates, render)
            all     == settled = Len(updates)
        IN  [ queue |-> [ base    |-> NewBase(queue.base, updates, render),
                          first   |-> IF all THEN None ELSE updates[settled + 1],
                          last    |-> IF all THEN None ELSE queue.last,
                          effects |-> queue.effects \o CallbacksIn(updates, render) ],
              state |-> AppliedSome(queue.base, updates, due),
              remaining |-> Remaining(updates, render), changed |-> due \ Noops # {} ]
  IN  processed[Listed(next, queue.first)]
-----------------------------------------------------------------------------
\* The queue of a hook: its last update and the state that was rendered last.
NewHookQueue == [last |-> None, rendered |-> <<>>]

\* dispatchAction: the list is a circle until its first update is committed.
HookLinked(links, queue, u) ==
  IF queue.last = None THEN [links EXCEPT ![u] = u]
  ELSE [links EXCEPT ![u] = links[queue.last], ![queue.last] = u]

\* updateReducer opens the circle once there is a base update.
HookOpened(links, queue, baseUpdate) ==
  IF baseUpdate = None \/ queue.last = None THEN links
  ELSE [links EXCEPT ![queue.last] = None]

\* The update after baseUpdate, or the first of the circle if there is none.
HookFirst(links, queue, baseUpdate) ==
  IF baseUpdate # None THEN links[baseUpdate]
  ELSE IF queue.last = None THEN None ELSE links[queue.last]

\* A state that was computed eagerly is not computed again.
HookApplied(state, u) == IF eager[u] # <<>> THEN eager[u][1] ELSE Applied(state, u)
HookAppliedSome(state, updates, some) ==
  LET after[i \in 0 .. Len(updates)] ==
        IF i = 0 THEN state
        ELSE IF updates[i] \in some THEN HookApplied(after[i - 1], updates[i]) ELSE after[i - 1]
  IN  after[Len(updates)]

\* updateReducer, on the base that the current fiber's hook has.
HookProcessed(queue, base, baseUpdate, render) ==
  LET links == HookOpened(next, queue, baseUpdate)
      processed[updates \in Seq(Update)] ==
        LET settled == Settled(updates, render)
        IN  [ base       |-> HookAppliedSome(base, updates, Range(SubSeq(updates, 1, settled))),
              baseUpdate |-> IF settled = 0 THEN baseUpdate ELSE updates[settled],
              state      |-> HookAppliedSome(base, updates, Due(updates, render)),
              remaining  |-> Remaining(updates, render),
              empty      |-> updates = <<>> ]
  IN  processed[Listed(links, HookFirst(links, queue, baseUpdate))]
=============================================================================
