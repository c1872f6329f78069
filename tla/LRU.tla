--------------------------------- MODULE LRU ---------------------------------
(***************************************************************************)
(* createLRU of react-cache: a circular, doubly linked list that starts    *)
(* with the entry used last.  Entries beyond the limit are deleted in a    *)
(* callback at idle priority, which an access schedules.                   *)
(***************************************************************************)
EXTENDS Integers, SequencesExt

CONSTANTS
  Entry,     \* the objects that can be entries
  Limits,    \* what the limit may be set to
  None

ASSUME LRUAssumption == Limits \subseteq Nat /\ None \notin Entry

VARIABLES
  list,                 \* first, size and the entries' links
  limit,
  cleanUpIsScheduled,
  cleanUps,             \* how many clean-up callbacks Scheduler has
  unread                \* history: the entries that were not accessed since they were added

lruVars == <<list, limit, cleanUpIsScheduled, cleanUps, unread>>

LRUInit ==
  /\ list = [ first |-> None, size |-> 0, next |-> [e \in Entry |-> None],
              previous |-> [e \in Entry |-> None] ]
  /\ limit \in Limits
  /\ cleanUpIsScheduled = FALSE /\ cleanUps = 0
  /\ unread = {}

OnList(l) == { e \in Entry : l.next[e] # None }
LastOf(l) == l.previous[l.first]

\* An entry that is on no list is put between the last and the first one.
LinkedFirst(l, e) ==
  IF l.first = None
    THEN [l EXCEPT !.first = e, !.next[e] = e, !.previous[e] = e]
  ELSE [l EXCEPT !.first = e, !.next = [@ EXCEPT ![LastOf(l)] = e, ![e] = l.first],
                 !.previous = [@ EXCEPT ![l.first] = e, ![e] = LastOf(l)]]

\* Mutant: the links to the previous entries are not changed.
UnlinkedOneWay(l, e) == [l EXCEPT !.next[l.previous[e]] = l.next[e]]

Unlinked(l, e) ==
  [l EXCEPT !.next[l.previous[e]] = l.next[e], !.previous[l.next[e]] = l.previous[e]]

\* add
Added(l, e) == [LinkedFirst(l, e) EXCEPT !.size = @ + 1]

\* Mutant: the entry stays where it is.
AccessedInPlace(l, e) == l

\* access moves the entry to the front, unless it is there or was deleted.
Accessed(l, e) ==
  IF l.next[e] = None \/ l.first = e THEN l ELSE LinkedFirst(Unlinked(l, e), e)

\* Which entry of a list is to be deleted, if any.
Oldest(l) == IF l.first = None THEN None ELSE LastOf(l)

\* One round of deleteLeastRecentlyUsedEntries.
Without(l, e) ==
  LET others == IF e = l.first THEN [l EXCEPT !.first = None] ELSE Unlinked(l, e)
  IN  [others EXCEPT !.size = @ - 1, !.next[e] = None, !.previous[e] = None]

List == [ first : Entry \cup {None}, size : Nat, next : [Entry -> Entry \cup {None}],
          previous : [Entry -> Entry \cup {None}] ]

\* deleteLeastRecentlyUsedEntries
Trimmed(from, targetSize) ==
  LET trim[l \in List] ==
        IF l.size > targetSize /\ Oldest(l) # None THEN trim[Without(l, Oldest(l))] ELSE l
  IN  trim[from]

\* Mutant: the clean-up waits for one entry more.
TooManyByTwo(size, max) == size > max + 1

TooMany(size, max) == size > max

\* scheduleCleanUp, for a cache of this size.
ScheduleCleanUp(size, max) ==
  IF ~cleanUpIsScheduled /\ TooMany(size, max)
    THEN cleanUpIsScheduled' = TRUE /\ cleanUps' = cleanUps + 1
    ELSE UNCHANGED <<cleanUpIsScheduled, cleanUps>>

Add(e) ==
  /\ list' = Added(list, e)
  /\ unread' = unread \cup {e}
  /\ UNCHANGED <<limit, cleanUpIsScheduled, cleanUps>>

Access(e) ==
  /\ list' = Accessed(list, e)
  /\ unread' = unread \ {e}
  /\ ScheduleCleanUp(list.size, limit)
  /\ UNCHANGED limit

\* Mutant: the clean-up is taken for scheduled ever after.
FlagStays == UNCHANGED cleanUpIsScheduled

FlagReset == cleanUpIsScheduled' = FALSE

\* Scheduler calls cleanUp.
CleanUp ==
  /\ cleanUps > 0
  /\ cleanUps' = cleanUps - 1
  /\ FlagReset
  /\ list' = Trimmed(list, limit)
  /\ unread' = unread \cap OnList(list')
  /\ UNCHANGED limit

SetLimit(newLimit) ==
  /\ limit' = newLimit
  /\ ScheduleCleanUp(list.size, newLimit)
  /\ UNCHANGED <<list, unread>>
-----------------------------------------------------------------------------
\* The entries of a list, from the first one on.
FromFirst(l) ==
  LET from[i \in 1 .. l.size] == IF i = 1 THEN l.first ELSE l.next[from[i - 1]]
  IN  from

Listed == FromFirst(list)

\* The links in both directions are those of one circle of `size' entries.
Circular ==
  /\ (list.first = None) = (list.size = 0)
  /\ IsInjective(Listed) /\ Range(Listed) \subseteq Entry
  /\ \A e \in Range(Listed) : list.previous[list.next[e]] = e /\ list.next[list.previous[e]] = e
  /\ \A e \in Entry \ Range(Listed) : list.next[e] = None /\ list.previous[e] = None

\* As many as exceed the limit.
Excess == { Listed[i] : i \in 1 .. list.size - limit }
=============================================================================
