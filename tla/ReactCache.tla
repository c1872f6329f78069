----------------------------- MODULE ReactCache -----------------------------
(***************************************************************************)
(* Resources of react-cache and the components that read them while they   *)
(* render.  A key that is not cached is fetched and the component suspends *)
(* until the fetch is settled; then it renders again, from its first read. *)
(***************************************************************************)
EXTENDS LRU

CONSTANTS
  Resource,     \* [Key -> the resource that it is a key of]
  Objects,      \* [Key -> SUBSET Entry]: the objects that its entries can be
  Reader,       \* the components
  Reads,        \* [Reader -> Seq(Key)]: what each reads, in order
  Preloading,   \* the components that preload all of it first
  MaxSurprises  \* how often something happens that need not: a component renders
                \* again, the limit changes, a fetch fails, or calls back again

Key == DOMAIN Resource

ASSUME ReactCacheAssumption ==
  /\ Objects \in [Key -> SUBSET Entry]
  /\ \A j, k \in Key : j # k => Objects[j] \cap Objects[k] = {}
  /\ Reads \in [Reader -> Seq(Key)] /\ \A r \in Reader : Reads[r] # <<>>
  /\ Preloading \subseteq Reader
  /\ MaxSurprises \in Nat

VARIABLES
  entries,     \* the map of each resource that has one: from its keys to entries
  result,      \* [Entry -> the status of its result, which has a value with it]
  settled,     \* [Entry -> whether its thenable has called back]
  reader,      \* [Reader -> what it is doing]
  surprises

cacheVars == <<entries, result, settled, reader, surprises>>
vars == <<lruVars, cacheVars>>

Statuses == {"Pending", "Resolved", "Rejected"}

\* A reader is at its i-th call of preload or read, or is suspended by an entry's
\* thenable, or its render has ended.
Calls(r) == (IF r \in Preloading THEN [i \in DOMAIN Reads[r] |-> <<"preload", Reads[r][i]>>] ELSE <<>>)
              \o [i \in DOMAIN Reads[r] |-> <<"read", Reads[r][i]>>]
Idle         == [at |-> "idle", i |-> 1, on |-> None]
Calling(i)   == [at |-> "rendering", i |-> i, on |-> None]
Suspended(e) == [at |-> "suspended", i |-> 1, on |-> e]
Ended(how)   == [at |-> how, i |-> 1, on |-> None]

Init ==
  /\ LRUInit
  /\ entries = [a \in {} |-> <<>>]
  /\ result = [e \in Entry |-> "Resolved"]
  /\ settled = [e \in Entry |-> TRUE]
  /\ reader = [r \in Reader |-> Idle]
  /\ surprises = 0

MapOf(a) == IF a \in DOMAIN entries THEN entries[a] ELSE [k \in {} |-> None]
Cached(k) == k \in DOMAIN MapOf(Resource[k])
EntryOf(k) == entries[Resource[k]][k]

\* Map.prototype.set
Put(map, key, value) == [k \in DOMAIN map \cup {key} |-> IF k = key THEN value ELSE map[k]]

\* An object for a new entry: none of those that something still refers to.
Used == OnList(list) \cup { reader[r].on : r \in Reader } \cup { e \in Entry : ~settled[e] }
NewEntry(k) == CHOOSE e \in Objects[k] : e \notin Used

\* Mutant: the other keys of the resources go, too.
WithoutResources(maps, keys) == Restrict(maps, DOMAIN maps \ { Resource[k] : k \in keys })

\* deleteEntry, of some keys: a resource goes with its last one.
WithoutKeys(maps, keys) ==
  LET emptied == { a \in DOMAIN maps : DOMAIN maps[a] \cap keys # {} /\ DOMAIN maps[a] \subseteq keys }
  IN  [a \in DOMAIN maps \ emptied |-> Restrict(maps[a], DOMAIN maps[a] \ keys)]

\* The keys whose onDelete is called.
KeysOf(deleted) == { k \in Key : Cached(k) /\ EntryOf(k) \in deleted }
-----------------------------------------------------------------------------
Rendering == { r \in Reader : reader[r].at = "rendering" }

\* Bound: a component does not render when too many fetches of a key are pending.
Bounded(r) == \A k \in Range(Reads[r]) : ~(Objects[k] \subseteq Used)

\* A component renders, or renders again: when what suspended it is settled or,
\* sometimes, after it has ended.
Render(r) ==
  /\ Rendering = {} /\ Bounded(r)
  /\ \/ reader[r].at = "idle"
     \/ reader[r].at = "suspended" /\ settled[reader[r].on]
  /\ reader' = [reader EXCEPT ![r] = Calling(1)]
  /\ UNCHANGED <<lruVars, entries, result, settled, surprises>>

Update(r) ==
  /\ Rendering = {} /\ surprises < MaxSurprises /\ Bounded(r)
  /\ reader[r].at \in {"done", "failed"}
  /\ reader' = [reader EXCEPT ![r] = Calling(1)]
  /\ surprises' = surprises + 1
  /\ UNCHANGED <<lruVars, entries, result, settled>>

\* What a component makes of the result of its call, or throws.
Continued(r, call, status, e) ==
  LET i == reader[r].i
  IN  IF call = "preload" THEN Calling(i + 1)
      ELSE CASE status = "Pending"  -> Suspended(e)
             [] status = "Rejected" -> Ended("failed")
             [] status = "Resolved" -> IF i = Len(Calls(r)) THEN Ended("done") ELSE Calling(i + 1)

\* accessResult, of a key that is cached ...
Hit(r) ==
  /\ reader[r].at = "rendering"
  /\ LET call == Calls(r)[reader[r].i]
         e    == EntryOf(call[2])
     IN  /\ Cached(call[2])
         /\ Access(e)
         /\ reader' = [reader EXCEPT ![r] = Continued(r, call[1], result[e], e)]
  /\ UNCHANGED <<entries, result, settled, surprises>>

\* ... and of one that is not.
Miss(r) ==
  /\ reader[r].at = "rendering"
  /\ LET call == Calls(r)[reader[r].i]
         k    == call[2]
         e    == NewEntry(k)
     IN  /\ ~Cached(k)
         /\ result' = [result EXCEPT ![e] = "Pending"]
         /\ settled' = [settled EXCEPT ![e] = FALSE]
         /\ Add(e)
         /\ entries' = Put(entries, Resource[k], Put(MapOf(Resource[k]), k, e))
         /\ reader' = [reader EXCEPT ![r] = Continued(r, call[1], "Pending", e)]
  /\ UNCHANGED surprises

\* The call of fetch throws; the resource's map has been made by then.
FetchThrows(r) ==
  /\ reader[r].at = "rendering" /\ surprises < MaxSurprises
  /\ LET k == Calls(r)[reader[r].i][2]
     IN  /\ ~Cached(k)
         /\ entries' = Put(entries, Resource[k], MapOf(Resource[k]))
  /\ reader' = [reader EXCEPT ![r] = Ended("failed")]
  /\ surprises' = surprises + 1
  /\ UNCHANGED <<lruVars, result, settled>>

\* Mutants: the last call counts; the check is the wrong way round.
StatusOfLast(old, new) == new
StatusIfSettled(old, new) == IF old = "Pending" THEN old ELSE new

\* A result that is no longer pending stays.
StatusOfFirst(old, new) == IF old = "Pending" THEN new ELSE old

CalledBack(e, status) ==
  /\ Rendering = {}
  /\ result' = [result EXCEPT ![e] = StatusOfFirst(@, status)]
  /\ UNCHANGED <<lruVars, entries, reader>>

\* A thenable calls back, whether its entry has been deleted or not.
Resolve(e) ==
  /\ ~settled[e]
  /\ settled' = [settled EXCEPT ![e] = TRUE]
  /\ CalledBack(e, "Resolved")
  /\ UNCHANGED surprises

Reject(e) ==
  /\ ~settled[e] /\ surprises < MaxSurprises
  /\ settled' = [settled EXCEPT ![e] = TRUE]
  /\ surprises' = surprises + 1
  /\ CalledBack(e, "Rejected")

\* It does so again, with the other outcome.
CallBackAgain(e) ==
  /\ settled[e] /\ e \in OnList(list) /\ surprises < MaxSurprises
  /\ surprises' = surprises + 1
  /\ CalledBack(e, IF result[e] = "Resolved" THEN "Rejected" ELSE "Resolved")
  /\ UNCHANGED settled

\* The scheduled callback calls onDelete of every entry that it deletes.
RunCleanUp ==
  /\ Rendering = {}
  /\ CleanUp
  /\ entries' = WithoutKeys(entries, KeysOf(OnList(list) \ OnList(list')))
  /\ UNCHANGED <<result, settled, reader, surprises>>

\* unstable_setGlobalCacheLimit
SetGlobalCacheLimit(newLimit) ==
  /\ Rendering = {} /\ surprises < MaxSurprises
  /\ SetLimit(newLimit)
  /\ surprises' = surprises + 1
  /\ UNCHANGED <<entries, result, settled, reader>>
-----------------------------------------------------------------------------
Next ==
  \/ \E r \in Reader : Render(r) \/ Update(r) \/ Hit(r) \/ Miss(r) \/ FetchThrows(r)
  \/ \E e \in Entry : Resolve(e) \/ Reject(e) \/ CallBackAgain(e)
  \/ RunCleanUp
  \/ \E n \in Limits : SetGlobalCacheLimit(n)

\* Renders go on, suspended components are retried, fetches are settled and idle
\* callbacks run in the end.
Fairness ==
  /\ WF_vars(\E r \in Reader : Render(r) \/ Hit(r) \/ Miss(r))
  /\ WF_vars(\E e \in Entry : Resolve(e) \/ Reject(e))
  /\ WF_vars(RunCleanUp)

Spec == Init /\ [][Next]_vars /\ Fairness
-----------------------------------------------------------------------------
TypeOK ==
  /\ Circular
  /\ limit \in Limits /\ cleanUps = (IF cleanUpIsScheduled THEN 1 ELSE 0)
  /\ unread \subseteq OnList(list)
  /\ DOMAIN entries \subseteq Range(Resource)
  /\ \A a \in DOMAIN entries : \A k \in DOMAIN entries[a] :
       Resource[k] = a /\ entries[a][k] \in Entry
  /\ \A e \in Entry : result[e] \in Statuses /\ settled[e] \in BOOLEAN
  /\ \A r \in Reader : reader[r].on \in Entry \cup {None}

\* The maps and the list have the same entries, each under one key: what is
\* evicted is fetched again and what is cached can be evicted.
CachedIsListed ==
  LET cached == { k \in Key : Cached(k) }
  IN  /\ { EntryOf(k) : k \in cached } = OnList(list)
      /\ \A j, k \in cached : EntryOf(j) = EntryOf(k) => j = k

\* The result that a component has seen is not changed by a thenable that calls
\* back again (ReactCache-test: "if a thenable resolves multiple times, does not
\* update the first cached value").
ResultsStay ==
  [][\A e \in OnList(list) : result[e] # "Pending" => result'[e] = result[e]]_vars

\* The list keeps the entries in the order of their last use and gives up the
\* ones used least recently.
Recency == INSTANCE RecentlyUsed WITH recent <- Listed
ImplementsRecentlyUsed == Recency!Spec

\* "The cache size exceeds the limit.  Schedule a callback to delete the least
\* recently used entries": again and again the only entries that are too many are
\* ones that were added since the last access and not read yet.
EventuallyTrimmed == []<>(Excess \subseteq unread)

\* Components are shown or fail in the end, although entries were deleted while
\* they waited, once there is room for what they all read.  (With less they may
\* go on to evict each other's entries.)
EveryReaderSettles ==
  <>[](limit >= Cardinality(Key)) => <>[](\A r \in Reader : reader[r].at \in {"done", "failed"})
=============================================================================
