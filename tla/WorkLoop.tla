------------------------------ MODULE WorkLoop ------------------------------
(***************************************************************************)
(* Updates of a root in concurrent mode, from the event that makes them    *)
(* until they are committed.  JavaScript runs one task at a time; `stack'  *)
(* is what the running one has on its call stack, innermost first, and     *)
(* only when it is empty does Scheduler start a task or an event happen.   *)
(***************************************************************************)
EXTENDS FiberTree

CONSTANTS
  Target,     \* [Update -> Node]: whose state it is that an update changes
  Event,      \* [Update -> kind of event that makes it]
  Reaction,   \* [Update -> Update or None]: the one made when it was committed
  Times       \* what the clock may show

Events == {"flushSync", "discrete", "normal", "idle"}

ASSUME WorkLoopAssumption ==
  /\ Target \in [Update -> Node]
  /\ Event \in [Update -> Events \cup {"reaction"}]
  /\ Reaction \in [Update -> Update \cup {None}]
  /\ \A u \in Update : Reaction[u] # None => Event[Reaction[u]] = "reaction"
  /\ Offset \in Times /\ Times \subseteq Never + 1 .. Offset

\* The clock has not run down to where levels are special.
ASSUME ClockAssumption ==
  \A time \in Times : \A priority \in {"userBlocking", "normal"} :
    ExpirationOf(time, priority) > Never

VARIABLES
  root,        \* what the root knows of its work and its callback
  work,        \* the render in progress
  tasks,       \* the callbacks that Scheduler has
  syncQueue,   \* those that are to be called synchronously
  passive,     \* the passive effects of the last commit that are still to run
  discrete,    \* the lowest level of the pending discrete updates, or NoWork
  now,
  currentEventTime,
  stack,
  made         \* history: [Node -> Seq(Update)], in the order they were made

loopVars == <<root, work, tasks, syncQueue, passive, discrete, now, currentEventTime,
              stack, made>>
vars == <<treeVars, loopVars>>

\* commitRoot, among the levels to call renderRoot for.
Commit == NoWork

\* The callback of a root is a task's id or one of these.
NoCallback       == 0
FakeCallbackNode == -1

NoPassive == [nodes |-> <<>>, priority |-> "normal"]

Init ==
  /\ TreeInit
  /\ root = [ firstPendingTime |-> NoWork, callbackNode |-> NoCallback,
              callbackExpirationTime |-> NoWork,
              finishedWork |-> 0, finishedExpirationTime |-> NoWork ]
  /\ work = [busy |-> FALSE, unit |-> None, time |-> NoWork, effects |-> <<>>]
  /\ tasks = {} /\ syncQueue = <<>> /\ stack = <<>>
  /\ passive = NoPassive /\ discrete = NoWork
  /\ now = Offset /\ currentEventTime = NoWork
  /\ made = [n \in Node |-> <<>>]
-----------------------------------------------------------------------------
\* The call stack.
At(place) == stack # <<>> /\ Head(stack).at = place
Goto(frame) == stack' = <<frame>> \o Tail(stack)
Call(frames) == stack' = frames \o stack
Return == stack' = Tail(stack)

Frame(place) == [at |-> place]
IsFlushing == \E f \in Range(stack) : f.at = "flush"

\* Calls of flushSyncCallbackQueue and flushPassiveEffects, when they do anything.
FlushSyncCallbackQueue(queue) ==
  IF IsFlushing \/ queue = <<>> THEN <<>> ELSE <<Frame("flushSyncCallbackQueue")>>
FlushPassiveEffects ==
  IF passive.nodes = <<>> THEN <<>> ELSE <<Frame("flushPassiveEffects")>>

\* runRootCallback or, unwrapped, renderRoot; `node' is prevCallbackNode.
RootCall(todo, isSync, wrapped) ==
  [ at |-> IF todo = Commit THEN "commitRoot" ELSE "renderRoot", todo |-> todo,
    isSync |-> isSync, wrapped |-> wrapped, node |-> root.callbackNode,
    callbacks |-> <<>>, effects |-> <<>> ]

\* The call of a root ends with a continuation (a level, or Commit) ...
ReturnContinuation(todo) ==
  LET frame == Head(stack)
      below == stack[2]
  IN  IF below.at = "flush"
        THEN Goto(RootCall(todo, TRUE, frame.wrapped)) /\ UNCHANGED tasks
        ELSE /\ stack' = SubSeq(stack, 3, Len(stack))
             /\ tasks' = tasks \cup {[below.task EXCEPT !.todo = todo]}

\* ... or with none, and the root forgets a callback that is still the same.
ReturnNull(r) ==
  LET frame == Head(stack)
  IN  /\ root' = IF frame.wrapped /\ frame.node = r.callbackNode
                   THEN [r EXCEPT !.callbackNode = NoCallback, !.callbackExpirationTime = NoWork]
                   ELSE r
      /\ stack' = IF stack[2].at = "flush" THEN Tail(stack)
                  ELSE SubSeq(stack, 3, Len(stack))
-----------------------------------------------------------------------------
\* Scheduler's tasks: one that calls the root, flushSyncCallbackQueueImpl, or
\* one that flushes passive effects.
RootTask(id, priority, expiration) ==
  [kind |-> "root", id |-> id, priority |-> priority, deadline |-> expiration, todo |-> expiration]
OtherTask(kind) == [kind |-> kind]
RootTasks == { t \in tasks : t.kind = "root" }

UnusedId ==
  LET used == { t.id : t \in RootTasks } \cup {root.callbackNode}
                \cup { f.node : f \in { g \in Range(stack) : "node" \in DOMAIN g } }
                \cup { f.task.id : f \in { g \in Range(stack) : "task" \in DOMAIN g } }
  IN  Min((1 .. 2 + Cardinality(tasks) + 2 * Len(stack)) \ used)

\* scheduleSyncCallback: the queue gets a task of its own when it is created.
ScheduleSync(entry, others) ==
  /\ syncQueue' = Append(syncQueue, entry)
  /\ tasks' = others \cup
       (IF syncQueue # <<>> \/ IsFlushing THEN {} ELSE {OtherTask("flush")})

\* scheduleCallbackForRoot: a less urgent callback is replaced.
ScheduleCallbackForRoot(r, priority, expiration) ==
  LET others == tasks \ { t \in RootTasks : t.id = r.callbackNode }
      id     == IF expiration = Sync THEN FakeCallbackNode ELSE UnusedId
  IN  IF r.callbackExpirationTime >= expiration
        THEN root' = r /\ UNCHANGED <<tasks, syncQueue>>
        ELSE /\ root' = [r EXCEPT !.callbackNode = id, !.callbackExpirationTime = expiration]
             /\ IF expiration = Sync
                  THEN ScheduleSync([todo |-> Sync, wrapped |-> TRUE], others)
                  ELSE /\ tasks' = others \cup {RootTask(id, priority, expiration)}
                       /\ UNCHANGED syncQueue
-----------------------------------------------------------------------------
\* requestCurrentTime: all updates of an event are made at the same time.
RequestedTime(isInsideReact) ==
  IF isInsideReact \/ currentEventTime = NoWork THEN now ELSE currentEventTime
TimeRequested(isInsideReact) ==
  currentEventTime' = IF isInsideReact THEN currentEventTime ELSE RequestedTime(FALSE)

\* computeExpirationForFiber: an update does not join the render in progress.
ComputedExpiration(time, priority) ==
  LET expiration == ExpirationOf(time, priority)
  IN  IF work.busy /\ expiration = work.time THEN expiration - 1 ELSE expiration

\* scheduleUpdateOnFiber
ScheduleUpdate(n, fibers, expiration, priority, isDiscrete) ==
  LET first == Max({root.firstPendingTime, expiration})
  IN  /\ fiber' = Marked(fibers, n, expiration)
      /\ ScheduleCallbackForRoot([root EXCEPT !.firstPendingTime = first], priority, expiration)
      /\ discrete' = IF isDiscrete /\ priority \in {"userBlocking", "immediate"}
                        /\ (discrete = NoWork \/ expiration < discrete)
                       THEN expiration ELSE discrete

\* enqueueSetState, dispatchAction and updateContainer.
MakeUpdate(u, priority, isInsideReact, isDiscrete) ==
  LET n          == Target[u]
      expiration == ComputedExpiration(RequestedTime(isInsideReact), priority)
      fibers     == IF n \in Functions THEN fiber ELSE WithQueues(n)
  IN  /\ level[u] = NotMade
      /\ level' = [level EXCEPT ![u] = expiration]
      /\ made' = [made EXCEPT ![n] = Append(@, u)]
      /\ IF n \in Functions THEN EnqueuedOnHook(n, u)
         ELSE EnqueuedOnQueue(n, IF n = Root THEN current ELSE 1, u)
      /\ IF EagerlySame(n, u)
           THEN UNCHANGED <<fiber, root, tasks, syncQueue, discrete>>
           ELSE ScheduleUpdate(n, fibers, expiration, priority, isDiscrete)
      /\ TimeRequested(isInsideReact)
-----------------------------------------------------------------------------
PriorityIn(event) ==
  CASE event = "flushSync" -> "immediate"
    [] event = "discrete"  -> "userBlocking"
    [] OTHER               -> event

EventFrame(event) == [at |-> "event", event |-> event, updates |-> 0]

\* An event that makes one update or more.  dispatchDiscreteEvent first flushes what earlier
\* discrete events have left.
BeginEvent(event) ==
  /\ stack = <<>>
  /\ \E u \in Update : Event[u] = event /\ level[u] = NotMade
  /\ IF event # "discrete" \/ discrete = NoWork
       THEN /\ Call(IF event = "discrete" THEN FlushPassiveEffects \o <<EventFrame(event)>>
                    ELSE <<EventFrame(event)>>)
            /\ UNCHANGED <<syncQueue, tasks, discrete>>
       ELSE /\ discrete' = NoWork
            /\ ScheduleSync([todo |-> discrete, wrapped |-> FALSE], tasks)
            /\ Call(FlushSyncCallbackQueue(syncQueue')
                      \o <<Frame("flushPassiveEffects"), EventFrame(event)>>)
  /\ UNCHANGED <<treeVars, root, work, passive, now, currentEventTime, made>>

EventUpdate(u) ==
  /\ At("event") /\ Event[u] = Head(stack).event
  /\ MakeUpdate(u, PriorityIn(Event[u]), FALSE, Event[u] = "discrete")
  /\ Goto([Head(stack) EXCEPT !.updates = @ + 1])
  /\ UNCHANGED <<called, current, work, passive, now>>

\* batchedUpdates and discreteUpdates flush when they end.
EndEvent ==
  /\ At("event") /\ Head(stack).updates > 0
  /\ stack' = (IF Head(stack).event \in {"flushSync", "discrete"}
                 THEN FlushSyncCallbackQueue(syncQueue) ELSE <<>>) \o Tail(stack)
  /\ UNCHANGED <<treeVars, root, work, tasks, syncQueue, passive, discrete, now, currentEventTime, made>>

\* flushSyncCallbackQueue
BeginFlush ==
  /\ At("flushSyncCallbackQueue")
  /\ tasks' = { t \in tasks : t.kind # "flush" }
  /\ Goto(Frame("flush"))
  /\ UNCHANGED <<treeVars, root, work, syncQueue, passive, discrete, now, currentEventTime, made>>

\* flushSyncCallbackQueueImpl calls what is on the queue until nothing is.
FlushNext ==
  /\ At("flush")
  /\ IF syncQueue = <<>> THEN Return /\ UNCHANGED syncQueue
     ELSE /\ syncQueue' = Tail(syncQueue)
          /\ Call(<<RootCall(Head(syncQueue).todo, TRUE, Head(syncQueue).wrapped)>>)
  /\ UNCHANGED <<treeVars, root, work, tasks, passive, discrete, now, currentEventTime, made>>

\* Of the root's callbacks Scheduler runs the one with the earliest deadline first.
IsNext(task) == task.kind = "root" => \A other \in RootTasks : task.deadline >= other.deadline

\* Scheduler starts a task.  A callback that has timed out is synchronous; the
\* clock is coarser than the one of Scheduler.
RunTask(task) ==
  /\ stack = <<>> /\ task \in tasks /\ IsNext(task)
  /\ tasks' = tasks \ {task}
  /\ \/ task.kind = "passive" /\ Call(FlushPassiveEffects)
     \/ /\ task.kind = "flush"
        /\ IF syncQueue = <<>> THEN UNCHANGED stack ELSE Call(<<Frame("flush")>>)
     \/ /\ task.kind = "root"
        /\ \E didTimeout \in BOOLEAN :
             /\ didTimeout => task.deadline # Never /\ now <= task.deadline
             /\ ~didTimeout => task.deadline = Never \/ now >= task.deadline
             /\ Call(<<RootCall(task.todo, didTimeout, TRUE), [at |-> "task", task |-> task]>>)
  /\ UNCHANGED <<treeVars, root, work, syncQueue, passive, discrete, now, currentEventTime, made>>

Tick ==
  /\ stack = <<>>
  /\ \E time \in Times : time < now /\ now' = time
  /\ UNCHANGED <<treeVars, root, work, tasks, syncQueue, passive, discrete, currentEventTime, stack, made>>
-----------------------------------------------------------------------------
\* flushPassiveEffects: what is pending is run as part of this call.
BeginPassiveEffects ==
  /\ At("flushPassiveEffects")
  /\ passive' = NoPassive
  /\ IF passive.nodes = <<>> THEN Return ELSE Goto([at |-> "passive", passive |-> passive])
  /\ UNCHANGED <<treeVars, root, work, tasks, syncQueue, discrete, now, currentEventTime, made>>

\* The effect of a component reacts to each update that it finds committed.
Reactions(n) ==
  { Reaction[u] : u \in Range(fiber[n][SideIn(fiber, current)[n]].state) } \ {None}

RunPassiveEffect ==
  /\ At("passive")
  /\ LET mine == Head(stack).passive
         left == UNION { Reactions(n) : n \in Range(mine.nodes) } \ MadeUpdates
     IN  IF left = {}
           THEN /\ stack' = FlushSyncCallbackQueue(syncQueue) \o Tail(stack)
                /\ UNCHANGED <<treeVars, root, tasks, syncQueue, discrete, currentEventTime, made>>
           ELSE /\ \E u \in left : MakeUpdate(u, mine.priority, TRUE, FALSE)
                /\ UNCHANGED <<called, current, stack>>
  /\ UNCHANGED <<work, passive, now>>
-----------------------------------------------------------------------------
\* renderRoot, up to flushPassiveEffects.
BeginRenderRoot ==
  /\ At("renderRoot")
  /\ LET frame == Head(stack)
     IN  IF root.firstPendingTime < frame.todo
           THEN ReturnNull(root) /\ UNCHANGED tasks
         ELSE IF frame.isSync /\ root.finishedExpirationTime = frame.todo
           THEN ReturnContinuation(Commit) /\ UNCHANGED root
         ELSE /\ stack' = FlushPassiveEffects \o <<[frame EXCEPT !.at = "prepare"]>> \o Tail(stack)
              /\ UNCHANGED <<root, tasks>>
  /\ UNCHANGED <<treeVars, work, syncQueue, passive, discrete, now, currentEventTime, made>>

\* prepareFreshStack, unless the render in progress is at this level.
PrepareStack(expiration) ==
  IF work.busy /\ work.time = expiration THEN UNCHANGED <<fiber, work, root>>
  ELSE /\ fiber' = WorkInProgress(fiber, Root, current)
       /\ work' = [busy |-> TRUE, unit |-> Root, time |-> expiration, effects |-> <<>>]
       /\ root' = [root EXCEPT !.finishedWork = 0, !.finishedExpirationTime = NoWork]

\* An expired render is begun again at the current time, to have the others that
\* expired.
Prepare ==
  /\ At("prepare")
  /\ LET frame == Head(stack)
     IN  /\ PrepareStack(frame.todo)
         /\ IF frame.isSync /\ frame.todo # Sync /\ now < frame.todo
              THEN ReturnContinuation(now)
              ELSE Goto([frame EXCEPT !.at = "workLoop"]) /\ UNCHANGED tasks
         /\ currentEventTime' = IF frame.isSync THEN currentEventTime ELSE NoWork
  /\ UNCHANGED <<level, next, called, eager, queues, hooks, current,
                 syncQueue, passive, discrete, now, made>>

\* performUnitOfWork: the next unit is the first child, if one was made.
PerformUnitOfWork ==
  /\ At("workLoop") /\ work.unit # None
  /\ LET n      == work.unit
         side   == SideIn(fiber, Other(current))[n]
         spawns == Kids[n] # <<>> /\ fiber'[n][side].kids # fiber[n][side].kids
     IN  /\ BeginWork(n, side, work.time)
         /\ IF spawns
              THEN work' = [work EXCEPT !.unit = Head(Kids[n])] /\ UNCHANGED stack
              ELSE Goto([Head(stack) EXCEPT !.at = "completeUnitOfWork"]) /\ UNCHANGED work
  /\ UNCHANGED <<root, tasks, syncQueue, passive, discrete, now, currentEventTime, made>>

\* completeUnitOfWork: this fiber and the ancestors that it is the last of.
CompleteUnitOfWork ==
  /\ At("completeUnitOfWork")
  /\ LET side == SideIn(fiber, Other(current))
         done == Completing[work.unit]
     IN  /\ fiber' = ChildTimesReset(side, done, work.time)
         /\ work' = [work EXCEPT !.unit = FollowedBy(work.unit), !.effects =
                       @ \o Those(done, { n \in Node : fiber[n][side[n]].effect })]
  /\ Goto([Head(stack) EXCEPT !.at = "workLoop"])
  /\ UNCHANGED <<level, next, called, eager, queues, hooks, current, root, tasks, syncQueue,
                 passive, discrete, now, currentEventTime, made>>

\* shouldYield: between two units of an asynchronous render.
Yield ==
  /\ At("workLoop") /\ work.unit # None /\ ~Head(stack).isSync
  /\ ReturnContinuation(Head(stack).todo)
  /\ UNCHANGED <<treeVars, root, work, syncQueue, passive, discrete, now, currentEventTime, made>>

\* renderRoot: the tree is consistent and is to be committed.
FinishRender ==
  /\ At("workLoop") /\ work.unit = None
  /\ root' = [root EXCEPT !.finishedWork = Other(current),
                          !.finishedExpirationTime = Head(stack).todo]
  /\ work' = [work EXCEPT !.busy = FALSE]
  /\ ReturnContinuation(Commit)
  /\ UNCHANGED <<treeVars, syncQueue, passive, discrete, now, currentEventTime, made>>
-----------------------------------------------------------------------------
\* commitRootImpl runs at immediate priority and remembers the one of the render.
BeginCommit ==
  /\ At("commitRoot")
  /\ stack' = FlushPassiveEffects \o <<[Head(stack) EXCEPT !.at = "commit"]>> \o Tail(stack)
  /\ UNCHANGED <<treeVars, root, work, tasks, syncQueue, passive, discrete, now, currentEventTime, made>>

RenderPriority == IF stack[2].at = "flush" THEN "immediate" ELSE stack[2].task.priority

\* commitUpdateQueue's callbacks, in the order of the effect list.
CallbacksOf(n, side) ==
  IF n \in Functions \/ fiber[n][side].queue = 0 THEN <<>>
  ELSE queues[n][fiber[n][side].queue].effects

\* Mutant: the tree that has been committed stays finished.
FinishedStays(top) ==
  [root EXCEPT !.firstPendingTime = Max({top.time, top.childTime}),
               !.callbackNode = NoCallback, !.callbackExpirationTime = NoWork]

\* What is left for the root to do, given its finished fiber.
RootCommitted(top) ==
  [ firstPendingTime |-> Max({top.time, top.childTime}),
    callbackNode |-> NoCallback, callbackExpirationTime |-> NoWork,
    finishedWork |-> 0, finishedExpirationTime |-> NoWork ]

\* The finished tree becomes current, before the layout effects.
CommitTree ==
  /\ At("commit") /\ root.finishedWork # 0
  /\ LET side == SideIn(fiber, root.finishedWork)
     IN  /\ root' = RootCommitted(fiber[Root][root.finishedWork])
         /\ work' = [busy |-> FALSE, unit |-> None, effects |-> <<>>,
                     time |-> IF work.busy THEN NoWork ELSE work.time]
         /\ current' = root.finishedWork
         /\ Goto([Head(stack) EXCEPT
                    !.at = "layout",
                    !.callbacks = FlattenSeq([i \in DOMAIN work.effects |->
                                    CallbacksOf(work.effects[i], side[work.effects[i]])]),
                    !.effects = Those(work.effects, Functions)])
         /\ queues' = [n \in Node |-> IF n \in Range(work.effects)
                         THEN [i \in Sides |-> CloneOf(queues[n][i])] ELSE queues[n]]
  /\ UNCHANGED <<level, next, called, eager, fiber, hooks, tasks, syncQueue,
                 passive, discrete, now, currentEventTime, made>>

\* What was finished has been thrown away in the meantime.
CommitNothing ==
  /\ At("commit") /\ root.finishedWork = 0
  /\ Goto([Head(stack) EXCEPT !.at = "committed"])
  /\ UNCHANGED <<treeVars, root, work, tasks, syncQueue, passive, discrete, now, currentEventTime, made>>

\* commitUpdateEffects: a callback may make an update, which is synchronous.
CallCallback ==
  /\ At("layout") /\ Head(stack).callbacks # <<>>
  /\ LET u == Head(Head(stack).callbacks)
         v == Reaction[u]
     IN  /\ called' = [called EXCEPT ![u] = @ + 1]
         /\ IF v # None /\ v \notin MadeUpdates
              THEN MakeUpdate(v, "immediate", TRUE, FALSE)
              ELSE UNCHANGED <<level, next, eager, fiber, queues, hooks, root, tasks,
                               syncQueue, discrete, currentEventTime, made>>
  /\ Goto([Head(stack) EXCEPT !.callbacks = Tail(@)])
  /\ UNCHANGED <<current, work, passive, now>>

\* The rest of commitRootImpl: remaining work gets a callback.
EndCommit ==
  /\ At("layout") /\ Head(stack).callbacks = <<>>
  /\ passive' = IF Head(stack).effects = <<>> THEN passive
                ELSE [nodes |-> Head(stack).effects, priority |->
                        IF RenderPriority = "idle" THEN "idle" ELSE "normal"]
  /\ IF root.firstPendingTime = NoWork
       THEN UNCHANGED <<root, tasks, syncQueue, currentEventTime>>
       ELSE /\ TimeRequested(FALSE)
            /\ ScheduleCallbackForRoot(root,
                 PriorityOf(RequestedTime(FALSE), root.firstPendingTime), root.firstPendingTime)
  /\ stack' = FlushSyncCallbackQueue(syncQueue') \o
                <<[Head(stack) EXCEPT !.at = "committed", !.effects = <<>>]>> \o Tail(stack)
  /\ UNCHANGED <<treeVars, work, discrete, now, made>>

\* commitRoot: the passive effects are left to a task.
CommitReturns ==
  /\ At("committed")
  /\ tasks' = tasks \cup (IF passive.nodes = <<>> THEN {} ELSE {OtherTask("passive")})
  /\ ReturnNull(root)
  /\ UNCHANGED <<treeVars, work, syncQueue, passive, discrete, now, currentEventTime, made>>
-----------------------------------------------------------------------------
Step ==
  \/ \E u \in Update : EventUpdate(u)
  \/ EndEvent \/ BeginFlush \/ FlushNext
  \/ BeginPassiveEffects \/ RunPassiveEffect
  \/ BeginRenderRoot \/ Prepare \/ CompleteUnitOfWork \/ FinishRender
  \/ BeginCommit \/ CommitTree \/ CommitNothing \/ CallCallback \/ EndCommit \/ CommitReturns

Next ==
  \/ \E event \in Events : BeginEvent(event)
  \/ Step \/ PerformUnitOfWork \/ Yield
  \/ \E task \in tasks : RunTask(task)
  \/ Tick

\* A task that is due runs, what runs goes on, and a render that is given time
\* again and again performs a unit of work.
Fairness ==
  /\ WF_vars(Step) /\ SF_vars(PerformUnitOfWork)
  /\ WF_vars(\E task \in tasks : RunTask(task))

Spec == Init /\ [][Next]_vars /\ Fairness
-----------------------------------------------------------------------------
Levels == NoWork .. Sync

\* The two queues of a component end in the same update, when both have some
\* (ReactUpdateQueue.js: "The last update is the same in both lists").
TailIsShared ==
  \A n \in Node \ Functions :
    LET last == { queues[n][fiber[n][s].queue].last : s \in { t \in Sides : fiber[n][t].queue # 0 } }
    IN  Cardinality(last \ {None}) <= 1

\* Every variable has its type, a callback is called at most once, and the updates
\* that both fibers of a component know are one list.
TypeOK ==
  /\ level \in [Update -> Levels \cup {NotMade}]
  /\ next \in [Update -> Update \cup {None}]
  /\ called \in [Update -> 0 .. 1]
  /\ current \in Sides
  /\ \A n \in Node : \A s \in Sides :
       LET f == fiber[n][s] IN
         /\ {f.time, f.childTime} \subseteq Levels
         /\ f.kids \in Sides /\ f.queue \in {0} \cup Sides
         /\ Range(f.state) \cup Range(f.props) \cup Range(f.base) \subseteq MadeUpdates
  /\ {root.firstPendingTime, root.callbackExpirationTime, root.finishedExpirationTime} \subseteq Levels
  /\ root.finishedWork \in {0} \cup Sides
  /\ work.unit \in Node \cup {None} /\ work.time \in Levels
  /\ TailIsShared

Side  == SideIn(fiber, current)
Shown == [n \in Node |-> fiber[n][Side[n]].state]

\* The first update that the current fiber has not got in its base state.
FirstPending(n) ==
  LET f == fiber[n][Side[n]]
  IN  IF n \in Functions
        THEN HookFirst(HookOpened(next, hooks[n], f.baseUpdate), hooks[n], f.baseUpdate)
      ELSE IF f.queue = 0 THEN None ELSE queues[n][f.queue].first

\* What is still to be applied is found from the root: on the tree on the screen
\* the component has a level as low, and its ancestors and the root have the
\* component's, whatever was rendered, interrupted or committed in between.
PendingMarked ==
  \A n \in Node : FirstPending(n) # None =>
    LET above[m \in Node] == IF m = Root THEN {} ELSE {Parent[m]} \cup above[Parent[m]]
        time == fiber[n][Side[n]].time
    IN  /\ time >= level[FirstPending(n)]
        /\ \A m \in above[n] : fiber[m][Side[m]].childTime >= time
        /\ root.firstPendingTime >= time

\* dispatchAction takes the queue of a hook for empty when neither fiber has work
\* (ReactFiberHooks.js: "The queue is currently empty, which means we can eagerly
\* compute the next state"): it has no more than updates that were found to
\* change nothing when they were made.
EmptyIfNoWork ==
  \A n \in Functions : HookIsIdle(n) /\ FirstPending(n) # None => eager[FirstPending(n)] # <<>>

\* What is on the screen is one tree: children have the props that their parent
\* gave them in the state it shows.
NoTearing == \A n \in Children : fiber[n][Side[n]].props = Shown[Parent[n]]

\* commitRootImpl's invariant: "Cannot commit the same tree as before".
CommitsOtherTree == root.finishedWork # current

\* When nothing is left to run, every component shows all of its updates and
\* every callback has been called, once.
NothingForgotten ==
  stack = <<>> /\ tasks = {} =>
    /\ syncQueue = <<>> /\ root.firstPendingTime = NoWork
    /\ \A n \in Node : Shown[n] = AppliedAll(<<>>, made[n])
    /\ \A u \in WithCallback : called[u] = IF level[u] = NotMade THEN 0 ELSE 1

\* What is on the screen has update u in it, one that replaced it or, if u changes
\* nothing, anything.
IsShown(u) ==
  u \in Noops \/ u \in Range(Shown[Target[u]]) \/ Range(Shown[Target[u]]) \cap Replacing # {}

\* A callback is called when its update is committed, and not again after that
\* when the update is rebased.
CallbackAfterCommit ==
  [][\A u \in WithCallback : called'[u] # called[u] => called[u] = 0 /\ IsShown(u)]_vars

\* The state of a component is always its updates applied in order, and in the
\* end it is all of them.
States == INSTANCE StateUpdates WITH shown <- Shown
ImplementsStateUpdates == States!Spec
=============================================================================
