------------------------------ MODULE Scheduler ------------------------------
(***************************************************************************)
(* Scheduler.js: tasks that are due wait in taskQueue, by expiration time, *)
(* and delayed ones in timerQueue, by start time; a cancelled task stays   *)
(* where it is, without its callback.  The host calls flushWork, which     *)
(* runs tasks until there are none or the host wants its thread back.      *)
(*                                                                         *)
(* Time passes between any two steps.  While `stage' is not "idle" the     *)
(* scheduler is on the JavaScript stack (isPerformingWork); user code runs *)
(* when it is "idle" (events) and when it is "callback".                   *)
(***************************************************************************)
EXTENDS SchedulerMinHeap, SchedulerHost

CONSTANTS
  MaxTasks,            \* bound: tasks that are ever scheduled
  Timeout,             \* of each task: its priority's timeout; Immediate's is -1
  Delay,               \* of each task: options.delay, 0 for none
  Continuations,       \* of each task: how many it may return
  HostKind,            \* the hosts to consider
  MaxTime              \* bound: no task starts later, and the clock stops here
                       \*   unless a timeout is due later

ASSUME SchedulerAssumption ==
  /\ MaxTasks \in Nat /\ MaxTime \in Nat /\ HostKind \subseteq {"dom", "node"}
  /\ Timeout \in [1 .. MaxTasks -> Int]
  /\ {Delay, Continuations} \subseteq [1 .. MaxTasks -> Nat]

VARIABLES
  tasks,                      \* all tasks, by ID
  taskQueue, timerQueue,      \* heaps of IDs
  currentTask,                \* 0 for null
  isHostCallbackScheduled,
  isHostTimeoutScheduled,
  stage,                      \* "idle", "loop" (of workLoop) or "callback"
  currentTime,                \* workLoop's variable
  hasTimeRemaining,           \* its parameter
  event,                      \* what the host is performing work for
  host,
  now

queues  == <<tasks, taskQueue, timerQueue>>
flags   == <<isHostCallbackScheduled, isHostTimeoutScheduled>>
working == <<stage, currentTime, hasTimeRemaining, event>>
vars    == <<queues, currentTask, flags, working, host, now>>

isPerformingWork == stage # "idle"

SortIndex(ts) == [t \in DOMAIN ts |-> ts[t].sortIndex]
HasCallback(t) == tasks[t].callback

Task == [ callback : BOOLEAN, startTime : Int, expirationTime : Int,
          sortIndex : Int, continuations : Nat ]

QueueState == [ tasks : Seq(Task), taskQueue : Seq(Nat), timerQueue : Seq(Nat) ]

Popped(qs) == [qs EXCEPT !.timerQueue = Pop(SortIndex(qs.tasks), @)]

\* Mutant: the first task moves with the key it had as a timer.
TransferredUnsorted(qs) ==
  LET timer == Peek(qs.timerQueue)
  IN  [Popped(qs) EXCEPT !.taskQueue = Push(SortIndex(qs.tasks), @, timer)]

\* The first timer goes to the other queue, under another key.
Transferred(qs) ==
  LET timer == Peek(qs.timerQueue)
      sorted == [qs.tasks EXCEPT ![timer].sortIndex = qs.tasks[timer].expirationTime]
  IN  [Popped(qs) EXCEPT !.tasks = sorted, !.taskQueue = Push(SortIndex(sorted), @, timer)]

\* advanceTimers
Advanced(queueState, time) ==
  LET advance[qs \in QueueState] ==
        LET timer == Peek(qs.timerQueue)
        IN  IF timer = 0 THEN qs
            ELSE IF ~qs.tasks[timer].callback THEN advance[Popped(qs)]
            ELSE IF qs.tasks[timer].startTime <= time THEN advance[Transferred(qs)]
            ELSE qs
  IN  advance[queueState]

Queues == [tasks |-> tasks, taskQueue |-> taskQueue, timerQueue |-> timerQueue]

Become(qs) ==
  /\ tasks' = qs.tasks /\ taskQueue' = qs.taskQueue /\ timerQueue' = qs.timerQueue

\* requestHostTimeout(handleTimeout, firstTimer.startTime - time), at the time `now'.
TimeoutForFirst(qs, time) ==
  IF qs.timerQueue = <<>> THEN host
  ELSE HostTimeoutRequested(host, now + qs.tasks[Peek(qs.timerQueue)].startTime - time)
-----------------------------------------------------------------------------
NewTask(start, expires, sortIndex) ==
  [ callback |-> TRUE, startTime |-> start, expirationTime |-> expires,
    sortIndex |-> sortIndex, continuations |-> 0 ]

CanSchedule ==
  stage \in {"idle", "callback"} /\ Len(tasks) < MaxTasks /\ now <= MaxTime

NextID == Len(tasks) + 1

\* unstable_scheduleCallback with a delay
ScheduleDelayed ==
  /\ CanSchedule /\ Delay[NextID] > 0 /\ now + Delay[NextID] <= MaxTime
  /\ LET id    == NextID
         start == now + Delay[id]
     IN  /\ tasks' = Append(tasks, NewTask(start, start + Timeout[id], start))
         /\ timerQueue' = Push(SortIndex(tasks'), timerQueue, id)
         /\ IF taskQueue = <<>> /\ Peek(timerQueue') = id
              THEN /\ isHostTimeoutScheduled' = TRUE
                   /\ host' = HostTimeoutRequested(
                                IF isHostTimeoutScheduled THEN HostTimeoutCancelled(host)
                                                          ELSE host,
                                start)
              ELSE UNCHANGED <<isHostTimeoutScheduled, host>>
  /\ UNCHANGED <<taskQueue, currentTask, isHostCallbackScheduled, working, now>>

NeedsHostCallback == ~isHostCallbackScheduled /\ ~isPerformingWork

\* unstable_scheduleCallback without one
ScheduleNow ==
  /\ CanSchedule /\ Delay[NextID] = 0
  /\ LET expires == now + Timeout[NextID]
     IN  tasks' = Append(tasks, NewTask(now, expires, expires))
  /\ taskQueue' = Push(SortIndex(tasks'), taskQueue, NextID)
  /\ IF NeedsHostCallback
       THEN isHostCallbackScheduled' = TRUE /\ host' = HostCallbackRequested(host)
       ELSE UNCHANGED <<isHostCallbackScheduled, host>>
  /\ UNCHANGED <<timerQueue, currentTask, isHostTimeoutScheduled, working, now>>

\* unstable_cancelCallback; it may be too late.
Cancel(t) ==
  /\ stage \in {"idle", "callback"}
  /\ tasks' = [tasks EXCEPT ![t].callback = FALSE]
  /\ UNCHANGED <<taskQueue, timerQueue, currentTask, flags, working, host, now>>

\* unstable_shouldYield moves timers that are due into the queue.
ShouldYield ==
  /\ stage = "callback"
  /\ Become(Advanced(Queues, now))
  /\ UNCHANGED <<currentTask, flags, working, host, now>>

\* unstable_continueExecution
ContinueExecution ==
  /\ stage = "idle" /\ ~isHostCallbackScheduled
  /\ isHostCallbackScheduled' = TRUE
  /\ host' = HostCallbackRequested(host)
  /\ UNCHANGED <<queues, currentTask, isHostTimeoutScheduled, working, now>>
-----------------------------------------------------------------------------
\* Mutant: the host is taken to be asked ever after.
FlagStays == UNCHANGED isHostCallbackScheduled

FlagCleared == isHostCallbackScheduled' = FALSE

\* flushWork, up to the head of workLoop's loop.
FlushWork(received, name) ==
  LET qs == Advanced(Queues, now)
  IN  /\ FlagCleared
      /\ isHostTimeoutScheduled' = FALSE
      /\ host' = IF isHostTimeoutScheduled THEN HostTimeoutCancelled(received) ELSE received
      /\ stage' = "loop" /\ event' = name
      /\ currentTime' = now
      /\ hasTimeRemaining' = HasTimeRemaining(received, now)
      /\ Become(qs)
      /\ currentTask' = Peek(qs.taskQueue)

\* performWorkUntilDeadline and _flushCallback
HostEvent(name) ==
  /\ stage = "idle" /\ CanReceive(host, name)
  /\ IF host.callback
       THEN FlushWork(Received(host, name, now), name)
       ELSE /\ host' = Received(host, name, now)
            /\ UNCHANGED <<queues, currentTask, flags, working>>
  /\ UNCHANGED now

Frame ==
  /\ stage = "idle" /\ CanBeginFrame(host)
  /\ host' = FrameBegun(host, now)
  /\ UNCHANGED <<queues, currentTask, flags, working, now>>

\* Without a DOM: the request that found another one tries again.
Retry ==
  /\ stage = "idle" /\ host.retries > 0
  /\ host' = NodeRequested([host EXCEPT !.retries = @ - 1])
  /\ UNCHANGED <<queues, currentTask, flags, working, now>>

\* handleTimeout
TimeoutFires(due) ==
  /\ stage = "idle" /\ due \in Timeouts(host) /\ due <= now
  /\ LET qs    == Advanced(Queues, now)
         fired == TimeoutFired(host, due)
         first == Peek(qs.timerQueue)
     IN  /\ Become(qs)
         /\ isHostTimeoutScheduled' = FALSE
         /\ \/ /\ isHostCallbackScheduled
               /\ host' = fired /\ UNCHANGED isHostCallbackScheduled
            \/ /\ ~isHostCallbackScheduled /\ qs.taskQueue # <<>>
               /\ host' = HostCallbackRequested(fired) /\ isHostCallbackScheduled' = TRUE
            \/ /\ ~isHostCallbackScheduled /\ qs.taskQueue = <<>>
               /\ host' = IF first = 0 THEN fired
                          ELSE HostTimeoutRequested(fired, qs.tasks[first].startTime)
               /\ UNCHANGED isHostCallbackScheduled
  /\ UNCHANGED <<currentTask, working, now>>
-----------------------------------------------------------------------------
Expired(t) == tasks[t].expirationTime <= currentTime

\* Mutant: tasks that have expired yield as well.
OutOfTimeAlways == ~hasTimeRemaining \/ ShouldYieldToHost(host, now)

OutOfTime ==
  ~Expired(currentTask) /\ (~hasTimeRemaining \/ ShouldYieldToHost(host, now))

\* The loop's turn for a task that was cancelled, or run while another one was first
DropTask ==
  /\ stage = "loop" /\ currentTask # 0 /\ ~OutOfTime /\ ~HasCallback(currentTask)
  /\ taskQueue' = Pop(SortIndex(tasks), taskQueue)
  /\ currentTask' = Peek(taskQueue')
  /\ UNCHANGED <<tasks, timerQueue, flags, working, host, now>>

\* ... and for one that is to be called
RunTask ==
  /\ stage = "loop" /\ currentTask # 0 /\ ~OutOfTime /\ HasCallback(currentTask)
  /\ tasks' = [tasks EXCEPT ![currentTask].callback = FALSE]
  /\ stage' = "callback"
  /\ UNCHANGED <<taskQueue, timerQueue, currentTask, flags,
                 currentTime, hasTimeRemaining, event, host, now>>

\* The rest of the turn: timers that are due now, and the task that is first now.
NextTask(qs) ==
  /\ Become(Advanced(qs, now))
  /\ currentTask' = Peek(taskQueue')
  /\ currentTime' = now /\ stage' = "loop"
  /\ UNCHANGED <<flags, hasTimeRemaining, event, host, now>>

\* The callback returned a function.
TaskContinues ==
  /\ stage = "callback" /\ tasks[currentTask].continuations < Continuations[currentTask]
  /\ NextTask([Queues EXCEPT !.tasks[currentTask].callback = TRUE,
                             !.tasks[currentTask].continuations = @ + 1])

\* Mutant: the first task is removed, whichever it is.
WithoutFirst == Pop(SortIndex(tasks), taskQueue)

WithoutCurrent ==
  IF Peek(taskQueue) = currentTask THEN Pop(SortIndex(tasks), taskQueue) ELSE taskQueue

\* It returned something else.
TaskCompletes ==
  /\ stage = "callback"
  /\ NextTask([Queues EXCEPT !.taskQueue = WithoutCurrent])

\* The finally block of flushWork
Leave == /\ stage' = "idle" /\ event' = "none"
         /\ currentTask' = 0 /\ currentTime' = None /\ hasTimeRemaining' = FALSE
         /\ UNCHANGED <<queues, flags, now>>

TaskThrows ==
  /\ stage = "callback"
  /\ host' = Threw(host, event)
  /\ Leave

Yield ==
  /\ stage = "loop" /\ currentTask # 0 /\ OutOfTime
  /\ host' = Returned(host, TRUE)
  /\ Leave

\* Mutant: the timers that are left are forgotten.
HostAfterWorkForgets == Returned(host, FALSE)

HostAfterWork == Returned(TimeoutForFirst(Queues, currentTime), FALSE)

NothingLeft ==
  /\ stage = "loop" /\ currentTask = 0
  /\ host' = HostAfterWork
  /\ Leave
-----------------------------------------------------------------------------
Tick ==
  /\ now < MaxTime \/ \E due \in Timeouts(host) : now < due
  /\ now' = now + 1
  /\ UNCHANGED <<queues, currentTask, flags, working, host>>

Init ==
  /\ tasks = <<>> /\ taskQueue = <<>> /\ timerQueue = <<>> /\ currentTask = 0
  /\ isHostCallbackScheduled = FALSE /\ isHostTimeoutScheduled = FALSE
  /\ stage = "idle" /\ event = "none" /\ currentTime = None /\ hasTimeRemaining = FALSE
  /\ host \in { NewHost(kind) : kind \in HostKind }
  /\ now = 0

WorkLoopStep == DropTask \/ RunTask \/ Yield \/ NothingLeft
CallbackEnds == TaskContinues \/ TaskCompletes \/ TaskThrows

Next ==
  \/ ScheduleNow \/ ScheduleDelayed \/ ContinueExecution \/ ShouldYield
  \/ \E t \in DOMAIN tasks : Cancel(t)
  \/ \E name \in Events : HostEvent(name)
  \/ Frame \/ Retry \/ \E due \in Timeouts(host) : TimeoutFires(due)
  \/ WorkLoopStep \/ CallbackEnds \/ Tick

Spec == Init /\ [][Next]_vars

\* Callbacks return, the host delivers the frames, messages and timeouts it was asked
\* for, and time passes.  Nothing is assumed of the timeout that stands in for frames,
\* and of two events that are both possible either may come first.
Progress ==
  WorkLoopStep \/ CallbackEnds \/ Frame \/ HostEvent("message") \/ HostEvent("flush")

FairSpec ==
  /\ Spec
  /\ WF_vars(Progress) /\ WF_vars(Tick)
  /\ WF_vars(\E due \in Timeouts(host) : TimeoutFires(due))
-----------------------------------------------------------------------------
Live == { t \in DOMAIN tasks : HasCallback(t) }

\* Every variable has its type, a frame is coming while the host believes that its
\* loop runs, each task that can still be called is in exactly one queue, and both
\* queues are heaps, by the keys their tasks have at this moment.
TypeOK ==
  /\ Queues \in QueueState
  /\ Range(taskQueue) \cup Range(timerQueue) \cup ({currentTask} \ {0}) \subseteq DOMAIN tasks
  /\ Range(taskQueue) \cap Range(timerQueue) = {}
  /\ \A t \in DOMAIN tasks : HasCallback(t) => t \in Range(taskQueue) \cup Range(timerQueue)
  /\ Ordered(SortIndex(tasks), taskQueue) /\ Ordered(SortIndex(tasks), timerQueue)
  /\ \A t \in Range(taskQueue)  : tasks[t].sortIndex = tasks[t].expirationTime
  /\ \A t \in Range(timerQueue) : tasks[t].sortIndex = tasks[t].startTime
  /\ IsHost(host) /\ (host.looping <=> host.frame)
  /\ stage \in {"idle", "loop", "callback"}
  /\ {isHostCallbackScheduled, isHostTimeoutScheduled, hasTimeRemaining} \subseteq BOOLEAN

\* The host will call flushWork without being asked again.
WillFlush ==
  /\ host.callback
  /\ IF host.kind = "dom" THEN host.frame ELSE host.flushes > 0

\* isHostCallbackScheduled keeps the scheduler from asking the host again: it is set
\* only while the host will call flushWork, also after errors, requests that found
\* another one and frames without work.
ScheduledIsServed == isHostCallbackScheduled => stage = "idle" /\ WillFlush

\* Between events no task is forgotten: while the queue has one the host will flush
\* it, and while only timers are left a timeout is due.
NoLostWakeup ==
  stage = "idle" =>
    /\ taskQueue # <<>> => WillFlush
    /\ taskQueue = <<>> /\ timerQueue # <<>> => WillFlush \/ Timeouts(host) # {}

\* The scheduler gives the thread back only when no task that it knows to have
\* expired could still be called, whatever the host wants.
ExpiredTasksDoNotYield ==
  [][ Yield => \A t \in DOMAIN tasks :
        HasCallback(t) /\ tasks[t].startTime <= currentTime => ~Expired(t) ]_vars

\* Every task is called or cancelled at last, although tasks before it fail, return
\* continuations, use up the frame or are cancelled, and timeouts overtake it.
EveryTaskRuns == \A t \in 1 .. MaxTasks : t \in Live ~> t \notin Live

Pool == INSTANCE TaskPool
          WITH task <- [t \in DOMAIN tasks |->
                          [start |-> tasks[t].startTime, expires |-> tasks[t].expirationTime]],
               live <- Live,
               running <- IF stage = "callback" THEN currentTask ELSE 0,
               seen <- currentTime

\* Two heaps, lazily removed tasks and workLoop come to a plain rule: the task that
\* is called is the most urgent of those that had started when the clock was read.
ImplementsTaskPool == Pool!Spec
=============================================================================
