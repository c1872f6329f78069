------------------------------ MODULE TaskPool ------------------------------
(***************************************************************************)
(* What users of the scheduler rely on, without queues and hosts: a task   *)
(* is called when no task that has started is more urgent, never before    *)
(* its start time, never once it was cancelled, one at a time, and again   *)
(* only if it returned a continuation.                                     *)
(***************************************************************************)
EXTENDS Integers, Sequences

CONSTANTS Timeout, MaxTime

VARIABLES
  task,      \* of each task: when it starts and when it expires
  live,      \* the tasks that are to be called
  running,   \* the one that is being called, 0 for none
  seen       \* when the scheduler last read the clock

vars == <<task, live, running, seen>>

Init == task = <<>> /\ live = {} /\ running = 0 /\ seen = -1

Schedule ==
  /\ Len(task) + 1 \in DOMAIN Timeout
  /\ \E start \in 0 .. MaxTime :
       task' = Append(task, [start |-> start, expires |-> start + Timeout[Len(task) + 1]])
  /\ live' = live \cup {Len(task')}
  /\ UNCHANGED <<running, seen>>

Cancel(t) ==
  /\ live' = live \ {t}
  /\ UNCHANGED <<task, running, seen>>

MoreUrgent(t, u) ==
  \/ task[t].expires < task[u].expires
  \/ task[t].expires = task[u].expires /\ t < u

Started == { t \in live : task[t].start <= seen }

\* A task that unstable_shouldYield has found due since then may be called as well.
Call(t) ==
  /\ running = 0 /\ t \in live
  /\ \A u \in Started \ {t} : MoreUrgent(t, u)
  /\ running' = t /\ live' = live \ {t}
  /\ UNCHANGED <<task, seen>>

\* The clock has been read again, or the scheduler is done for now.
Looked == seen' \in Int /\ (seen' = -1 \/ seen' >= seen)

\* The callback is over, with a continuation or not.
End ==
  /\ running # 0
  /\ running' = 0
  /\ live' \in {live, live \cup {running}}
  /\ Looked
  /\ UNCHANGED task

Look ==
  /\ running = 0
  /\ Looked
  /\ UNCHANGED <<task, live, running>>

Next == Schedule \/ Look \/ End \/ \E t \in DOMAIN task : Cancel(t) \/ Call(t)

Spec == Init /\ [][Next]_vars
=============================================================================
