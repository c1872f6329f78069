---------------------------- MODULE SchedulerHost ----------------------------
(***************************************************************************)
(* forks/SchedulerHostConfig.default.js: how the scheduler gets itself     *)
(* called.  In a browser a requestAnimationFrame loop posts a message per  *)
(* frame, and the message handler performs the work; a timeout stands in   *)
(* for frames that do not come.  Without a DOM, setTimeout(f, 0) does.     *)
(* In both, a delayed call is a timeout of which only the latest can be    *)
(* cancelled.  A host is a record; the operators say what becomes of it.   *)
(***************************************************************************)
EXTENDS Integers, FiniteSets

CONSTANTS
  FrameLength,     \* ticks that a frame leaves for work
  MaxMessages      \* bound: messages that may be on their way when a frame begins

ASSUME HostAssumption == FrameLength \in Nat \ {0} /\ MaxMessages \in Nat \ {0}

None == -1     \* no time

NewHost(kind) ==
  [ kind     |-> kind,    \* "dom" or "node"
    callback |-> FALSE,   \* is scheduledHostCallback, or _callback, flushWork?
    looping  |-> FALSE,   \* isRAFLoopRunning
    frame    |-> FALSE,   \* has an animation frame been requested?
    fallback |-> FALSE,   \* is the timeout behind rAFTimeoutID set?
    deadline |-> None,    \* frameDeadline
    messages |-> 0,       \* posted to the channel and not received yet
    flushes  |-> 0,       \* timeouts that will call _flushCallback
    retries  |-> 0,       \* timeouts that will call requestHostCallback
    timeout  |-> None,    \* when taskTimeoutID is due
    stale    |-> {} ]     \* when timeouts are due that no variable knows any more

IsHost(host) ==
  /\ host.kind \in {"dom", "node"}
  /\ {host.callback, host.looping, host.frame, host.fallback} \subseteq BOOLEAN
  /\ {host.messages, host.flushes, host.retries} \subseteq Nat
  /\ {host.timeout, host.deadline} \cup host.stale \subseteq Int

NodeRequested(host) ==
  IF host.callback THEN [host EXCEPT !.retries = @ + 1]
                   ELSE [host EXCEPT !.callback = TRUE, !.flushes = @ + 1]

DOMRequested(host) ==
  IF host.looping THEN [host EXCEPT !.callback = TRUE]
                  ELSE [host EXCEPT !.callback = TRUE, !.looping = TRUE, !.frame = TRUE]

HostCallbackRequested(host) ==
  IF host.kind = "dom" THEN DOMRequested(host) ELSE NodeRequested(host)

HostTimeoutCancelled(host) == [host EXCEPT !.timeout = None]

\* The timeout that was the latest goes on, out of reach.
HostTimeoutRequested(host, due) ==
  [host EXCEPT !.timeout = due, !.stale = @ \cup ({host.timeout} \ {None})]

Timeouts(host) == ({host.timeout} \cup host.stale) \ {None}

TimeoutFired(host, due) ==
  [host EXCEPT !.timeout = IF @ = due THEN None ELSE @, !.stale = @ \ {due}]

\* onAnimationFrame: the loop ends, or asks for another frame and posts a message.
FrameBegun(host, now) ==
  IF ~host.callback
    THEN [host EXCEPT !.frame = FALSE, !.fallback = FALSE, !.looping = FALSE]
    ELSE [host EXCEPT !.frame = TRUE, !.fallback = TRUE, !.messages = @ + 1,
                      !.deadline = now + FrameLength]

CanBeginFrame(host) == host.frame /\ host.messages < MaxMessages

\* An event that performs work, if there is a callback: it has this name when the
\* callback returns.
Received(host, event, now) ==
  CASE event = "message"  -> [host EXCEPT !.messages = @ - 1]
    [] event = "fallback" -> [host EXCEPT !.deadline = now + FrameLength \div 2]
    [] event = "flush"    -> [host EXCEPT !.flushes = @ - 1]

CanReceive(host, event) ==
  CASE event = "message"  -> host.messages > 0
    [] event = "fallback" -> host.fallback
    [] event = "flush"    -> host.flushes > 0

Events == {"message", "fallback", "flush"}

HasTimeRemaining(host, now) == host.kind = "node" \/ host.deadline > now

ShouldYieldToHost(host, now) == host.kind = "dom" /\ now >= host.deadline

\* flushWork has returned whether there is more work.
Returned(host, hasMoreWork) ==
  [host EXCEPT !.callback = @ /\ hasMoreWork /\ host.kind = "dom"]

\* Mutant: an error ends the frame, and nobody calls again.
ThrewSilently(host, event) == [host EXCEPT !.callback = FALSE]

\* flushWork has thrown: it is called again as soon as possible.  A stand-in for a
\* frame that throws is not set again.
Threw(host, event) ==
  CASE event = "flush"    -> [host EXCEPT !.flushes = @ + 1]
    [] event = "message"  -> [host EXCEPT !.messages = @ + 1]
    [] event = "fallback" -> [host EXCEPT !.messages = @ + 1, !.fallback = FALSE]
=============================================================================
