-------------------------- MODULE ExpirationTimes --------------------------
(***************************************************************************)
(* Expiration times are both a deadline and a priority: the larger, the    *)
(* sooner an update has to be rendered.  Time itself is one of them and    *)
(* falls as the clock goes on.                                             *)
(***************************************************************************)
EXTENDS Integers

CONSTANTS
  Offset,            \* MAGIC_NUMBER_OFFSET
  HighExpiration,    \* after how long an interactive update expires
  HighBatch,         \* and the size of the buckets that it is rounded to
  LowExpiration,     \* the same for any other update
  LowBatch

ASSUME ExpirationAssumption ==
  /\ {Offset, HighExpiration, LowExpiration} \subseteq Nat
  /\ {HighBatch, LowBatch} \subseteq Nat \ {0}

NoWork == 0
Never  == 1
Sync   == Offset + 2

Priorities == {"immediate", "userBlocking", "normal", "idle"}

Ceiling(number, precision) == (number \div precision + 1) * precision

Bucket(time, expiration, batch) == Offset - Ceiling(Offset - time + expiration, batch)

\* computeExpirationForFiber, for a fiber in concurrent mode.
ExpirationOf(time, priority) ==
  CASE priority = "immediate"    -> Sync
    [] priority = "userBlocking" -> Bucket(time, HighExpiration, HighBatch)
    [] priority = "normal"       -> Bucket(time, LowExpiration, LowBatch)
    [] priority = "idle"         -> Never

\* inferPriorityFromExpirationTime
PriorityOf(time, expiration) ==
  IF expiration = Sync \/ (expiration # Never /\ time <= expiration) THEN "immediate"
  ELSE IF expiration = Never THEN "idle"
  ELSE IF time - expiration <= HighExpiration + HighBatch THEN "userBlocking"
  ELSE IF time - expiration <= LowExpiration + LowBatch THEN "normal"
  ELSE "idle"
=============================================================================
