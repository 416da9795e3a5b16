--------------------------- MODULE CircuitBreaker ---------------------------
(***************************************************************************)
(* shared/circuit_breaker.py: a counter of failures and the time at which  *)
(* it reached the threshold.  The three states are read off these two, so  *)
(* the breaker turns half-open by the clock alone.                         *)
(***************************************************************************)
EXTENDS Integers

CONSTANTS Threshold,  \* failure_threshold
          Cooldown    \* cooldown_seconds

VARIABLES
  now,       \* time.monotonic()
  failures,  \* _failures
  openedAt   \* _opened_at, or Never for None

Never == -1

BreakerInit == failures = 0 /\ openedAt = Never

Tripped == openedAt # Never

FaultyCooledDown == now - openedAt > 0
CooledDown == now - openedAt >= Cooldown

State == IF ~Tripped THEN "closed" ELSE IF CooledDown THEN "half_open" ELSE "open"
Open == State = "open"

RecordSuccess ==
  /\ failures' = 0
  /\ openedAt' = Never

(* A failure while the breaker is tripped counts but does not restart the
   cooldown.                                                               *)
RecordFailure ==
  /\ failures' = failures + 1
  /\ openedAt' = IF failures' >= Threshold /\ ~Tripped THEN now ELSE openedAt

(* The breaker has tripped exactly when the threshold is reached.          *)
Consistent == Tripped <=> failures >= Threshold
=============================================================================
