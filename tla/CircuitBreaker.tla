--------------------------- MODULE CircuitBreaker ---------------------------
(* One circuit breaker of reliability/circuit_breaker.py as a record and the *)
(* functions that change it.  A time is held as an age: the ticks since      *)
(* opened_at, saturated at RecoveryTimeout, the only value it is compared    *)
(* with.  success_count saturates at SuccessThreshold for the same reason.   *)
EXTENDS Integers

CONSTANTS FailureThreshold,   \* CircuitBreakerConfig.failure_threshold
          SuccessThreshold,   \* CircuitBreakerConfig.success_threshold
          RecoveryTimeout     \* CircuitBreakerConfig.recovery_timeout_seconds

ASSUME BreakerConfig == /\ FailureThreshold \in Nat \ {0}
                        /\ SuccessThreshold \in Nat \ {0}
                        /\ RecoveryTimeout \in Nat

Least(a, b) == IF a <= b THEN a ELSE b

BreakerStates == {"closed", "open", "half_open"}
Breakers == [state : BreakerStates, failures : Nat,
             successes : 0 .. SuccessThreshold, age : 0 .. RecoveryTimeout]

\* A breaker never opened has no opened_at, which counts as recovered.
FreshBreaker ==
  [state |-> "closed", failures |-> 0, successes |-> 0, age |-> RecoveryTimeout]

RecoveryElapsed(b) == b.age >= RecoveryTimeout

ToOpen(b, age) == [b EXCEPT !.state = "open", !.age = age, !.successes = 0]
ToHalfOpen(b) == [b EXCEPT !.state = "half_open", !.failures = 0, !.successes = 0]
ToClosed(b) == FreshBreaker

\* should_allow_request: the answer, and the breaker after asking.
Allows(b) == b.state # "open" \/ RecoveryElapsed(b)

\* Mutant: the trial call leaves the breaker open.
AskingLeavesOpen(b) == b

AfterAsking(b) == IF b.state = "open" /\ RecoveryElapsed(b) THEN ToHalfOpen(b) ELSE b

\* Mutant: a success does not interrupt the run of failures.
RecordSuccessKeepsFailures(b) ==
  LET counted == [b EXCEPT !.successes = Least(@ + 1, SuccessThreshold)]
  IN  IF counted.state = "half_open" /\ counted.successes >= SuccessThreshold
      THEN ToClosed(counted) ELSE counted

\* Mutant: an open breaker closes on a success as a half-open one does.
RecordSuccessClosesOpen(b) ==
  LET counted == [b EXCEPT !.successes = Least(@ + 1, SuccessThreshold)]
  IN  IF counted.state # "closed" /\ counted.successes >= SuccessThreshold
      THEN ToClosed(counted)
      ELSE [counted EXCEPT !.failures = IF counted.state = "closed" THEN 0 ELSE @]

RecordSuccess(b) ==
  LET counted == [b EXCEPT !.successes = Least(@ + 1, SuccessThreshold)]
      settled == IF counted.state = "half_open" /\ counted.successes >= SuccessThreshold
                 THEN ToClosed(counted) ELSE counted
  IN  IF settled.state = "closed" THEN [settled EXCEPT !.failures = 0] ELSE settled

\* age: the ticks since the start of the call that failed, which is the time
\* stamp the supervisor records the failure with.
RecordFailure(b, age) ==
  LET counted == [b EXCEPT !.failures = @ + 1]
      opens == \/ b.state = "half_open"
               \/ b.state = "closed" /\ counted.failures >= FailureThreshold
  IN  IF opens THEN ToOpen(counted, age) ELSE counted

\* Mutant: a rejected call restarts the recovery period.
RejectRestartsRecovery(b) == [b EXCEPT !.age = 0]

\* reject_request counts the rejection (a statistic nothing reads back).
Reject(b) == b

Older(b) == [b EXCEPT !.age = Least(@ + 1, RecoveryTimeout)]
=============================================================================
