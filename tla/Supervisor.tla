----------------------------- MODULE Supervisor -----------------------------
(* RuntimeSupervisor.supervise (reliability/supervisor.py): rate limiter,     *)
(* circuit breaker, deadline and retry around one callable, the limiter       *)
(* outermost.  The package has no threads and no locks; calls overlap because *)
(* a supervised operation may itself call supervise, reset or clear, so the   *)
(* calls in progress form a stack and only the innermost one can return.      *)
EXTENDS CircuitBreaker, FixedWindow, Sequences, Functions

CONSTANTS Ops,          \* the operation names, each with its own breaker
          RateKeys,     \* the rate_limit_key values the callers use
          MaxAttempts,  \* RetryPolicy.max_attempts
          Timeout,      \* TimeoutConfig: timeout_seconds + grace_seconds
          MaxDepth      \* bound: nested calls

ASSUME SupervisorConfig == /\ MaxAttempts \in Nat \ {0}
                           /\ Timeout \in Nat \ {0}
                           /\ MaxDepth \in Nat \ {0}

VARIABLES breakers,  \* circuit_breakers: one per operation
          buckets,   \* rate_limiter.buckets: one per rate key
          calls,     \* the supervised calls in progress, innermost last
          recent,    \* observer: per key and age, the calls the limiter let in
          streak,    \* observer: per operation, failures since the last success
          probed     \* observer: a call admitted half-open has since succeeded

vars == <<breakers, buckets, calls, recent, streak, probed>>
observers == <<recent, streak, probed>>

\* live: the call's breaker is still the registered one; probe (observer): it
\* was admitted in the half-open period the breaker is in.
Calls == [op : Ops, age : 0 .. RecoveryTimeout, attempt : 1 .. MaxAttempts,
          live : BOOLEAN, probe : BOOLEAN]

Init ==
  /\ breakers = [o \in Ops |-> FreshBreaker]
  /\ buckets = [k \in RateKeys |-> NoBucket]
  /\ calls = <<>>
  /\ recent = [k \in RateKeys |-> [a \in 0 .. Window - 1 |-> 0]]
  /\ streak = [o \in Ops |-> 0]
  /\ probed = [o \in Ops |-> FALSE]

Current == calls[Len(calls)]
Returned == SubSeq(calls, 1, Len(calls) - 1)

\* execute_with_deadline checks once, before the operation, at the time the
\* supervisor took as the start: zero ticks have passed.
DeadlineExpired(elapsed) == elapsed >= Timeout

(* The limiter's decision, then the breaker's; the retry loop starts its first *)
(* attempt.                                                                    *)
Denied(o, k) ==
  /\ Len(calls) < MaxDepth
  /\ ~HasRoom(buckets[k])
  /\ UNCHANGED vars

\* Mutant: the slot is taken only when the breaker lets the call through.
RejectedKeepsSlot(o, k) ==
  /\ Len(calls) < MaxDepth /\ HasRoom(buckets[k])
  /\ ~Allows(breakers[o])
  /\ breakers' = [breakers EXCEPT ![o] = Reject(@)]
  /\ recent' = [recent EXCEPT ![k][0] = @ + 1]
  /\ UNCHANGED <<buckets, calls, streak, probed>>

Rejected(o, k) ==
  /\ Len(calls) < MaxDepth /\ HasRoom(buckets[k])
  /\ ~Allows(breakers[o])
  /\ buckets' = [buckets EXCEPT ![k] = Consume(@)]
  /\ breakers' = [breakers EXCEPT ![o] = Reject(@)]
  /\ recent' = [recent EXCEPT ![k][0] = @ + 1]
  /\ UNCHANGED <<calls, streak, probed>>

Started(o, k) ==
  /\ Len(calls) < MaxDepth /\ HasRoom(buckets[k])
  /\ Allows(breakers[o])
  /\ ~DeadlineExpired(0)
  /\ buckets' = [buckets EXCEPT ![k] = Consume(@)]
  /\ breakers' = [breakers EXCEPT ![o] = AfterAsking(@)]
  /\ calls' = Append(calls, [op |-> o, age |-> 0, attempt |-> 1, live |-> TRUE,
                             probe |-> breakers'[o].state = "half_open"])
  /\ recent' = [recent EXCEPT ![k][0] = @ + 1]
  /\ probed' = [probed EXCEPT ![o] = @ /\ breakers[o].state # "open"]
  /\ UNCHANGED streak

Supervise(o) == \E k \in RateKeys : Denied(o, k) \/ Rejected(o, k) \/ Started(o, k)

\* The observers' view of a breaker that changed: calls admitted before it
\* opened or closed are no probes of a later half-open period.
Outdated(o) ==
  [i \in 1 .. Len(Returned) |->
     [Returned[i] EXCEPT !.probe = @ /\ ~(Returned[i].op = o /\ breakers'[o].state # "half_open")]]

\* run_with_retry: the operation raised something the policy retries.
Retry ==
  /\ calls # <<>>
  /\ Current.attempt < MaxAttempts
  /\ calls' = [calls EXCEPT ![Len(calls)].attempt = @ + 1]
  /\ UNCHANGED <<breakers, buckets, observers>>

\* The operation returned.
Succeed ==
  /\ calls # <<>>
  /\ LET o == Current.op IN
     /\ breakers' = IF Current.live THEN [breakers EXCEPT ![o] = RecordSuccess(@)] ELSE breakers
     /\ calls' = Outdated(o)
     /\ streak' = IF Current.live THEN [streak EXCEPT ![o] = 0] ELSE streak
     /\ probed' = [probed EXCEPT ![o] = @ \/ (Current.live /\ Current.probe)]
  /\ UNCHANGED <<buckets, recent>>

\* The last attempt failed, or the exception is not one the policy retries.
Fail ==
  /\ calls # <<>>
  /\ LET o == Current.op IN
     /\ breakers' = IF Current.live
                    THEN [breakers EXCEPT ![o] = RecordFailure(@, Current.age)] ELSE breakers
     /\ calls' = Outdated(o)
     /\ streak' = IF Current.live THEN [streak EXCEPT ![o] = Least(@ + 1, FailureThreshold + MaxDepth)]
                  ELSE streak
  /\ UNCHANGED <<buckets, recent, probed>>

\* A BaseException (an interrupt) passes every layer up to the operation that
\* catches it: nothing is recorded.
Interrupt ==
  /\ calls # <<>>
  /\ \E depth \in 0 .. Len(calls) - 1 :
       /\ calls' = SubSeq(calls, 1, depth)
       /\ probed' = [o \in Ops |-> probed[o] \/ \E i \in depth + 1 .. Len(calls) :
                                     calls[i].op = o /\ calls[i].probe]
  /\ UNCHANGED <<breakers, buckets, recent, streak>>

\* CircuitBreaker.reset on a registered breaker.
ResetBreaker(o) ==
  /\ breakers' = [breakers EXCEPT ![o] = FreshBreaker]
  /\ calls' = [i \in 1 .. Len(calls) |->
                 [calls[i] EXCEPT !.probe = @ /\ calls[i].op # o]]
  /\ streak' = [streak EXCEPT ![o] = 0]
  /\ probed' = [probed EXCEPT ![o] = FALSE]
  /\ UNCHANGED <<buckets, recent>>

\* RuntimeSupervisor.clear forgets the breakers, not the limiter's buckets; a
\* call in progress keeps the breaker object it started with.
Clear ==
  /\ breakers' = [o \in Ops |-> FreshBreaker]
  /\ calls' = [i \in 1 .. Len(calls) |-> [calls[i] EXCEPT !.live = FALSE, !.probe = FALSE]]
  /\ streak' = [o \in Ops |-> 0]
  /\ probed' = [o \in Ops |-> FALSE]
  /\ UNCHANGED <<buckets, recent>>

\* RateLimiter.check counts nothing, yet starts a new window when one is due.
CheckLimit(k) ==
  /\ buckets' = [buckets EXCEPT ![k] = GetBucket(@)]
  /\ UNCHANGED <<breakers, calls, observers>>

\* RateLimiter.reset_bucket; the observer starts counting afresh with it.
ResetBucket(k) ==
  /\ buckets' = [buckets EXCEPT ![k] = FreshBucket]
  /\ recent' = [recent EXCEPT ![k] = [a \in 0 .. Window - 1 |-> 0]]
  /\ UNCHANGED <<breakers, calls, streak, probed>>

\* RateLimiter.clear.
ClearBuckets ==
  /\ buckets' = [k \in RateKeys |-> NoBucket]
  /\ recent' = [k \in RateKeys |-> [a \in 0 .. Window - 1 |-> 0]]
  /\ UNCHANGED <<breakers, calls, streak, probed>>

Tick ==
  /\ breakers' = [o \in Ops |-> Older(breakers[o])]
  /\ buckets' = [k \in RateKeys |-> OlderBucket(buckets[k])]
  /\ calls' = [i \in 1 .. Len(calls) |->
                 [calls[i] EXCEPT !.age = Least(@ + 1, RecoveryTimeout)]]
  /\ recent' = [k \in RateKeys |->
                  [a \in 0 .. Window - 1 |-> IF a = 0 THEN 0 ELSE recent[k][a - 1]]]
  /\ UNCHANGED <<streak, probed>>

Next ==
  \/ \E o \in Ops : Supervise(o) \/ ResetBreaker(o)
  \/ Retry \/ Succeed \/ Fail \/ Interrupt \/ Clear
  \/ \E k \in RateKeys : CheckLimit(k) \/ ResetBucket(k)
  \/ ClearBuckets
  \/ Tick

Spec == Init /\ [][Next]_vars

(* Time passes, an operation that was called comes back, and every operation  *)
(* keeps being asked for: the second and third are about the supervisor's     *)
(* callers, for which its own code does nothing.                              *)
Fairness ==
  /\ WF_vars(Tick)
  /\ WF_vars(Succeed \/ Fail \/ Interrupt)
  /\ \A o \in Ops : SF_vars(Supervise(o))

FairSpec == Spec /\ Fairness
(* Types, and the limiter's counters within their limit.                      *)
TypeOK ==
  /\ breakers \in [Ops -> Breakers]
  /\ buckets \in [RateKeys -> Buckets]
  /\ Len(calls) <= MaxDepth /\ \A i \in 1 .. Len(calls) : calls[i] \in Calls
  /\ \A o \in Ops : breakers[o].failures <= FailureThreshold + MaxDepth

(* A closed breaker counts exactly the failures in a row: an older failure     *)
(* followed by a success never helps to open it (record_success, which resets  *)
(* the count after it may just have closed the breaker).                       *)
FailuresInARow ==
  \A o \in Ops : breakers[o].state = "closed" => breakers[o].failures = streak[o]

(* While a breaker is open, every call still running under it was let in no    *)
(* later than the call that opened it: nothing starts under an open breaker,   *)
(* whatever calls of the same operation are nested in each other.              *)
RunningBeforeOpening ==
  \A i \in 1 .. Len(calls) :
    LET b == breakers[calls[i].op] IN
    calls[i].live /\ b.state = "open" => calls[i].age >= b.age

(* The limiter promises MaxRequests per fixed window; over any stretch of one  *)
(* window's length at most twice that many calls pass, whether the breaker     *)
(* rejects them and whether they fail or not.                                  *)
BurstBound ==
  \A k \in RateKeys :
    SumFunction(recent[k]) <= 2 * MaxRequests

(* A late success alone never closes a breaker.  Successes of calls started    *)
(* before the failure count as well, but unless it is reset or cleared the     *)
(* breaker closes only when a call let in since it half-opened has succeeded   *)
(* or was interrupted: an interrupted trial records nothing, and two late      *)
(* successes then close the breaker without any trial having passed.           *)
ClosedByProbe ==
  [][\A o \in Ops :
       breakers[o].state # "closed" /\ breakers'[o].state = "closed"
         => probed'[o] \/ ResetBreaker(o) \/ Clear]_vars

(* An operation that keeps being asked for is not shut out for ever: an open   *)
(* breaker lets a trial call through, although the rejected calls eat the      *)
(* limiter's slots.                                                            *)
Recovers == \A o \in Ops : breakers[o].state = "open" ~> breakers[o].state # "open"
=============================================================================
