--------------------------- MODULE SupervisorProofs ---------------------------
(* The supervisor's breakers and limiter, for any operations, rate keys,      *)
(* thresholds, periods and depth of nested calls: what its breakers count,    *)
(* what runs while one is open, what closes one, and the bound on bursts.     *)
EXTENDS Supervisor, SumTheorems, SequenceTheorems

(* A fresh breaker.                                                           *)
LEMMA FreshFits ==
  /\ FreshBreaker \in Breakers
  /\ FreshBreaker.state = "closed" /\ FreshBreaker.failures = 0
  BY BreakerConfig DEF FreshBreaker, Breakers, BreakerStates

(* Asking: an open breaker that lets a call through half-opens, the others    *)
(* stay as they are.                                                          *)
LEMMA AskingFits ==
  ASSUME NEW b \in Breakers, Allows(b)
  PROVE  /\ AfterAsking(b) \in Breakers
         /\ b.state # "open" => AfterAsking(b) = b
         /\ b.state = "open" => /\ AfterAsking(b).state = "half_open"
                                /\ AfterAsking(b).failures = 0
<1> DEFINE mid == [b EXCEPT !.state = "half_open"]
           cleared == [mid EXCEPT !.failures = 0]
           half == [cleared EXCEPT !.successes = 0]
<1>1. mid \in Breakers /\ mid.state = "half_open"
  BY DEF Breakers, BreakerStates
<1>2. ToHalfOpen(b) = half
  BY DEF ToHalfOpen, Breakers
<1> HIDE DEF mid
<1>3. cleared \in Breakers /\ cleared.state = "half_open" /\ cleared.failures = 0
  BY <1>1 DEF Breakers
<1> HIDE DEF cleared
<1>4. half \in Breakers /\ half.state = "half_open" /\ half.failures = 0
  BY <1>3, BreakerConfig DEF Breakers
<1> HIDE DEF half
<1>. QED
  BY <1>2, <1>4 DEF AfterAsking, Allows

(* Time passes.                                                               *)
LEMMA OlderFits ==
  ASSUME NEW b \in Breakers
  PROVE  /\ Older(b) \in Breakers
         /\ Older(b).state = b.state /\ Older(b).failures = b.failures
         /\ Older(b).age = Least(b.age + 1, RecoveryTimeout)
<1>1. Least(b.age + 1, RecoveryTimeout) \in 0 .. RecoveryTimeout
  BY BreakerConfig DEF Breakers, Least
<1>. QED
  BY <1>1 DEF Older, Breakers

(* A success: a closed breaker forgets its failures, a half-open one may      *)
(* close, an open one stays open.                                             *)
LEMMA SuccessFits ==
  ASSUME NEW b \in Breakers
  PROVE  /\ RecordSuccess(b) \in Breakers
         /\ RecordSuccess(b).state = "closed" =>
              RecordSuccess(b).failures = 0 /\ b.state # "open"
         /\ RecordSuccess(b).state = "open" <=> b.state = "open"
         /\ RecordSuccess(b).state # "closed" =>
              /\ RecordSuccess(b).state = b.state
              /\ RecordSuccess(b).failures = b.failures
              /\ RecordSuccess(b).age = b.age
<1> DEFINE count == Least(b.successes + 1, SuccessThreshold)
           counted == [b EXCEPT !.successes = count]
           settled == IF counted.state = "half_open" /\ counted.successes >= SuccessThreshold
                      THEN FreshBreaker ELSE counted
           forgotten == [settled EXCEPT !.failures = 0]
<1>1. count \in 0 .. SuccessThreshold
  BY BreakerConfig DEF Breakers, Least
<1>2. RecordSuccess(b) = IF settled.state = "closed" THEN forgotten ELSE settled
  BY DEF RecordSuccess, ToClosed
<1> HIDE DEF count
<1>3. /\ counted \in Breakers /\ counted.state = b.state
      /\ counted.failures = b.failures /\ counted.age = b.age
  BY <1>1 DEF Breakers
<1> HIDE DEF counted
<1>4. /\ settled \in Breakers
      /\ settled.state = "closed" => b.state # "open"
      /\ settled.state # "closed" => settled = counted
      /\ b.state = "open" => settled = counted
  BY <1>3, FreshFits
<1> HIDE DEF settled
<1>5. forgotten \in Breakers /\ forgotten.failures = 0 /\ forgotten.state = settled.state
  BY <1>4 DEF Breakers
<1> HIDE DEF forgotten
<1>. QED
  BY <1>2, <1>3, <1>4, <1>5

(* A failure counts; it opens a half-open breaker, and a closed one at its    *)
(* threshold, with the age of the call that failed.                           *)
LEMMA FailureFits ==
  ASSUME NEW b \in Breakers, NEW age \in 0 .. RecoveryTimeout
  PROVE  /\ RecordFailure(b, age) \in Breakers
         /\ RecordFailure(b, age).failures = b.failures + 1
         /\ RecordFailure(b, age).state # "half_open"
         /\ RecordFailure(b, age).state = "closed" =>
              b.state = "closed" /\ b.failures + 1 < FailureThreshold
         /\ RecordFailure(b, age).state = "open" =>
              RecordFailure(b, age).age = IF b.state = "open" THEN b.age ELSE age
<1> DEFINE counted == [b EXCEPT !.failures = b.failures + 1]
           opens == \/ b.state = "half_open"
                    \/ b.state = "closed" /\ counted.failures >= FailureThreshold
           one == [counted EXCEPT !.state = "open"]
           two == [one EXCEPT !.age = age]
           three == [two EXCEPT !.successes = 0]
<1>1. b.failures \in Nat /\ b.failures + 1 \in Nat /\ b.state \in BreakerStates
  BY DEF Breakers
<1>2. /\ counted \in Breakers /\ counted.state = b.state
      /\ counted.failures = b.failures + 1 /\ counted.age = b.age
  BY <1>1 DEF Breakers
<1>3. RecordFailure(b, age) = IF opens THEN ToOpen(counted, age) ELSE counted
  BY DEF RecordFailure
<1> HIDE DEF counted
<1>4. ToOpen(counted, age) = three
  BY <1>2 DEF ToOpen, Breakers
<1>5. one \in Breakers /\ one.state = "open" /\ one.failures = counted.failures
  BY <1>2 DEF Breakers, BreakerStates
<1> HIDE DEF one
<1>6. two \in Breakers /\ two.state = "open" /\ two.failures = counted.failures /\ two.age = age
  BY <1>5 DEF Breakers
<1> HIDE DEF two
<1>7. /\ three \in Breakers /\ three.state = "open"
      /\ three.failures = counted.failures /\ three.age = age
  BY <1>6, BreakerConfig DEF Breakers
<1> HIDE DEF three
<1>8. CASE opens
  BY <1>2, <1>3, <1>4, <1>7, <1>8
<1>9. CASE ~opens
  BY <1>1, <1>2, <1>3, <1>9, BreakerConfig DEF BreakerStates
<1>. QED
  BY <1>8, <1>9

-----------------------------------------------------------------------------
TypesFit ==
  /\ breakers \in [Ops -> Breakers]
  /\ calls \in Seq(Calls) /\ Len(calls) <= MaxDepth
  /\ streak \in [Ops -> Nat]
  /\ probed \in [Ops -> BOOLEAN]

(* The calls are in the order they started in; a trial call knows the breaker *)
(* that is registered.                                                        *)
StackOrder == \A i, j \in 1 .. Len(calls) : i <= j => calls[j].age <= calls[i].age
TrialsLive == \A i \in 1 .. Len(calls) : calls[i].probe => calls[i].live

LiveCalls(o) == {i \in 1 .. Len(calls) : calls[i].op = o /\ calls[i].live}

(* A closed breaker is below its threshold; an open one counts on, once for   *)
(* each call that still runs under it.                                        *)
FailuresFit ==
  \A o \in Ops :
    /\ breakers[o].state = "closed" =>
         breakers[o].failures = streak[o] /\ breakers[o].failures < FailureThreshold
    /\ breakers[o].state = "half_open" => breakers[o].failures = 0
    /\ breakers[o].state = "open" =>
         breakers[o].failures + Cardinality(LiveCalls(o)) <= FailureThreshold + MaxDepth

(* While no trial of a half-open breaker has come back one still runs, and    *)
(* what runs inside of it under the same breaker is a trial as well: none of  *)
(* the calls from before can return first.                                    *)
TrialAt(o, p) ==
  /\ calls[p].op = o /\ calls[p].probe
  /\ \A i \in p .. Len(calls) : calls[i].op = o /\ calls[i].live => calls[i].probe
TrialRuns ==
  \A o \in Ops : breakers[o].state = "half_open" /\ ~probed[o]
                   => \E p \in 1 .. Len(calls) : TrialAt(o, p)

IInv == /\ TypesFit /\ StackOrder /\ TrialsLive /\ FailuresFit
        /\ RunningBeforeOpening /\ TrialRuns

(* The calls that run are finitely many.                                      *)
LEMMA LiveCallsFinite ==
  ASSUME TypesFit, NEW o
  PROVE  /\ IsFiniteSet(LiveCalls(o)) /\ Cardinality(LiveCalls(o)) \in Nat
         /\ Cardinality(LiveCalls(o)) <= MaxDepth
         /\ Len(calls) \in Nat
<1>1. Len(calls) \in Nat /\ Len(calls) <= MaxDepth
  BY DEF TypesFit
<1>2. LiveCalls(o) \in SUBSET (1 .. Len(calls))
  BY DEF LiveCalls
<1>3. IsFiniteSet(1 .. Len(calls)) /\ Cardinality(1 .. Len(calls)) = Len(calls)
  <2>1. ASSUME NEW n \in Nat PROVE IsFiniteSet(1 .. n) /\ Cardinality(1 .. n) = n
    <3>1. \A a, b \in Int : /\ IsFiniteSet(a .. b)
                            /\ Cardinality(a .. b) = IF a > b THEN 0 ELSE b - a + 1
      BY FS_Interval, Zenon
    <3>2. /\ 1 \in Int /\ n \in Int
          /\ (IF 1 > n THEN 0 ELSE n - 1 + 1) = n
      OBVIOUS
    <3>. QED
      BY <3>1, <3>2, Zenon
  <2>. QED
    BY <1>1, <2>1, Zenon
<1>4. /\ IsFiniteSet(LiveCalls(o))
      /\ Cardinality(LiveCalls(o)) <= Cardinality(1 .. Len(calls))
  BY <1>2, <1>3, FS_Subset
<1>5. Cardinality(LiveCalls(o)) \in Nat
  BY <1>4, FS_CardinalityType
<1>. QED
  BY <1>1, <1>3, <1>4, <1>5, SupervisorConfig

(* Steps that let no call in and open no breaker: calls leave or lose their   *)
(* marks, a breaker stays as it is or is closed.                              *)
LEMMA Unwinding ==
  ASSUME IInv, TypesFit', TrialRuns', Len(calls') <= Len(calls),
         \A i \in 1 .. Len(calls') :
           /\ calls'[i].op = calls[i].op /\ calls'[i].age = calls[i].age
           /\ calls'[i].live => calls[i].live
           /\ calls'[i].probe => calls'[i].live,
         \A o \in Ops :
           /\ breakers'[o].state # "closed" =>
                /\ breakers'[o].state = breakers[o].state
                /\ breakers'[o].failures = breakers[o].failures
                /\ breakers'[o].age = breakers[o].age
           /\ breakers'[o].state = "closed" =>
                /\ breakers'[o].failures = streak'[o]
                /\ breakers'[o].failures < FailureThreshold
  PROVE  IInv'
<1>1. /\ TypesFit /\ StackOrder /\ TrialsLive /\ FailuresFit /\ RunningBeforeOpening
  BY DEF IInv
<1>2. Len(calls) \in Nat /\ Len(calls') \in Nat
  BY <1>1 DEF TypesFit
<1>3. \A i \in 1 .. Len(calls') : i \in 1 .. Len(calls)
  BY <1>2
<1>4. StackOrder'
  BY <1>1, <1>3 DEF StackOrder
<1>5. TrialsLive'
  BY DEF TrialsLive
<1>6. FailuresFit'
  <2>1. \A o \in Ops : LiveCalls(o)' \subseteq LiveCalls(o)
    BY <1>3 DEF LiveCalls
  <2>2. \A o \in Ops : Cardinality(LiveCalls(o)') <= Cardinality(LiveCalls(o))
    <3> TAKE o \in Ops
    <3>1. LiveCalls(o)' \in SUBSET LiveCalls(o) /\ IsFiniteSet(LiveCalls(o))
      BY <1>1, <2>1, LiveCallsFinite
    <3> DEFINE S == LiveCalls(o)
               T == LiveCalls(o)'
    <3> HIDE DEF S, T
    <3>2. T \in SUBSET S /\ IsFiniteSet(S)
      BY <3>1 DEF S, T
    <3>3. Cardinality(T) <= Cardinality(S)
      BY <3>2, FS_Subset
    <3>. QED
      BY <3>3 DEF S, T
  <2>3. ASSUME NEW o \in Ops, breakers'[o].state = "open"
        PROVE  breakers'[o].failures + Cardinality(LiveCalls(o)')
                 <= FailureThreshold + MaxDepth
    <3>1. /\ breakers'[o].failures = breakers[o].failures
          /\ breakers[o].failures + Cardinality(LiveCalls(o)) <= FailureThreshold + MaxDepth
      BY <1>1, <2>3 DEF FailuresFit
    <3>2. breakers[o].failures \in Nat
      BY <1>1 DEF TypesFit, Breakers
    <3>3. Cardinality(LiveCalls(o)) \in Nat /\ Cardinality(LiveCalls(o)') \in Nat
      <4>1. IsFiniteSet(LiveCalls(o)) /\ Cardinality(LiveCalls(o)) \in Nat
        BY <1>1, LiveCallsFinite
      <4>2. IsFiniteSet(LiveCalls(o)')
        BY <2>1, <4>1, FS_Subset
      <4>. QED
        BY <4>1, <4>2, FS_CardinalityType
    <3>. QED
      BY <2>2, <3>1, <3>2, <3>3, BreakerConfig, SupervisorConfig
  <2>4. \A o \in Ops : breakers'[o].state = "half_open" => breakers'[o].failures = 0
    BY <1>1 DEF FailuresFit
  <2>. QED
    BY <2>3, <2>4 DEF FailuresFit
<1>7. RunningBeforeOpening'
  <2> SUFFICES ASSUME NEW i \in 1 .. Len(calls'), calls'[i].live,
                      breakers'[calls'[i].op].state = "open"
               PROVE  calls'[i].age >= breakers'[calls'[i].op].age
    BY DEF RunningBeforeOpening
  <2>1. i \in 1 .. Len(calls) /\ calls[i].live /\ calls'[i].op = calls[i].op
    BY <1>3
  <2>2. calls[i].op \in Ops
    <3>1. calls[i] \in Calls
      BY <1>1, <2>1, ElementOfSeq DEF TypesFit
    <3>. QED
      BY <3>1 DEF Calls
  <2>. QED
    BY <1>1, <2>1, <2>2 DEF RunningBeforeOpening
<1>. QED
  BY <1>4, <1>5, <1>6, <1>7 DEF IInv

(* The invariant of the breakers holds before the first call.                  *)
LEMMA InitInv == Init => IInv
<1> SUFFICES ASSUME Init PROVE IInv
  OBVIOUS
<1>1. /\ breakers = [o \in Ops |-> FreshBreaker] /\ calls = <<>>
      /\ streak = [o \in Ops |-> 0] /\ probed = [o \in Ops |-> FALSE]
  BY DEF Init
<1>2. calls \in Seq(Calls) /\ Len(calls) = 0
  BY <1>1, EmptySeq
<1>3. TypesFit
  BY <1>1, <1>2, FreshFits, SupervisorConfig DEF TypesFit
<1>4. FailuresFit
  BY <1>1, FreshFits, BreakerConfig DEF FailuresFit
<1>5. TrialRuns
  BY <1>1, FreshFits DEF TrialRuns
<1>. QED
  BY <1>2, <1>3, <1>4, <1>5 DEF IInv, StackOrder, TrialsLive, RunningBeforeOpening

(* Nothing the breakers see changes.                                          *)
LEMMA QuietInv ==
  ASSUME IInv, UNCHANGED <<breakers, calls, streak, probed>>
  PROVE  IInv'
<1>1. TypesFit' /\ StackOrder' /\ TrialsLive' /\ RunningBeforeOpening'
  BY DEF IInv, TypesFit, StackOrder, TrialsLive, RunningBeforeOpening
<1>2. FailuresFit'
  BY DEF IInv, FailuresFit, LiveCalls
<1>3. TrialRuns'
  BY DEF IInv, TrialRuns, TrialAt
<1>. QED
  BY <1>1, <1>2, <1>3 DEF IInv

(* Retrying changes nothing but the attempt of the innermost call.            *)
LEMMA RetryInv ==
  ASSUME IInv, Retry
  PROVE  IInv'
<1> DEFINE n == Len(calls)
           new == [calls[n] EXCEPT !.attempt = calls[n].attempt + 1]
<1>1. TypesFit /\ TrialsLive /\ FailuresFit /\ TrialRuns
  BY DEF IInv
<1>2. /\ calls # <<>> /\ calls[n].attempt < MaxAttempts
      /\ calls' = [calls EXCEPT ![n] = new]
      /\ UNCHANGED <<breakers, streak, probed>>
  BY DEF Retry, Current, observers
<1>3. calls \in Seq(Calls) /\ n \in 1 .. Len(calls) /\ n \in Nat
  BY <1>1, <1>2, EmptySeq DEF TypesFit
<1>4. calls[n] \in Calls
  BY <1>3, ElementOfSeq
<1>5. /\ new \in Calls /\ new.op = calls[n].op /\ new.age = calls[n].age
      /\ new.live = calls[n].live /\ new.probe = calls[n].probe
  <2>1. calls[n].attempt + 1 \in 1 .. MaxAttempts
    BY <1>2, <1>4, SupervisorConfig DEF Calls
  <2>. QED
    BY <1>4, <2>1 DEF Calls
<1> HIDE DEF new
<1>6. /\ calls' \in Seq(Calls) /\ Len(calls') = Len(calls)
      /\ \A i \in 1 .. Len(calls) : calls'[i] = IF i = n THEN new ELSE calls[i]
  BY <1>2, <1>3, <1>5, ExceptSeq
<1>7. \A i \in 1 .. Len(calls) :
        /\ calls'[i].op = calls[i].op /\ calls'[i].age = calls[i].age
        /\ calls'[i].live = calls[i].live /\ calls'[i].probe = calls[i].probe
  BY <1>5, <1>6
<1>8. TypesFit'
  BY <1>1, <1>2, <1>6 DEF TypesFit
<1>9. TrialRuns'
  <2>1. \A o, p : p \in 1 .. Len(calls) /\ TrialAt(o, p) => TrialAt(o, p)'
    BY <1>3, <1>6, <1>7 DEF TrialAt
  <2>. QED
    BY <1>1, <1>2, <1>6, <2>1 DEF TrialRuns
<1>10. \A i \in 1 .. Len(calls') :
         /\ calls'[i].op = calls[i].op /\ calls'[i].age = calls[i].age
         /\ calls'[i].live => calls[i].live
         /\ calls'[i].probe => calls'[i].live
  BY <1>1, <1>6, <1>7 DEF TrialsLive
<1>11. \A o \in Ops :
         breakers'[o].state = "closed" =>
           breakers'[o].failures = streak'[o] /\ breakers'[o].failures < FailureThreshold
  BY <1>1, <1>2 DEF FailuresFit
<1>12. Len(calls') <= Len(calls)
  BY <1>3, <1>6
<1>. QED
  BY <1>2, <1>8, <1>9, <1>10, <1>11, <1>12, Unwinding

(* The innermost call returns: it leaves the stack, and trials of a breaker   *)
(* that no longer is half-open lose their mark.                               *)
LEMMA ReturnedFits ==
  ASSUME TypesFit, TrialsLive, calls # <<>>, NEW o, calls' = Outdated(o)
  PROVE  /\ calls' \in Seq(Calls) /\ Len(calls') = Len(calls) - 1
         /\ Len(calls) \in 1 .. MaxDepth /\ Current \in Calls
         /\ \A i \in 1 .. Len(calls') :
              /\ calls'[i].op = calls[i].op /\ calls'[i].age = calls[i].age
              /\ calls'[i].live = calls[i].live
              /\ calls'[i].probe => calls[i].probe
              /\ calls[i].op # o \/ breakers'[o].state = "half_open" =>
                   calls'[i].probe = calls[i].probe
<1>1. /\ calls \in Seq(Calls) /\ Len(calls) \in Nat /\ Len(calls) # 0
      /\ Len(calls) <= MaxDepth
  BY EmptySeq DEF TypesFit
<1> DEFINE n == Len(calls) - 1
<1>2. n \in Nat /\ \A i \in 1 .. n : i \in 1 .. Len(calls)
  BY <1>1
<1>3. \A i \in 1 .. Len(calls) : calls[i] \in Calls
  BY <1>1, ElementOfSeq
<1>4. /\ Len(Returned) = n
      /\ \A i \in 1 .. n : Returned[i] = calls[i]
  <2>1. /\ Len(SubSeq(calls, 1, n)) = IF 1 <= n THEN n - 1 + 1 ELSE 0
        /\ \A i \in 1 .. n - 1 + 1 : SubSeq(calls, 1, n)[i] = calls[1 + i - 1]
    BY <1>2, <1>3, SubSeqProperties
  <2>2. n - 1 + 1 = n /\ \A i \in 1 .. n : calls[1 + i - 1] = calls[i]
    BY <1>2
  <2>3. Returned = SubSeq(calls, 1, n)
    BY DEF Returned
  <2> HIDE DEF n
  <2>4. Len(Returned) = IF 1 <= n THEN n ELSE 0
    BY <2>1, <2>2, <2>3
  <2>5. \A i \in 1 .. n : Returned[i] = calls[i]
    BY <2>1, <2>2, <2>3
  <2>. QED
    BY <1>2, <2>4, <2>5
<1> DEFINE mark(i) == calls[i].probe /\ ~(calls[i].op = o /\ breakers'[o].state # "half_open")
           new(i) == [calls[i] EXCEPT !.probe = mark(i)]
<1>5. calls' = [i \in 1 .. n |-> new(i)]
  BY <1>4 DEF Outdated
<1>6. ASSUME NEW i \in 1 .. n
      PROVE  /\ new(i) \in Calls
             /\ new(i).op = calls[i].op /\ new(i).age = calls[i].age
             /\ new(i).live = calls[i].live
             /\ new(i).probe => calls[i].probe
             /\ calls[i].op # o \/ breakers'[o].state = "half_open" =>
                   new(i).probe = calls[i].probe
  <2>1. calls[i] \in Calls
    BY <1>2, <1>3
  <2>2. mark(i) \in BOOLEAN
    OBVIOUS
  <2>3. /\ mark(i) => calls[i].probe
        /\ calls[i].op # o \/ breakers'[o].state = "half_open" => mark(i) = calls[i].probe
    BY <2>1 DEF Calls
  <2> HIDE DEF mark
  <2>4. /\ new(i) \in Calls
        /\ new(i).op = calls[i].op /\ new(i).age = calls[i].age
        /\ new(i).live = calls[i].live /\ new(i).probe = mark(i)
    BY <2>1, <2>2 DEF Calls
  <2>. QED
    BY <2>3, <2>4
<1> HIDE DEF new
<1>7. calls' \in Seq(Calls) /\ Len(calls') = n /\ \A i \in 1 .. n : calls'[i] = new(i)
  <2>1. calls' \in [1 .. n -> Calls]
    BY <1>5, <1>6
  <2>2. calls' \in Seq(Calls)
    BY <1>2, <2>1, SeqDef
  <2>. QED
    BY <1>2, <1>5, <2>1, <2>2
<1>8. Len(calls) \in 1 .. MaxDepth
  BY <1>1, SupervisorConfig
<1>9. Current \in Calls
  BY <1>3, <1>8, SupervisorConfig DEF Current
<1>. QED
  BY <1>6, <1>7, <1>8, <1>9

(* Whatever returns, the trial of a half-open breaker is still there or its   *)
(* return is on record.                                                       *)
LEMMA TrialsReturn ==
  ASSUME IInv, calls # <<>>, NEW o \in Ops, o = Current.op, calls' = Outdated(o),
         \A v \in Ops : breakers'[v].state = "half_open" =>
                          breakers[v].state = "half_open",
         \A v \in Ops : probed[v] => probed'[v],
         breakers'[o].state = "half_open" /\ Current.probe => probed'[o]
  PROVE  TrialRuns'
<1>1. TypesFit /\ TrialsLive /\ TrialRuns
  BY DEF IInv
<1> DEFINE n == Len(calls)
<1>2. /\ Len(calls') = n - 1 /\ n \in 1 .. MaxDepth
      /\ \A i \in 1 .. n - 1 :
           /\ calls'[i].op = calls[i].op /\ calls'[i].live = calls[i].live
           /\ calls[i].op # o \/ breakers'[o].state = "half_open" =>
                calls'[i].probe = calls[i].probe
  BY <1>1, ReturnedFits
<1> SUFFICES ASSUME NEW v \in Ops, breakers'[v].state = "half_open", ~probed'[v]
             PROVE  \E p \in 1 .. Len(calls') : TrialAt(v, p)'
  BY DEF TrialRuns
<1>3. PICK p \in 1 .. n : TrialAt(v, p)
  BY <1>1 DEF TrialRuns
<1>4. p # n
  <2> SUFFICES ASSUME p = n PROVE FALSE
    OBVIOUS
  <2>1. Current.op = v /\ Current.probe
    BY <1>3 DEF TrialAt, Current
  <2>. QED
    BY <2>1
<1>5. \A i \in 1 .. n - 1 : calls[i].op = v => calls'[i].probe = calls[i].probe
  BY <1>2
<1>6. p \in 1 .. n - 1 /\ \A i \in p .. n - 1 : i \in p .. n /\ i \in 1 .. n - 1
  BY <1>2, <1>3, <1>4, SupervisorConfig
<1>7. calls'[p].op = v /\ calls'[p].probe
  BY <1>2, <1>3, <1>5, <1>6 DEF TrialAt
<1>8. ASSUME NEW i \in p .. n - 1, calls'[i].op = v, calls'[i].live
      PROVE  calls'[i].probe
  <2>1. calls[i].op = v /\ calls[i].live /\ calls'[i].probe = calls[i].probe
    BY <1>2, <1>5, <1>6, <1>8
  <2>. QED
    BY <1>3, <1>6, <2>1 DEF TrialAt
<1>9. \A i \in p .. Len(calls') : calls'[i].op = v /\ calls'[i].live => calls'[i].probe
  BY <1>2, <1>8
<1>10. TrialAt(v, p)'
  BY <1>7, <1>9 DEF TrialAt
<1>. QED
  BY <1>2, <1>6, <1>10

(* A success can close a half-open breaker, or count in it.                   *)
LEMMA SucceedInv ==
  ASSUME IInv, Succeed
  PROVE  IInv'
<1>1. TypesFit /\ TrialsLive /\ FailuresFit
  BY DEF IInv
<1>2. PICK o : o = Current.op
  OBVIOUS
<1>3. /\ calls # <<>> /\ calls' = Outdated(o)
      /\ breakers' = IF Current.live THEN [breakers EXCEPT ![o] = RecordSuccess(@)]
                     ELSE breakers
      /\ streak' = IF Current.live THEN [streak EXCEPT ![o] = 0] ELSE streak
      /\ probed' = [probed EXCEPT ![o] = @ \/ (Current.live /\ Current.probe)]
  BY <1>2 DEF Succeed
<1>4. /\ calls' \in Seq(Calls) /\ Len(calls') = Len(calls) - 1
      /\ Len(calls) \in 1 .. MaxDepth /\ Current \in Calls
      /\ \A i \in 1 .. Len(calls') :
           /\ calls'[i].op = calls[i].op /\ calls'[i].age = calls[i].age
           /\ calls'[i].live = calls[i].live
           /\ calls'[i].probe => calls[i].probe
  BY <1>1, <1>3, ReturnedFits
<1>5. o \in Ops
  BY <1>2, <1>4 DEF Calls
<1>6. Current.probe => Current.live
  BY <1>1, <1>4 DEF Current, TrialsLive
<1>7. breakers[o] \in Breakers
  BY <1>1, <1>5 DEF TypesFit
<1>8. /\ breakers' \in [Ops -> Breakers]
      /\ \A v \in Ops \ {o} : breakers'[v] = breakers[v] /\ streak'[v] = streak[v]
      /\ IF Current.live THEN breakers'[o] = RecordSuccess(breakers[o]) /\ streak'[o] = 0
         ELSE breakers'[o] = breakers[o] /\ streak'[o] = streak[o]
  BY <1>1, <1>3, <1>5, <1>7, SuccessFits DEF TypesFit
<1>9. /\ probed' \in [Ops -> BOOLEAN]
      /\ \A v \in Ops : probed[v] => probed'[v]
      /\ Current.probe => probed'[o]
  BY <1>1, <1>3, <1>5, <1>6 DEF TypesFit
<1>10. TypesFit'
  <2>1. streak' \in [Ops -> Nat]
    BY <1>1, <1>3 DEF TypesFit
  <2>2. Len(calls') <= MaxDepth
    BY <1>4, SupervisorConfig
  <2>. QED
    BY <1>4, <1>8, <1>9, <2>1, <2>2 DEF TypesFit
<1>11. \A v \in Ops :
         /\ breakers'[v].state # "closed" =>
              /\ breakers'[v].state = breakers[v].state
              /\ breakers'[v].failures = breakers[v].failures
              /\ breakers'[v].age = breakers[v].age
         /\ breakers'[v].state = "closed" =>
              breakers'[v].failures = streak'[v] /\ breakers'[v].failures < FailureThreshold
  <2>1. ASSUME NEW v \in Ops \ {o}
        PROVE  breakers[v].state = "closed" =>
                 breakers[v].failures = streak[v] /\ breakers[v].failures < FailureThreshold
    BY <1>1 DEF FailuresFit
  <2>2. breakers[o].state = "closed" =>
          breakers[o].failures = streak[o] /\ breakers[o].failures < FailureThreshold
    BY <1>1, <1>5 DEF FailuresFit
  <2>. QED
    BY <1>7, <1>8, <2>1, <2>2, SuccessFits, BreakerConfig
<1>12. TrialRuns'
  <2>1. \A v \in Ops : breakers'[v].state = "half_open" => breakers[v].state = "half_open"
    BY <1>11
  <2>. QED
    BY <1>2, <1>3, <1>5, <1>9, <2>1, TrialsReturn
<1>13. \A i \in 1 .. Len(calls') :
         /\ calls'[i].op = calls[i].op /\ calls'[i].age = calls[i].age
         /\ calls'[i].live => calls[i].live
         /\ calls'[i].probe => calls'[i].live
  <2>1. \A i \in 1 .. Len(calls') : i \in 1 .. Len(calls)
    BY <1>4, SupervisorConfig
  <2>. QED
    BY <1>1, <1>4, <2>1 DEF TrialsLive
<1>14. Len(calls') <= Len(calls)
  BY <1>4, SupervisorConfig
<1>. QED
  BY <1>10, <1>11, <1>12, <1>13, <1>14, Unwinding

(* A failure may open the breaker: the calls that still run under it started  *)
(* no later, and one of those it may yet count has gone.                      *)
LEMMA FailInv ==
  ASSUME IInv, Fail
  PROVE  IInv'
<1>1. /\ TypesFit /\ StackOrder /\ TrialsLive /\ FailuresFit
      /\ RunningBeforeOpening /\ TrialRuns
  BY DEF IInv
<1>2. PICK o : o = Current.op
  OBVIOUS
<1>3. PICK n : n = Len(calls)
  OBVIOUS
<1>4. /\ calls # <<>> /\ calls' = Outdated(o)
      /\ breakers' = IF Current.live
                     THEN [breakers EXCEPT ![o] = RecordFailure(@, Current.age)] ELSE breakers
      /\ streak' = IF Current.live
                   THEN [streak EXCEPT ![o] = Least(@ + 1, FailureThreshold + MaxDepth)]
                   ELSE streak
      /\ probed' = probed
  BY <1>2 DEF Fail
<1>5. /\ calls' \in Seq(Calls) /\ Len(calls') = n - 1
      /\ n \in 1 .. MaxDepth /\ n \in Nat /\ Current \in Calls
      /\ \A i \in 1 .. n - 1 :
           /\ calls'[i].op = calls[i].op /\ calls'[i].age = calls[i].age
           /\ calls'[i].live = calls[i].live
           /\ calls'[i].probe => calls[i].probe
  BY <1>1, <1>3, <1>4, ReturnedFits
<1>6. o \in Ops /\ Current.age \in 0 .. RecoveryTimeout
  BY <1>2, <1>5 DEF Calls
<1>7. Current.probe => Current.live
  BY <1>1, <1>3, <1>5 DEF Current, TrialsLive
<1>8. breakers[o] \in Breakers /\ streak[o] \in Nat
  BY <1>1, <1>6 DEF TypesFit
<1>9. /\ breakers' \in [Ops -> Breakers]
      /\ \A v \in Ops \ {o} : breakers'[v] = breakers[v] /\ streak'[v] = streak[v]
      /\ IF Current.live
         THEN /\ breakers'[o] = RecordFailure(breakers[o], Current.age)
              /\ streak'[o] = Least(streak[o] + 1, FailureThreshold + MaxDepth)
         ELSE breakers'[o] = breakers[o] /\ streak'[o] = streak[o]
  BY <1>1, <1>4, <1>6, <1>8, FailureFits DEF TypesFit
<1>10. TypesFit'
  <2>1. Least(streak[o] + 1, FailureThreshold + MaxDepth) \in Nat
    BY <1>8, BreakerConfig, SupervisorConfig DEF Least
  <2>2. streak' \in [Ops -> Nat]
    BY <1>1, <1>4, <2>1 DEF TypesFit
  <2>3. Len(calls') <= MaxDepth
    BY <1>5, SupervisorConfig
  <2>. QED
    BY <1>1, <1>4, <1>5, <1>9, <2>2, <2>3 DEF TypesFit
<1>11. \A i \in 1 .. n - 1 : i \in 1 .. n
  BY <1>5
<1>12. StackOrder'
  BY <1>1, <1>3, <1>5, <1>11 DEF StackOrder
<1>13. TrialsLive'
  BY <1>1, <1>3, <1>5, <1>11 DEF TrialsLive
<1>14. TrialRuns'
  <2>1. \A v \in Ops : breakers'[v].state = "half_open" => breakers[v].state = "half_open"
    BY <1>6, <1>8, <1>9, FailureFits
  <2>2. ~(breakers'[o].state = "half_open" /\ Current.probe)
        \/ ~Current.live
    BY <1>6, <1>8, <1>9, FailureFits
  <2>3. breakers'[o].state = "half_open" /\ Current.probe => probed'[o]
    BY <1>7, <2>2
  <2>. QED
    BY <1>2, <1>4, <1>6, <2>1, <2>3, TrialsReturn
<1>15. FailuresFit'
  <2>1. ASSUME NEW v \in Ops
        PROVE  /\ LiveCalls(v)' \in SUBSET LiveCalls(v)
               /\ v = o /\ Current.live => LiveCalls(v)' \in SUBSET (LiveCalls(v) \ {n})
                                           /\ n \in LiveCalls(v)
    <3>1. LiveCalls(v)' = {i \in 1 .. n - 1 : calls[i].op = v /\ calls[i].live}
      BY <1>5 DEF LiveCalls
    <3>2. LiveCalls(v) = {i \in 1 .. n : calls[i].op = v /\ calls[i].live}
      BY <1>3 DEF LiveCalls
    <3>3. n \notin 1 .. n - 1 /\ n \in 1 .. n
      BY <1>5
    <3>4. v = o /\ Current.live => calls[n].op = v /\ calls[n].live
      BY <1>2, <1>3 DEF Current
    <3>. QED
      BY <1>11, <3>1, <3>2, <3>3, <3>4
  <2>2. ASSUME NEW v \in Ops
        PROVE  /\ Cardinality(LiveCalls(v)) \in Nat /\ Cardinality(LiveCalls(v)') \in Nat
               /\ Cardinality(LiveCalls(v)') <= Cardinality(LiveCalls(v))
               /\ v = o /\ Current.live =>
                    Cardinality(LiveCalls(v)') + 1 <= Cardinality(LiveCalls(v))
               /\ Cardinality(LiveCalls(v)) <= MaxDepth
    <3> DEFINE S == LiveCalls(v)
               T == LiveCalls(v)'
    <3>1. IsFiniteSet(S) /\ Cardinality(S) \in Nat /\ Cardinality(S) <= MaxDepth
      BY <1>1, LiveCallsFinite
    <3>2. T \in SUBSET S /\ (v = o /\ Current.live => T \in SUBSET (S \ {n}) /\ n \in S)
      BY <2>1
    <3> HIDE DEF S, T
    <3>3. IsFiniteSet(T) /\ Cardinality(T) <= Cardinality(S)
      BY <3>1, <3>2, FS_Subset
    <3>4. Cardinality(T) \in Nat
      BY <3>3, FS_CardinalityType
    <3>5. ASSUME v = o, Current.live PROVE Cardinality(T) + 1 <= Cardinality(S)
      <4>1. IsFiniteSet(S \ {n}) /\ Cardinality(S \ {n}) = Cardinality(S) - 1
        BY <3>1, <3>2, <3>5, FS_RemoveElement
      <4>2. Cardinality(T) <= Cardinality(S \ {n})
        BY <3>2, <3>5, <4>1, FS_Subset
      <4>. QED
        BY <3>1, <3>4, <4>1, <4>2
    <3>. QED
      BY <3>1, <3>3, <3>4, <3>5 DEF S, T
  <2>3. ASSUME NEW v \in Ops
        PROVE  /\ breakers[v].failures \in Nat
               /\ breakers[v].state \in BreakerStates
               /\ breakers[v].state = "closed" =>
                    breakers[v].failures = streak[v] /\ breakers[v].failures < FailureThreshold
               /\ breakers[v].state = "half_open" => breakers[v].failures = 0
               /\ breakers[v].state = "open" =>
                    breakers[v].failures + Cardinality(LiveCalls(v)) <= FailureThreshold + MaxDepth
    <3>1. breakers[v] \in Breakers
      BY <1>1 DEF TypesFit
    <3>. QED
      BY <1>1, <3>1 DEF FailuresFit, Breakers
  <2>4. ASSUME NEW v \in Ops, v # o \/ ~Current.live
        PROVE  /\ breakers'[v].state = "closed" =>
                    breakers'[v].failures = streak'[v] /\ breakers'[v].failures < FailureThreshold
               /\ breakers'[v].state = "half_open" => breakers'[v].failures = 0
               /\ breakers'[v].state = "open" =>
                    breakers'[v].failures + Cardinality(LiveCalls(v)')
                      <= FailureThreshold + MaxDepth
    <3>1. breakers'[v] = breakers[v] /\ streak'[v] = streak[v]
      BY <1>9, <2>4
    <3>2. /\ Cardinality(LiveCalls(v)) \in Nat /\ Cardinality(LiveCalls(v)') \in Nat
          /\ Cardinality(LiveCalls(v)') <= Cardinality(LiveCalls(v))
      BY <2>2
    <3>. QED
      BY <2>3, <3>1, <3>2, BreakerConfig, SupervisorConfig
  <2>5. ASSUME Current.live
        PROVE  /\ breakers'[o].state = "closed" =>
                    breakers'[o].failures = streak'[o] /\ breakers'[o].failures < FailureThreshold
               /\ breakers'[o].state = "half_open" => breakers'[o].failures = 0
               /\ breakers'[o].state = "open" =>
                    breakers'[o].failures + Cardinality(LiveCalls(o)')
                      <= FailureThreshold + MaxDepth
    <3>1. /\ breakers'[o].failures = breakers[o].failures + 1
          /\ breakers'[o].state # "half_open"
          /\ breakers'[o].state = "closed" =>
               breakers[o].state = "closed" /\ breakers[o].failures + 1 < FailureThreshold
          /\ streak'[o] = Least(streak[o] + 1, FailureThreshold + MaxDepth)
      BY <1>6, <1>8, <1>9, <2>5, FailureFits
    <3>2. /\ Cardinality(LiveCalls(o)) \in Nat /\ Cardinality(LiveCalls(o)') \in Nat
          /\ Cardinality(LiveCalls(o)') + 1 <= Cardinality(LiveCalls(o))
          /\ Cardinality(LiveCalls(o)) <= MaxDepth
      BY <1>6, <2>2, <2>5
    <3>3. /\ breakers[o].failures \in Nat /\ breakers[o].state \in BreakerStates
          /\ breakers[o].state = "closed" =>
               breakers[o].failures = streak[o] /\ breakers[o].failures < FailureThreshold
          /\ breakers[o].state = "half_open" => breakers[o].failures = 0
          /\ breakers[o].state = "open" =>
               breakers[o].failures + Cardinality(LiveCalls(o)) <= FailureThreshold + MaxDepth
      BY <1>6, <2>3
    <3>4. breakers'[o].state = "closed" =>
            breakers'[o].failures = streak'[o] /\ breakers'[o].failures < FailureThreshold
      BY <1>8, <3>1, <3>3, BreakerConfig, SupervisorConfig DEF Least
    <3>5. breakers[o].failures + 1 + Cardinality(LiveCalls(o)') <= FailureThreshold + MaxDepth
      BY <3>2, <3>3, BreakerConfig, SupervisorConfig DEF BreakerStates
    <3>. QED
      BY <3>1, <3>4, <3>5
  <2>. QED
    BY <1>6, <2>4, <2>5 DEF FailuresFit
<1>16. RunningBeforeOpening'
  <2> SUFFICES ASSUME NEW i \in 1 .. n - 1, calls'[i].live,
                      breakers'[calls'[i].op].state = "open"
               PROVE  calls'[i].age >= breakers'[calls'[i].op].age
    BY <1>5 DEF RunningBeforeOpening
  <2>1. /\ i \in 1 .. n /\ i <= n /\ n \in 1 .. n
        /\ calls[i].live /\ calls'[i].op = calls[i].op /\ calls'[i].age = calls[i].age
    BY <1>5, <1>11
  <2>2. calls[i] \in Calls
    BY <1>1, <1>3, <2>1, ElementOfSeq DEF TypesFit
  <2>3. calls[i].op \in Ops
    BY <2>2 DEF Calls
  <2>4. breakers[calls[i].op].state = "open" => calls[i].age >= breakers[calls[i].op].age
    BY <1>1, <1>3, <2>1 DEF RunningBeforeOpening
  <2>5. Current.age <= calls[i].age
    BY <1>1, <1>3, <2>1 DEF StackOrder, Current
  <2>6. Current.age \in Int /\ calls[i].age \in Int
    BY <1>6, <2>2, BreakerConfig DEF Calls
  <2>7. CASE calls[i].op = o /\ Current.live
    <3>1. breakers'[o].age = IF breakers[o].state = "open" THEN breakers[o].age ELSE Current.age
      BY <1>6, <1>8, <1>9, <2>1, <2>7, FailureFits
    <3>. QED
      BY <2>1, <2>4, <2>5, <2>6, <2>7, <3>1
  <2>8. CASE ~(calls[i].op = o /\ Current.live)
    <3>1. breakers'[calls[i].op] = breakers[calls[i].op]
      BY <1>9, <2>3, <2>8
    <3>. QED
      BY <2>1, <2>4, <3>1
  <2>. QED
    BY <2>7, <2>8
<1>. QED
  BY <1>10, <1>12, <1>13, <1>14, <1>15, <1>16 DEF IInv

(* An interrupt takes the innermost calls away and records nothing.           *)
LEMMA InterruptInv ==
  ASSUME IInv, Interrupt
  PROVE  IInv'
<1>1. TypesFit /\ TrialsLive /\ FailuresFit /\ TrialRuns
  BY DEF IInv
<1>2. PICK depth \in 0 .. Len(calls) - 1 :
        /\ calls' = SubSeq(calls, 1, depth)
        /\ probed' = [o \in Ops |-> probed[o] \/ \E i \in depth + 1 .. Len(calls) :
                                      calls[i].op = o /\ calls[i].probe]
        /\ breakers' = breakers /\ streak' = streak
  BY DEF Interrupt
<1>3. calls \in Seq(Calls) /\ Len(calls) \in Nat /\ Len(calls) <= MaxDepth
  BY <1>1 DEF TypesFit
<1>4. \A i \in 1 .. depth : i \in 1 .. Len(calls)
  BY <1>3
<1>5. /\ calls' \in Seq(Calls) /\ Len(calls') = depth
      /\ \A i \in 1 .. depth : calls'[i] = calls[i]
  <2>1. \A i \in 1 .. depth : calls[i] \in Calls
    BY <1>3, <1>4, ElementOfSeq
  <2>2. /\ calls' \in Seq(Calls)
        /\ Len(calls') = IF 1 <= depth THEN depth - 1 + 1 ELSE 0
        /\ \A i \in 1 .. depth - 1 + 1 : calls'[i] = calls[1 + i - 1]
    BY <1>2, <2>1, SubSeqProperties
  <2>3. depth - 1 + 1 = depth /\ \A i \in 1 .. depth : calls[1 + i - 1] = calls[i]
    OBVIOUS
  <2>. QED
    BY <2>2, <2>3
<1>6. TypesFit'
  <2> DEFINE lost(o) == probed[o] \/ \E i \in depth + 1 .. Len(calls) :
                                       calls[i].op = o /\ calls[i].probe
  <2>1. probed' = [o \in Ops |-> lost(o)]
    BY <1>2
  <2>2. \A o \in Ops : lost(o) \in BOOLEAN
    OBVIOUS
  <2> HIDE DEF lost
  <2>3. probed' \in [Ops -> BOOLEAN]
    BY <2>1, <2>2
  <2>4. Len(calls') <= MaxDepth
    BY <1>3, <1>5, SupervisorConfig
  <2>. QED
    BY <1>1, <1>2, <1>5, <2>3, <2>4 DEF TypesFit
<1>7. TrialRuns'
  <2> SUFFICES ASSUME NEW o \in Ops, breakers'[o].state = "half_open", ~probed'[o]
               PROVE  \E p \in 1 .. Len(calls') : TrialAt(o, p)'
    BY DEF TrialRuns
  <2>1. ~probed[o] /\ \A i \in depth + 1 .. Len(calls) : ~(calls[i].op = o /\ calls[i].probe)
    BY <1>2
  <2>2. PICK p \in 1 .. Len(calls) : TrialAt(o, p)
    BY <1>1, <1>2, <2>1 DEF TrialRuns
  <2>3. p \in 1 .. depth
    BY <1>3, <2>1, <2>2 DEF TrialAt
  <2>4. \A i \in p .. depth : i \in p .. Len(calls) /\ i \in 1 .. depth
    BY <1>3, <2>3
  <2>5. TrialAt(o, p)'
    BY <1>5, <2>2, <2>3, <2>4 DEF TrialAt
  <2>. QED
    BY <1>5, <2>3, <2>5
<1>8. \A i \in 1 .. Len(calls') :
        /\ calls'[i].op = calls[i].op /\ calls'[i].age = calls[i].age
        /\ calls'[i].live => calls[i].live
        /\ calls'[i].probe => calls'[i].live
  BY <1>1, <1>4, <1>5 DEF TrialsLive
<1>9. \A o \in Ops :
        breakers'[o].state = "closed" =>
          breakers'[o].failures = streak'[o] /\ breakers'[o].failures < FailureThreshold
  BY <1>1, <1>2 DEF FailuresFit
<1>10. Len(calls') <= Len(calls)
  BY <1>3, <1>5
<1>. QED
  BY <1>2, <1>6, <1>7, <1>8, <1>9, <1>10, Unwinding

(* A reset breaker is closed, and no call is a trial of it any more.          *)
LEMMA ResetBreakerInv ==
  ASSUME IInv, NEW o \in Ops, ResetBreaker(o)
  PROVE  IInv'
<1>1. TypesFit /\ TrialsLive /\ FailuresFit /\ TrialRuns
  BY DEF IInv
<1> DEFINE new(i) == [calls[i] EXCEPT !.probe = calls[i].probe /\ calls[i].op # o]
<1>2. /\ breakers' = [breakers EXCEPT ![o] = FreshBreaker]
      /\ calls' = [i \in 1 .. Len(calls) |-> new(i)]
      /\ streak' = [streak EXCEPT ![o] = 0]
      /\ probed' = [probed EXCEPT ![o] = FALSE]
  BY DEF ResetBreaker
<1>3. calls \in Seq(Calls) /\ Len(calls) \in Nat /\ Len(calls) <= MaxDepth
  BY <1>1 DEF TypesFit
<1>4. ASSUME NEW i \in 1 .. Len(calls)
      PROVE  /\ new(i) \in Calls
             /\ new(i).op = calls[i].op /\ new(i).age = calls[i].age
             /\ new(i).live = calls[i].live
             /\ new(i).probe => calls[i].probe
             /\ calls[i].op # o => new(i).probe = calls[i].probe
  <2>1. calls[i] \in Calls
    BY <1>3, ElementOfSeq
  <2>. QED
    BY <2>1 DEF Calls
<1> HIDE DEF new
<1>5. /\ calls' \in Seq(Calls) /\ Len(calls') = Len(calls)
      /\ \A i \in 1 .. Len(calls) : calls'[i] = new(i)
  <2>1. calls' \in [1 .. Len(calls) -> Calls]
    BY <1>2, <1>4
  <2>2. calls' \in Seq(Calls)
    BY <1>3, <2>1, SeqDef
  <2>. QED
    BY <1>2, <1>3, <2>1, <2>2
<1>6. /\ \A v \in Ops \ {o} : /\ breakers'[v] = breakers[v] /\ streak'[v] = streak[v]
                              /\ probed'[v] = probed[v]
      /\ breakers'[o] = FreshBreaker /\ streak'[o] = 0
  BY <1>1, <1>2 DEF TypesFit
<1>7. TypesFit'
  <2>1. breakers' \in [Ops -> Breakers]
    BY <1>1, <1>2, FreshFits DEF TypesFit
  <2>2. streak' \in [Ops -> Nat] /\ probed' \in [Ops -> BOOLEAN]
    BY <1>1, <1>2 DEF TypesFit
  <2>. QED
    BY <1>3, <1>5, <2>1, <2>2 DEF TypesFit
<1>8. TrialRuns'
  <2> SUFFICES ASSUME NEW v \in Ops, breakers'[v].state = "half_open", ~probed'[v]
               PROVE  \E p \in 1 .. Len(calls') : TrialAt(v, p)'
    BY DEF TrialRuns
  <2>1. v # o /\ breakers[v].state = "half_open" /\ ~probed[v]
    BY <1>6, FreshFits
  <2>2. PICK p \in 1 .. Len(calls) : TrialAt(v, p)
    BY <1>1, <2>1 DEF TrialRuns
  <2>3. \A i \in p .. Len(calls) : i \in 1 .. Len(calls)
    BY <1>3, <2>2
  <2>4. TrialAt(v, p)'
    BY <1>4, <1>5, <2>1, <2>2, <2>3 DEF TrialAt
  <2>. QED
    BY <1>5, <2>2, <2>4
<1>9. \A i \in 1 .. Len(calls') :
        /\ calls'[i].op = calls[i].op /\ calls'[i].age = calls[i].age
        /\ calls'[i].live => calls[i].live
        /\ calls'[i].probe => calls'[i].live
  BY <1>1, <1>4, <1>5 DEF TrialsLive
<1>10. \A v \in Ops :
         /\ breakers'[v].state # "closed" => breakers'[v] = breakers[v]
         /\ breakers'[v].state = "closed" =>
              breakers'[v].failures = streak'[v] /\ breakers'[v].failures < FailureThreshold
  BY <1>1, <1>6, FreshFits, BreakerConfig DEF FailuresFit
<1>11. Len(calls') <= Len(calls)
  BY <1>3, <1>5
<1>. QED
  BY <1>7, <1>8, <1>9, <1>10, <1>11, Unwinding

(* Clearing leaves the calls in progress with breakers nobody asks.           *)
LEMMA ClearInv ==
  ASSUME IInv, Clear
  PROVE  IInv'
<1>1. TypesFit
  BY DEF IInv
<1> DEFINE new(i) == [calls[i] EXCEPT !.live = FALSE, !.probe = FALSE]
<1>2. /\ breakers' = [o \in Ops |-> FreshBreaker]
      /\ calls' = [i \in 1 .. Len(calls) |-> new(i)]
      /\ streak' = [o \in Ops |-> 0] /\ probed' = [o \in Ops |-> FALSE]
  BY DEF Clear
<1>3. calls \in Seq(Calls) /\ Len(calls) \in Nat /\ Len(calls) <= MaxDepth
  BY <1>1 DEF TypesFit
<1>4. ASSUME NEW i \in 1 .. Len(calls)
      PROVE  /\ new(i) \in Calls
             /\ new(i).op = calls[i].op /\ new(i).age = calls[i].age
             /\ ~new(i).live /\ ~new(i).probe
  <2>1. calls[i] \in Calls
    BY <1>3, ElementOfSeq
  <2> DEFINE mid == [calls[i] EXCEPT !.live = FALSE]
             end == [mid EXCEPT !.probe = FALSE]
  <2>2. new(i) = end
    BY <2>1 DEF Calls
  <2>3. mid \in Calls /\ mid.op = calls[i].op /\ mid.age = calls[i].age /\ mid.live = FALSE
    BY <2>1 DEF Calls
  <2> HIDE DEF mid, new
  <2>4. /\ end \in Calls /\ end.op = mid.op /\ end.age = mid.age
        /\ end.live = mid.live /\ end.probe = FALSE
    BY <2>3 DEF Calls
  <2>. QED
    BY <2>2, <2>3, <2>4
<1> HIDE DEF new
<1>5. /\ calls' \in Seq(Calls) /\ Len(calls') = Len(calls)
      /\ \A i \in 1 .. Len(calls) : calls'[i] = new(i)
  <2>1. calls' \in [1 .. Len(calls) -> Calls]
    BY <1>2, <1>4
  <2>2. calls' \in Seq(Calls)
    BY <1>3, <2>1, SeqDef
  <2>. QED
    BY <1>2, <1>3, <2>1, <2>2
<1>6. TypesFit'
  BY <1>2, <1>3, <1>5, FreshFits DEF TypesFit
<1>7. \A o \in Ops : /\ breakers'[o].state = "closed" /\ breakers'[o].failures = streak'[o]
                     /\ breakers'[o].failures < FailureThreshold
  BY <1>2, FreshFits, BreakerConfig
<1>8. TrialRuns'
  BY <1>7 DEF TrialRuns
<1>9. \A i \in 1 .. Len(calls') :
        /\ calls'[i].op = calls[i].op /\ calls'[i].age = calls[i].age
        /\ calls'[i].live => calls[i].live
        /\ calls'[i].probe => calls'[i].live
  BY <1>4, <1>5
<1>10. Len(calls') <= Len(calls)
  BY <1>3, <1>5
<1>. QED
  BY <1>6, <1>7, <1>8, <1>9, <1>10, Unwinding

(* Time passes for the breakers and the calls alike.                          *)
LEMMA TickInv ==
  ASSUME IInv, Tick
  PROVE  IInv'
<1>1. /\ TypesFit /\ StackOrder /\ TrialsLive /\ FailuresFit
      /\ RunningBeforeOpening /\ TrialRuns
  BY DEF IInv
<1> DEFINE new(i) == [calls[i] EXCEPT !.age = Least(calls[i].age + 1, RecoveryTimeout)]
<1>2. /\ breakers' = [o \in Ops |-> Older(breakers[o])]
      /\ calls' = [i \in 1 .. Len(calls) |-> new(i)]
      /\ streak' = streak /\ probed' = probed
  BY DEF Tick
<1>3. calls \in Seq(Calls) /\ Len(calls) \in Nat /\ Len(calls) <= MaxDepth
  BY <1>1 DEF TypesFit
<1>4. ASSUME NEW i \in 1 .. Len(calls)
      PROVE  /\ new(i) \in Calls
             /\ new(i).op = calls[i].op /\ new(i).live = calls[i].live
             /\ new(i).probe = calls[i].probe
             /\ new(i).age = Least(calls[i].age + 1, RecoveryTimeout)
             /\ calls[i].op \in Ops /\ calls[i].age \in 0 .. RecoveryTimeout
  <2>1. calls[i] \in Calls
    BY <1>3, ElementOfSeq
  <2>2. Least(calls[i].age + 1, RecoveryTimeout) \in 0 .. RecoveryTimeout
    BY <2>1, BreakerConfig DEF Calls, Least
  <2>. QED
    BY <2>1, <2>2 DEF Calls
<1> HIDE DEF new
<1>5. /\ calls' \in Seq(Calls) /\ Len(calls') = Len(calls)
      /\ \A i \in 1 .. Len(calls) : calls'[i] = new(i)
  <2>1. calls' \in [1 .. Len(calls) -> Calls]
    BY <1>2, <1>4
  <2>2. calls' \in Seq(Calls)
    BY <1>3, <2>1, SeqDef
  <2>. QED
    BY <1>2, <1>3, <2>1, <2>2
<1>6. \A o \in Ops : /\ breakers[o] \in Breakers /\ breakers'[o] \in Breakers
                     /\ breakers'[o].state = breakers[o].state
                     /\ breakers'[o].failures = breakers[o].failures
                     /\ breakers'[o].age = Least(breakers[o].age + 1, RecoveryTimeout)
  BY <1>1, <1>2, OlderFits DEF TypesFit
<1>7. TypesFit'
  BY <1>1, <1>2, <1>3, <1>5, <1>6 DEF TypesFit
<1>8. \A a, b \in 0 .. RecoveryTimeout :
        a <= b => Least(a + 1, RecoveryTimeout) <= Least(b + 1, RecoveryTimeout)
  BY BreakerConfig DEF Least
<1>9. StackOrder'
  <2> SUFFICES ASSUME NEW i \in 1 .. Len(calls), NEW j \in 1 .. Len(calls), i <= j
               PROVE  calls'[j].age <= calls'[i].age
    BY <1>5 DEF StackOrder
  <2>1. calls[j].age <= calls[i].age
    BY <1>1 DEF StackOrder
  <2>. QED
    BY <1>4, <1>5, <1>8, <2>1
<1>10. TrialsLive'
  BY <1>1, <1>4, <1>5 DEF TrialsLive
<1>11. FailuresFit'
  <2>1. \A o : LiveCalls(o)' = LiveCalls(o)
    BY <1>4, <1>5 DEF LiveCalls
  <2>. QED
    BY <1>1, <1>2, <1>6, <2>1 DEF FailuresFit
<1>12. RunningBeforeOpening'
  <2> SUFFICES ASSUME NEW i \in 1 .. Len(calls), calls'[i].live,
                      breakers'[calls'[i].op].state = "open"
               PROVE  calls'[i].age >= breakers'[calls'[i].op].age
    BY <1>5 DEF RunningBeforeOpening
  <2>1. /\ calls'[i].op = calls[i].op /\ calls[i].live /\ calls[i].op \in Ops
        /\ calls'[i].age = Least(calls[i].age + 1, RecoveryTimeout)
        /\ calls[i].age \in 0 .. RecoveryTimeout
    BY <1>4, <1>5
  <2>2. calls[i].age >= breakers[calls[i].op].age
    BY <1>1, <1>6, <2>1 DEF RunningBeforeOpening
  <2>3. breakers[calls[i].op].age \in 0 .. RecoveryTimeout
    BY <1>6, <2>1 DEF Breakers
  <2>. QED
    BY <1>6, <1>8, <2>1, <2>2, <2>3
<1>13. TrialRuns'
  <2>1. ASSUME NEW o, NEW p \in 1 .. Len(calls), TrialAt(o, p) PROVE TrialAt(o, p)'
    <3>1. \A i \in p .. Len(calls) : i \in 1 .. Len(calls)
      BY <1>3
    <3>. QED
      BY <1>4, <1>5, <2>1, <3>1 DEF TrialAt
  <2>. QED
    BY <1>1, <1>2, <1>5, <1>6, <2>1 DEF TrialRuns
<1>. QED
  BY <1>7, <1>9, <1>10, <1>11, <1>12, <1>13 DEF IInv

(* A call the breaker lets through: never under an open one, and the trial of *)
(* a breaker it half-opens.                                                   *)
LEMMA StartedInv ==
  ASSUME IInv, NEW o \in Ops, NEW k, Started(o, k)
  PROVE  IInv'
<1>1. /\ TypesFit /\ StackOrder /\ TrialsLive /\ FailuresFit
      /\ RunningBeforeOpening /\ TrialRuns
  BY DEF IInv
<1> DEFINE new == [op |-> o, age |-> 0, attempt |-> 1, live |-> TRUE,
                   probe |-> breakers'[o].state = "half_open"]
<1>2. PICK n : n = Len(calls) + 1
  OBVIOUS
<1>3. /\ Len(calls) < MaxDepth /\ Allows(breakers[o])
      /\ breakers' = [breakers EXCEPT ![o] = AfterAsking(@)]
      /\ calls' = Append(calls, new)
      /\ probed' = [probed EXCEPT ![o] = @ /\ breakers[o].state # "open"]
      /\ streak' = streak
  BY DEF Started
<1>4. /\ new \in Calls /\ new.op = o /\ new.age = 0 /\ new.live
      /\ new.probe <=> breakers'[o].state = "half_open"
  <2> DEFINE half == breakers'[o].state = "half_open"
             row == [op |-> o, age |-> 0, attempt |-> 1, live |-> TRUE, probe |-> half]
  <2>1. half \in BOOLEAN
    OBVIOUS
  <2>2. new = row
    OBVIOUS
  <2> HIDE DEF half, new
  <2>3. row \in Calls
    BY <2>1, BreakerConfig, SupervisorConfig DEF Calls
  <2>4. row.op = o /\ row.age = 0 /\ row.live = TRUE /\ row.probe = half
    OBVIOUS
  <2> HIDE DEF row
  <2>5. new \in Calls /\ new.op = o /\ new.age = 0 /\ new.live
    BY <2>2, <2>3, <2>4
  <2>6. new.probe <=> half
    BY <2>1, <2>2, <2>4
  <2>. QED
    BY <2>5, <2>6 DEF half
<1> HIDE DEF new
<1>5. calls \in Seq(Calls) /\ Len(calls) \in Nat /\ n \in 1 .. MaxDepth /\ n = Len(calls) + 1
  BY <1>1, <1>2, <1>3, SupervisorConfig DEF TypesFit
<1>6. /\ calls' \in Seq(Calls) /\ Len(calls') = n
      /\ \A i \in 1 .. Len(calls) : calls'[i] = calls[i]
      /\ calls'[n] = new
  BY <1>3, <1>4, <1>5, AppendProperties
<1>7. \A i \in 1 .. n : i \in 1 .. Len(calls) \/ i = n
  BY <1>5
<1>8. /\ \A v \in Ops \ {o} : breakers'[v] = breakers[v] /\ probed'[v] = probed[v]
      /\ breakers'[o] = AfterAsking(breakers[o])
      /\ probed'[o] <=> probed[o] /\ breakers[o].state # "open"
      /\ breakers[o] \in Breakers
  BY <1>1, <1>3 DEF TypesFit
<1>9. /\ breakers'[o] \in Breakers /\ breakers'[o].state # "open"
      /\ breakers[o].state # "open" => breakers'[o] = breakers[o]
      /\ breakers[o].state = "open" => breakers'[o].state = "half_open"
                                       /\ breakers'[o].failures = 0
  BY <1>3, <1>8, AskingFits
<1>10. TypesFit'
  <2>1. breakers' \in [Ops -> Breakers]
    BY <1>1, <1>3, <1>8, <1>9 DEF TypesFit
  <2>2. probed' \in [Ops -> BOOLEAN]
    BY <1>1, <1>3 DEF TypesFit
  <2>. QED
    BY <1>1, <1>3, <1>5, <1>6, <2>1, <2>2 DEF TypesFit
<1>11. StackOrder'
  <2> SUFFICES ASSUME NEW i \in 1 .. n, NEW j \in 1 .. n, i <= j
               PROVE  calls'[j].age <= calls'[i].age
    BY <1>6 DEF StackOrder
  <2>1. CASE j = n
    <3>1. calls'[j].age = 0
      BY <1>4, <1>6, <2>1
    <3>2. calls'[i] \in Calls
      BY <1>6, ElementOfSeq
    <3>3. calls'[i].age \in 0 .. RecoveryTimeout
      BY <3>2 DEF Calls
    <3>. QED
      BY <3>1, <3>3, BreakerConfig
  <2>2. CASE j # n
    BY <1>1, <1>5, <1>6, <2>2 DEF StackOrder
  <2>. QED
    BY <2>1, <2>2
<1>12. TrialsLive'
  BY <1>1, <1>4, <1>6, <1>7 DEF TrialsLive
<1>13. FailuresFit'
  <2>1. ASSUME NEW v \in Ops \ {o} PROVE LiveCalls(v)' = LiveCalls(v)
    <3>1. \A i \in 1 .. n : i = n \/ i \in 1 .. Len(calls)
      BY <1>7
    <3>2. \A i \in 1 .. Len(calls) : i \in 1 .. n
      BY <1>5
    <3>3. calls'[n].op # v
      BY <1>4, <1>6
    <3>. QED
      BY <1>6, <3>1, <3>2, <3>3 DEF LiveCalls
  <2>2. ASSUME NEW v \in Ops \ {o}
        PROVE  /\ breakers'[v].state = "closed" =>
                    breakers'[v].failures = streak'[v] /\ breakers'[v].failures < FailureThreshold
               /\ breakers'[v].state = "half_open" => breakers'[v].failures = 0
               /\ breakers'[v].state = "open" =>
                    breakers'[v].failures + Cardinality(LiveCalls(v)')
                      <= FailureThreshold + MaxDepth
    BY <1>1, <1>3, <1>8, <2>1 DEF FailuresFit
  <2>3. /\ breakers'[o].state = "closed" =>
             breakers'[o].failures = streak'[o] /\ breakers'[o].failures < FailureThreshold
        /\ breakers'[o].state = "half_open" => breakers'[o].failures = 0
    BY <1>1, <1>3, <1>9 DEF FailuresFit
  <2>. QED
    BY <1>9, <2>2, <2>3 DEF FailuresFit
<1>14. RunningBeforeOpening'
  <2> SUFFICES ASSUME NEW i \in 1 .. n, calls'[i].live,
                      breakers'[calls'[i].op].state = "open"
               PROVE  calls'[i].age >= breakers'[calls'[i].op].age
    BY <1>6 DEF RunningBeforeOpening
  <2>1. calls'[i] \in Calls
    BY <1>6, ElementOfSeq
  <2>2. calls'[i].op \in Ops \ {o}
    BY <1>9, <2>1 DEF Calls
  <2>3. i \in 1 .. Len(calls) /\ calls'[i] = calls[i]
    BY <1>4, <1>6, <1>7, <2>2
  <2>. QED
    BY <1>1, <1>8, <2>2, <2>3 DEF RunningBeforeOpening
<1>15. TrialRuns'
  <2> SUFFICES ASSUME NEW v \in Ops, breakers'[v].state = "half_open", ~probed'[v]
               PROVE  \E p \in 1 .. n : TrialAt(v, p)'
    BY <1>6 DEF TrialRuns
  <2>1. CASE v = o /\ breakers[o].state = "open"
    <3>1. calls'[n].op = v /\ calls'[n].probe /\ n \in 1 .. n
      BY <1>4, <1>5, <1>6, <2>1
    <3>2. \A i \in n .. n : i = n
      BY <1>5
    <3>3. TrialAt(v, n)'
      BY <1>6, <3>1, <3>2 DEF TrialAt
    <3>. QED
      BY <3>1, <3>3
  <2>2. CASE ~(v = o /\ breakers[o].state = "open")
    <3>1. breakers[v].state = "half_open" /\ ~probed[v]
      BY <1>8, <1>9, <2>2
    <3>2. PICK p \in 1 .. Len(calls) : TrialAt(v, p)
      BY <1>1, <3>1 DEF TrialRuns
    <3>3. \A i \in p .. n : i = n \/ (i \in p .. Len(calls) /\ i \in 1 .. Len(calls))
      BY <1>5, <3>2
    <3>4. calls'[n].op = v => calls'[n].probe
      BY <1>4, <1>6
    <3>5. p \in 1 .. n /\ calls'[p].op = v /\ calls'[p].probe
      BY <1>5, <1>6, <3>2 DEF TrialAt
    <3>6. \A i \in p .. n : calls'[i].op = v /\ calls'[i].live => calls'[i].probe
      BY <1>6, <3>2, <3>3, <3>4 DEF TrialAt
    <3>7. TrialAt(v, p)'
      BY <1>6, <3>5, <3>6 DEF TrialAt
    <3>. QED
      BY <3>5, <3>7
  <2>. QED
    BY <2>1, <2>2
<1>. QED
  BY <1>10, <1>11, <1>12, <1>13, <1>14, <1>15 DEF IInv

(* Every step keeps the invariant.                                            *)
LEMMA NextInv == IInv /\ [Next]_vars => IInv'
<1> SUFFICES ASSUME IInv, [Next]_vars PROVE IInv'
  OBVIOUS
<1>1. CASE \E o \in Ops, k \in RateKeys : Denied(o, k) \/ Rejected(o, k)
  <2>1. breakers \in [Ops -> Breakers]
    BY DEF IInv, TypesFit
  <2>2. UNCHANGED <<breakers, calls, streak, probed>>
    BY <1>1, <2>1 DEF Denied, Rejected, Reject, vars
  <2>. QED
    BY <2>2, QuietInv
<1>2. CASE \E o \in Ops, k \in RateKeys : Started(o, k)
  BY <1>2, StartedInv
<1>3. CASE \E o \in Ops : ResetBreaker(o)
  BY <1>3, ResetBreakerInv
<1>4. CASE \/ \E k \in RateKeys : CheckLimit(k) \/ ResetBucket(k)
           \/ ClearBuckets \/ UNCHANGED vars
  <2>1. UNCHANGED <<breakers, calls, streak, probed>>
    BY <1>4 DEF CheckLimit, ResetBucket, ClearBuckets, vars, observers
  <2>. QED
    BY <2>1, QuietInv
<1>. QED
  BY <1>1, <1>2, <1>3, <1>4, RetryInv, SucceedInv, FailInv, InterruptInv, ClearInv, TickInv
  DEF Next, Supervise

(* The invariant of the breakers holds always.                                *)
LEMMA Breaking == Spec => []IInv
  BY InitInv, NextInv, PTL DEF Spec

(* record_failure, record_success: a closed breaker's count is the run of     *)
(* failures since the last success.                                           *)
THEOREM FailuresInARowHolds == Spec => []FailuresInARow
<1>1. IInv => FailuresInARow
  BY DEF IInv, FailuresFit, FailuresInARow
<1>. QED
  BY <1>1, Breaking, PTL

(* should_allow_request: nothing runs under an open breaker but what was let  *)
(* in before the call that opened it.                                         *)
THEOREM RunningBeforeOpeningHolds == Spec => []RunningBeforeOpening
<1>1. IInv => RunningBeforeOpening
  BY DEF IInv
<1>. QED
  BY <1>1, Breaking, PTL

(* record_success in the half-open state: a breaker closes by itself only     *)
(* after a call let in since it half-opened came back or was interrupted.     *)
THEOREM ClosedByProbeHolds == Spec => ClosedByProbe
<1>1. ASSUME IInv, [Next]_vars, NEW o \in Ops,
             breakers[o].state # "closed", breakers'[o].state = "closed"
      PROVE  probed'[o] \/ ResetBreaker(o) \/ Clear
  <2>1. TypesFit /\ TrialsLive /\ TrialRuns /\ breakers[o] \in Breakers
    BY <1>1 DEF IInv, TypesFit
  <2>2. breakers' # breakers
    BY <1>1
  <2>3. CASE Succeed
    <3>1. /\ calls # <<>>
          /\ breakers' = IF Current.live
                         THEN [breakers EXCEPT ![Current.op] = RecordSuccess(@)] ELSE breakers
          /\ probed' = [probed EXCEPT ![Current.op] = @ \/ (Current.live /\ Current.probe)]
      BY <2>3 DEF Succeed
    <3>2. Current.op = o /\ Current.live /\ breakers'[o] = RecordSuccess(breakers[o])
      BY <1>1, <2>1, <2>2, <3>1 DEF TypesFit
    <3>3. breakers[o].state = "half_open"
      BY <1>1, <2>1, <3>2, SuccessFits DEF Breakers, BreakerStates
    <3>4. probed'[o] <=> probed[o] \/ (Current.live /\ Current.probe)
      BY <2>1, <3>1, <3>2 DEF TypesFit
    <3>5. CASE ~probed[o]
      <4>1. PICK p \in 1 .. Len(calls) : TrialAt(o, p)
        BY <2>1, <3>3, <3>5 DEF TrialRuns
      <4>2. Len(calls) \in p .. Len(calls)
        BY <2>1, <4>1 DEF TypesFit
      <4>3. Current.probe
        BY <3>2, <4>1, <4>2 DEF TrialAt, Current
      <4>. QED
        BY <3>2, <3>4, <4>3
    <3>. QED
      BY <3>4, <3>5
  <2>4. CASE Fail
    <3>1. /\ calls # <<>>
          /\ breakers' = IF Current.live
                         THEN [breakers EXCEPT ![Current.op] = RecordFailure(@, Current.age)]
                         ELSE breakers
      BY <2>4 DEF Fail
    <3>2. Current.op = o /\ breakers'[o] = RecordFailure(breakers[o], Current.age)
      BY <1>1, <2>1, <2>2, <3>1 DEF TypesFit
    <3>3. Len(calls) \in 1 .. Len(calls)
      BY <2>1, <3>1, EmptySeq DEF TypesFit
    <3>4. Current \in Calls
      BY <2>1, <3>3, ElementOfSeq DEF TypesFit, Current
    <3>5. Current.age \in 0 .. RecoveryTimeout
      BY <3>4 DEF Calls
    <3>. QED
      BY <1>1, <2>1, <3>2, <3>5, FailureFits
  <2>5. CASE \E v \in Ops, k \in RateKeys : Started(v, k)
    <3>1. PICK v \in Ops, k \in RateKeys : Started(v, k)
      BY <2>5
    <3>2. /\ Allows(breakers[v]) /\ breakers' = [breakers EXCEPT ![v] = AfterAsking(@)]
      BY <3>1 DEF Started
    <3>3. v = o /\ breakers'[o] = AfterAsking(breakers[o])
      BY <1>1, <2>1, <3>2 DEF TypesFit
    <3>. QED
      BY <1>1, <2>1, <3>2, <3>3, AskingFits
  <2>6. CASE \E v \in Ops, k \in RateKeys : Denied(v, k) \/ Rejected(v, k)
    <3>1. breakers' = breakers
      BY <2>1, <2>6 DEF TypesFit, Denied, Rejected, Reject, vars
    <3>. QED
      BY <2>2, <3>1
  <2>7. CASE \E v \in Ops : ResetBreaker(v)
    <3>1. PICK v \in Ops : ResetBreaker(v)
      BY <2>7
    <3>2. breakers' = [breakers EXCEPT ![v] = FreshBreaker]
      BY <3>1 DEF ResetBreaker
    <3>3. v = o
      BY <1>1, <2>1, <3>2 DEF TypesFit
    <3>. QED
      BY <3>1, <3>3
  <2>8. CASE Tick
    <3>1. breakers'[o] = Older(breakers[o])
      BY <2>8 DEF Tick
    <3>. QED
      BY <1>1, <2>1, <3>1, OlderFits
  <2>9. CASE \/ Retry \/ Interrupt \/ UNCHANGED vars \/ ClearBuckets
             \/ \E k \in RateKeys : CheckLimit(k) \/ ResetBucket(k)
    BY <2>2, <2>9 DEF Retry, Interrupt, vars, ClearBuckets, CheckLimit, ResetBucket
  <2>. QED
    BY <1>1, <2>3, <2>4, <2>5, <2>6, <2>7, <2>8, <2>9 DEF Next, Supervise
<1>2. IInv /\ [Next]_vars =>
        [\A o \in Ops :
           breakers[o].state # "closed" /\ breakers'[o].state = "closed"
             => probed'[o] \/ ResetBreaker(o) \/ Clear]_vars
  BY <1>1
<1>. QED
  BY <1>2, Breaking, PTL DEF Spec, ClosedByProbe

-----------------------------------------------------------------------------
(* What the limiter let in, by age: while a window runs, no more than it has  *)
(* counted since it began and no more than a full window's before; once it is *)
(* over, nothing in this very tick.                                           *)
Ages == 0 .. Window - 1
Recents == [Ages -> Nat]
WithinLimit(b, r) ==
  IF b.age < Window
  THEN /\ SumFunctionOnSet(r, 0 .. b.age) <= b.count
       /\ SumFunctionOnSet(r, b.age + 1 .. Window - 1) <= MaxRequests
  ELSE r[0] = 0 /\ SumFunctionOnSet(r, Ages) <= MaxRequests

LimiterInv ==
  /\ buckets \in [RateKeys -> Buckets] /\ recent \in [RateKeys -> Recents]
  /\ \A k \in RateKeys : WithinLimit(buckets[k], recent[k])

(* Sums over ages are natural numbers, and grow with the ages.                *)
LEMMA AgeSums ==
  ASSUME NEW r \in Recents, NEW S \in SUBSET Ages
  PROVE  /\ IsFiniteSet(S)
         /\ \A a \in S : r[a] \in Nat
         /\ SumFunctionOnSet(r, S) \in Nat
         /\ \A T \in SUBSET S : SumFunctionOnSet(r, T) <= SumFunctionOnSet(r, S)
<1>1. IsFiniteSet(Ages)
  BY FS_Interval, WindowConfig DEF Ages
<1>2. IsFiniteSet(S)
  BY <1>1, FS_Subset
<1>3. \A a \in S : r[a] \in Nat
  BY DEF Recents
<1>4. SumFunctionOnSet(r, S) \in Nat
  BY <1>2, <1>3, SumNatural
<1>5. \A T \in SUBSET S : SumFunctionOnSet(r, T) <= SumFunctionOnSet(r, S)
  BY <1>2, <1>3, SumPart
<1>. QED
  BY <1>2, <1>3, <1>4, <1>5

(* The bound on bursts follows: a window's worth on either side of its start. *)
LEMMA BurstBounded ==
  ASSUME NEW b \in Buckets, NEW r \in Recents, WithinLimit(b, r)
  PROVE  SumFunction(r) <= 2 * MaxRequests
<1>1. DOMAIN r = Ages
  BY DEF Recents
<1>2. SumFunction(r) = SumFunctionOnSet(r, Ages)
  BY <1>1, Zenon DEF SumFunction
<1>3. b.count \in 0 .. MaxRequests /\ b.age \in 0 .. Window
  BY DEF Buckets
<1>4. CASE b.age < Window
  <2> DEFINE S == 0 .. b.age
             T == b.age + 1 .. Window - 1
  <2>1. S \in SUBSET Ages /\ T \in SUBSET Ages /\ S \cap T = {} /\ S \cup T = Ages
    BY <1>3, <1>4, WindowConfig DEF Ages
  <2>2. SumFunctionOnSet(r, S) <= b.count /\ SumFunctionOnSet(r, T) <= MaxRequests
    BY <1>4 DEF WithinLimit
  <2> HIDE DEF S, T
  <2>3. /\ IsFiniteSet(S) /\ IsFiniteSet(T)
        /\ SumFunctionOnSet(r, S) \in Nat /\ SumFunctionOnSet(r, T) \in Nat
        /\ \A a \in S \cup T : r[a] \in Int
    BY <2>1, AgeSums
  <2>4. SumFunctionOnSet(r, S \cup T) = SumFunctionOnSet(r, S) + SumFunctionOnSet(r, T)
    BY <2>1, <2>3, SumUnion
  <2>5. SumFunctionOnSet(r, S \cup T) = SumFunctionOnSet(r, Ages)
    BY <2>1, Zenon
  <2>. QED
    BY <1>2, <1>3, <2>2, <2>3, <2>4, <2>5, WindowConfig
<1>5. CASE ~(b.age < Window)
  <2>1. SumFunctionOnSet(r, Ages) <= MaxRequests
    BY <1>5 DEF WithinLimit
  <2>2. SumFunctionOnSet(r, Ages) \in Nat
    BY AgeSums
  <2>. QED
    BY <1>2, <2>1, <2>2, WindowConfig
<1>. QED
  BY <1>4, <1>5

(* Nothing was let in: any fresh bucket is within its limit.                  *)
LEMMA NothingLetIn ==
  LET none == [a \in 0 .. Window - 1 |-> 0] IN
  /\ none \in Recents
  /\ NoBucket \in Buckets /\ WithinLimit(NoBucket, none)
  /\ FreshBucket \in Buckets /\ WithinLimit(FreshBucket, none)
<1> DEFINE none == [a \in 0 .. Window - 1 |-> 0]
<1>1. none \in Recents /\ \A a \in Ages : none[a] = 0
  BY DEF Recents, Ages
<1> HIDE DEF none
<1>2. \A S \in SUBSET Ages : SumFunctionOnSet(none, S) = 0
  BY <1>1, AgeSums, SumZero
<1>3. NoBucket \in Buckets /\ NoBucket.age = Window
  BY WindowConfig DEF NoBucket, Buckets
<1>4. FreshBucket \in Buckets /\ FreshBucket.age = 0 /\ FreshBucket.count = 0
  BY WindowConfig DEF FreshBucket, Buckets
<1>5. 0 \in Ages /\ (0 .. 0) \in SUBSET Ages /\ (0 + 1 .. Window - 1) \in SUBSET Ages
  BY WindowConfig DEF Ages
<1>6. WithinLimit(NoBucket, none)
  BY <1>1, <1>2, <1>3, <1>5, WindowConfig DEF WithinLimit
<1>7. WithinLimit(FreshBucket, none)
  <2>1. /\ SumFunctionOnSet(none, 0 .. 0) = 0
        /\ SumFunctionOnSet(none, 0 + 1 .. Window - 1) = 0
    BY <1>2, <1>5
  <2>2. /\ SumFunctionOnSet(none, 0 .. FreshBucket.age) = 0
        /\ SumFunctionOnSet(none, FreshBucket.age + 1 .. Window - 1) = 0
    BY <1>4, <2>1
  <2>. QED
    BY <1>4, <2>2, WindowConfig DEF WithinLimit
<1>. QED
  BY <1>1, <1>3, <1>4, <1>6, <1>7 DEF none

(* Looking at a bucket starts a new window when the old one is over.          *)
LEMMA LookedAt ==
  ASSUME NEW b \in Buckets, NEW r \in Recents, WithinLimit(b, r)
  PROVE  /\ GetBucket(b) \in Buckets /\ GetBucket(b).age < Window
         /\ WithinLimit(GetBucket(b), r)
<1>1. b.age \in 0 .. Window
  BY DEF Buckets
<1>2. CASE b.age < Window
  BY <1>1, <1>2, WindowConfig DEF GetBucket, WindowExpired
<1>3. CASE ~(b.age < Window)
  <2>1. GetBucket(b) = FreshBucket
    BY <1>1, <1>3, WindowConfig DEF GetBucket, WindowExpired
  <2>2. FreshBucket \in Buckets /\ FreshBucket.age = 0 /\ FreshBucket.count = 0
    BY WindowConfig DEF FreshBucket, Buckets
  <2>3. r[0] = 0 /\ SumFunctionOnSet(r, Ages) <= MaxRequests
    BY <1>3 DEF WithinLimit
  <2>4. (0 .. 0) \in SUBSET Ages /\ (0 + 1 .. Window - 1) \in SUBSET Ages /\ 0 .. 0 = {0}
    BY WindowConfig DEF Ages
  <2>5. SumFunctionOnSet(r, 0 .. 0) = 0
    <3>1. IsFiniteSet(0 .. 0)
      BY <2>4, AgeSums
    <3>2. \A a \in 0 .. 0 : r[a] = 0
      BY <2>3
    <3>. QED
      BY <3>1, <3>2, SumZero
  <2>6. SumFunctionOnSet(r, 0 + 1 .. Window - 1) <= MaxRequests
    <3> DEFINE T == 0 + 1 .. Window - 1
    <3>1. T \in SUBSET Ages
      BY <2>4
    <3> HIDE DEF T
    <3>2. SumFunctionOnSet(r, T) <= SumFunctionOnSet(r, Ages)
      BY <3>1, AgeSums
    <3>3. SumFunctionOnSet(r, T) \in Nat /\ SumFunctionOnSet(r, Ages) \in Nat
      BY <3>1, AgeSums
    <3>4. SumFunctionOnSet(r, T) <= MaxRequests
      BY <2>3, <3>2, <3>3, WindowConfig
    <3>. QED
      BY <3>4 DEF T
  <2>7. /\ SumFunctionOnSet(r, 0 .. FreshBucket.age) <= FreshBucket.count
        /\ SumFunctionOnSet(r, FreshBucket.age + 1 .. Window - 1) <= MaxRequests
    BY <2>2, <2>5, <2>6
  <2>8. WithinLimit(FreshBucket, r)
    BY <2>2, <2>7, WindowConfig DEF WithinLimit
  <2>. QED
    BY <2>1, <2>2, <2>8, WindowConfig
<1>. QED
  BY <1>2, <1>3

(* A call let in takes a slot of the running window.                          *)
LEMMA LetIn ==
  ASSUME NEW b \in Buckets, NEW r \in Recents, WithinLimit(b, r), HasRoom(b)
  PROVE  LET s == [r EXCEPT ![0] = @ + 1] IN
         /\ Consume(b) \in Buckets /\ s \in Recents /\ WithinLimit(Consume(b), s)
<1> DEFINE s == [r EXCEPT ![0] = @ + 1]
           g == GetBucket(b)
           c == Consume(b)
<1>1. g \in Buckets /\ g.age < Window /\ WithinLimit(g, r)
  BY LookedAt
<1>2. g.age \in 0 .. Window - 1 /\ g.count \in 0 .. MaxRequests - 1
  BY <1>1, WindowConfig DEF HasRoom, Buckets
<1>3. c = [g EXCEPT !.count = @ + 1]
  BY DEF Consume
<1> HIDE DEF g, c
<1>4. c \in Buckets /\ c.age = g.age /\ c.count = g.count + 1
  BY <1>1, <1>2, <1>3, WindowConfig DEF Buckets
<1>5. 0 \in Ages
  BY WindowConfig DEF Ages
<1>6. /\ s \in Recents /\ s[0] = r[0] + 1 /\ r[0] \in Nat
      /\ \A a \in Ages \ {0} : s[a] = r[a]
  BY <1>5 DEF Recents
<1> HIDE DEF s
<1>7. SumFunctionOnSet(s, 0 .. g.age) = SumFunctionOnSet(r, 0 .. g.age) + 1
  <2> DEFINE S == 0 .. g.age
  <2>1. S \in SUBSET Ages /\ 0 \in S
    BY <1>2, WindowConfig DEF Ages
  <2> HIDE DEF S
  <2>2. /\ IsFiniteSet(S) /\ SumFunctionOnSet(r, S) \in Nat
        /\ \A a \in S : r[a] \in Int /\ s[a] \in Int
    BY <1>6, <2>1, AgeSums
  <2>3. \A a \in S \ {0} : s[a] = r[a]
    BY <1>6, <2>1
  <2>4. SumFunctionOnSet(s, S) = SumFunctionOnSet(r, S) - r[0] + s[0]
    BY <2>1, <2>2, <2>3, SumChange
  <2>5. SumFunctionOnSet(s, S) = SumFunctionOnSet(r, S) + 1
    BY <1>6, <2>2, <2>4
  <2>. QED
    BY <2>5 DEF S
<1>8. SumFunctionOnSet(s, g.age + 1 .. Window - 1) = SumFunctionOnSet(r, g.age + 1 .. Window - 1)
  <2> DEFINE S == g.age + 1 .. Window - 1
  <2>1. S \in SUBSET Ages /\ 0 \notin S
    BY <1>2, WindowConfig DEF Ages
  <2> HIDE DEF S
  <2>2. IsFiniteSet(S) /\ \A a \in S : r[a] \in Int /\ r[a] = s[a]
    BY <1>6, <2>1, AgeSums
  <2>3. SumFunctionOnSet(r, S) = SumFunctionOnSet(s, S)
    BY <2>2, SumEqual
  <2>. QED
    BY <2>3 DEF S
<1>9. /\ SumFunctionOnSet(r, 0 .. g.age) <= g.count
      /\ SumFunctionOnSet(r, g.age + 1 .. Window - 1) <= MaxRequests
  BY <1>1 DEF WithinLimit
<1>10. SumFunctionOnSet(r, 0 .. g.age) \in Nat
  <2> DEFINE S == 0 .. g.age
  <2>1. S \in SUBSET Ages
    BY <1>2, WindowConfig DEF Ages
  <2> HIDE DEF S
  <2>2. SumFunctionOnSet(r, S) \in Nat
    BY <2>1, AgeSums
  <2>. QED
    BY <2>2 DEF S
<1>11. /\ SumFunctionOnSet(s, 0 .. c.age) <= c.count
       /\ SumFunctionOnSet(s, c.age + 1 .. Window - 1) <= MaxRequests
  BY <1>2, <1>4, <1>7, <1>8, <1>9, <1>10
<1>12. WithinLimit(c, s)
  BY <1>1, <1>4, <1>11 DEF WithinLimit
<1>. QED
  BY <1>4, <1>6, <1>12 DEF s, c

(* What was let in at each age, a tick later.                                 *)
Aged(r) == [a \in 0 .. Window - 1 |-> IF a = 0 THEN 0 ELSE r[a - 1]]

(* A tick moves every sum one age up, and lets nothing in.                    *)
LEMMA AgedSums ==
  ASSUME NEW r \in Recents
  PROVE  /\ Aged(r) \in Recents /\ Aged(r)[0] = 0
         /\ \A i \in Nat, j \in -1 .. Window - 2 :
              SumFunctionOnSet(Aged(r), i + 1 .. j + 1) = SumFunctionOnSet(r, i .. j)
         /\ \A j \in -1 .. Window - 2 :
              SumFunctionOnSet(Aged(r), 0 .. j + 1) = SumFunctionOnSet(r, 0 .. j)
<1> DEFINE s == Aged(r)
<1>1. /\ 0 \in Ages /\ s \in Recents /\ s[0] = 0
      /\ \A a \in 0 .. Window - 2 : s[a + 1] = r[a]
  BY WindowConfig DEF Recents, Ages, Aged
<1> HIDE DEF s
<1>2. ASSUME NEW i \in Nat, NEW j \in -1 .. Window - 2
      PROVE  SumFunctionOnSet(s, i + 1 .. j + 1) = SumFunctionOnSet(r, i .. j)
  <2> DEFINE S == i .. j
             T == {a + 1 : a \in S}
  <2>1. S \subseteq 0 .. Window - 2 /\ S \in SUBSET Ages /\ S \subseteq Int
    BY WindowConfig DEF Ages
  <2>2. T = i + 1 .. j + 1
    <3>1. \A a \in S : a + 1 \in i + 1 .. j + 1
      OBVIOUS
    <3>2. \A c \in i + 1 .. j + 1 : c - 1 \in S /\ c = (c - 1) + 1
      OBVIOUS
    <3>. QED
      BY <3>1, <3>2
  <2> HIDE DEF S
  <2>3. IsFiniteSet(S) /\ \A a \in S : r[a] \in Nat
    BY <2>1, AgeSums
  <2>4. \A a \in S : r[a] \in Int /\ s[a + 1] = r[a]
    BY <1>1, <2>1, <2>3
  <2>5. SumFunctionOnSet(s, T) = SumFunctionOnSet(r, S)
    BY <2>1, <2>3, <2>4, SumShift
  <2> HIDE DEF T
  <2>6. SumFunctionOnSet(s, T) = SumFunctionOnSet(s, i + 1 .. j + 1)
    BY <2>2, Zenon
  <2>. QED
    BY <2>5, <2>6 DEF S
<1>3. ASSUME NEW j \in -1 .. Window - 2
      PROVE  SumFunctionOnSet(s, 0 .. j + 1) = SumFunctionOnSet(r, 0 .. j)
  <2> DEFINE S == 0 + 1 .. j + 1
             T == 0 .. j + 1
  <2>1. S \in SUBSET Ages /\ {0} \in SUBSET Ages /\ {0} \cap S = {} /\ {0} \cup S = T
    BY <1>1, WindowConfig DEF Ages
  <2>2. SumFunctionOnSet(s, S) = SumFunctionOnSet(r, 0 .. j)
    <3>1. 0 \in Nat
      OBVIOUS
    <3>. QED
      BY <1>2, <3>1
  <2> HIDE DEF S, T
  <2>3. /\ IsFiniteSet({0}) /\ IsFiniteSet(S) /\ SumFunctionOnSet(s, S) \in Nat
        /\ \A a \in {0} \cup S : s[a] \in Int
    BY <1>1, <2>1, AgeSums
  <2>4. SumFunctionOnSet(s, {0}) = 0
    BY <1>1, <2>3, SumZero
  <2>5. SumFunctionOnSet(s, {0} \cup S) = SumFunctionOnSet(s, {0}) + SumFunctionOnSet(s, S)
    BY <2>1, <2>3, SumUnion
  <2>6. SumFunctionOnSet(s, {0} \cup S) = SumFunctionOnSet(s, T)
    BY <2>1, Zenon
  <2>7. SumFunctionOnSet(s, T) = SumFunctionOnSet(s, S)
    BY <2>3, <2>4, <2>5, <2>6
  <2>. QED
    BY <2>2, <2>7 DEF T
<1>. QED
  BY <1>1, <1>2, <1>3 DEF s

(* A tick keeps a key within its limit, also when it ends the window.         *)
LEMMA OlderWithinLimit ==
  ASSUME NEW b \in Buckets, NEW r \in Recents, WithinLimit(b, r)
  PROVE  OlderBucket(b) \in Buckets /\ WithinLimit(OlderBucket(b), Aged(r))
<1> DEFINE s == Aged(r)
           o == OlderBucket(b)
<1>1. b.age \in 0 .. Window /\ b.count \in 0 .. MaxRequests
  BY DEF Buckets
<1>2. s \in Recents /\ s[0] = 0
  BY AgedSums
<1>3. /\ o \in Buckets /\ o.count = b.count
      /\ o.age = IF b.age < Window THEN b.age + 1 ELSE b.age
  BY WindowConfig DEF Buckets, OlderBucket
<1>4. /\ \A i \in Nat, j \in -1 .. Window - 2 :
           SumFunctionOnSet(s, i + 1 .. j + 1) = SumFunctionOnSet(r, i .. j)
      /\ \A j \in -1 .. Window - 2 :
           SumFunctionOnSet(s, 0 .. j + 1) = SumFunctionOnSet(r, 0 .. j)
  BY AgedSums
<1> HIDE DEF s, o
<1>5. ASSUME NEW i \in Nat
      PROVE  /\ SumFunctionOnSet(s, i + 1 .. Window - 1)
                  <= SumFunctionOnSet(r, i .. Window - 1)
             /\ SumFunctionOnSet(s, i + 1 .. Window - 1) \in Nat
             /\ SumFunctionOnSet(r, i .. Window - 1) \in Nat
  <2> DEFINE S == i .. Window - 1
             T == i .. Window - 2
  <2>1. S \in SUBSET Ages /\ T \in SUBSET S
    BY WindowConfig DEF Ages
  <2>2. Window - 2 \in -1 .. Window - 2 /\ (Window - 2) + 1 = Window - 1
    BY WindowConfig
  <2>3. SumFunctionOnSet(s, i + 1 .. (Window - 2) + 1) = SumFunctionOnSet(r, T)
    BY <1>4, <2>2
  <2>4. SumFunctionOnSet(s, i + 1 .. Window - 1) = SumFunctionOnSet(r, T)
    BY <2>2, <2>3, Zenon
  <2> HIDE DEF S, T
  <2>5. /\ SumFunctionOnSet(r, T) <= SumFunctionOnSet(r, S)
        /\ SumFunctionOnSet(r, S) \in Nat /\ SumFunctionOnSet(r, T) \in Nat
    BY <2>1, AgeSums
  <2>. QED
    BY <2>4, <2>5 DEF S
<1>6. ASSUME SumFunctionOnSet(r, Ages) <= MaxRequests
      PROVE  SumFunctionOnSet(s, Ages) <= MaxRequests
  <2>1. Window - 2 \in -1 .. Window - 2 /\ (Window - 2) + 1 = Window - 1
    BY WindowConfig
  <2>2. SumFunctionOnSet(s, 0 .. (Window - 2) + 1) = SumFunctionOnSet(r, 0 .. Window - 2)
    BY <1>4, <2>1
  <2> DEFINE T == 0 .. Window - 2
  <2>3. SumFunctionOnSet(s, Ages) = SumFunctionOnSet(r, T)
    BY <2>1, <2>2, Zenon DEF Ages
  <2>4. T \in SUBSET Ages /\ Ages \in SUBSET Ages
    BY WindowConfig DEF Ages
  <2> HIDE DEF T
  <2>5. /\ SumFunctionOnSet(r, T) <= SumFunctionOnSet(r, Ages)
        /\ SumFunctionOnSet(r, T) \in Nat /\ SumFunctionOnSet(r, Ages) \in Nat
    BY <2>4, AgeSums
  <2>. QED
    BY <1>6, <2>3, <2>5, WindowConfig
<1>7. CASE b.age < Window - 1
  <2>1. o.age = b.age + 1 /\ o.age < Window /\ b.age \in Nat /\ o.age \in Nat
    BY <1>1, <1>3, <1>7, WindowConfig
  <2>2. /\ SumFunctionOnSet(r, 0 .. b.age) <= b.count
        /\ SumFunctionOnSet(r, b.age + 1 .. Window - 1) <= MaxRequests
    BY <1>1, <1>7, WindowConfig DEF WithinLimit
  <2>3. b.age \in -1 .. Window - 2
    BY <1>1, <1>7, WindowConfig
  <2>4. SumFunctionOnSet(s, 0 .. b.age + 1) <= b.count
    BY <1>4, <2>2, <2>3
  <2>5. SumFunctionOnSet(s, (b.age + 1) + 1 .. Window - 1) <= MaxRequests
    <3> DEFINE i == b.age + 1
    <3>1. i \in Nat /\ SumFunctionOnSet(r, i .. Window - 1) <= MaxRequests
      BY <2>1, <2>2
    <3> HIDE DEF i
    <3>2. /\ SumFunctionOnSet(s, i + 1 .. Window - 1)
               <= SumFunctionOnSet(r, i .. Window - 1)
          /\ SumFunctionOnSet(s, i + 1 .. Window - 1) \in Nat
          /\ SumFunctionOnSet(r, i .. Window - 1) \in Nat
      BY <1>5, <3>1
    <3>3. SumFunctionOnSet(s, i + 1 .. Window - 1) <= MaxRequests
      BY <3>1, <3>2, WindowConfig
    <3>. QED
      BY <3>3 DEF i
  <2>6. /\ SumFunctionOnSet(s, 0 .. o.age) <= o.count
        /\ SumFunctionOnSet(s, o.age + 1 .. Window - 1) <= MaxRequests
    BY <1>3, <2>1, <2>4, <2>5
  <2>. QED
    BY <1>3, <2>1, <2>6 DEF WithinLimit, s, o
<1>8. CASE b.age = Window - 1
  <2>1. o.age = Window /\ ~(o.age < Window) /\ b.age < Window
    BY <1>3, <1>8, WindowConfig
  <2>2. SumFunctionOnSet(r, Ages) <= MaxRequests
    <3>1. SumFunctionOnSet(r, 0 .. b.age) <= b.count
      BY <2>1 DEF WithinLimit
    <3>2. SumFunctionOnSet(r, Ages) <= b.count
      BY <1>8, <3>1 DEF Ages
    <3>3. SumFunctionOnSet(r, Ages) \in Nat
      BY AgeSums
    <3>. QED
      BY <1>1, <3>2, <3>3, WindowConfig
  <2>3. SumFunctionOnSet(s, Ages) <= MaxRequests
    BY <1>6, <2>2
  <2>. QED
    BY <1>2, <1>3, <2>1, <2>3 DEF WithinLimit, s, o
<1>9. CASE b.age = Window
  <2>1. o.age = Window /\ ~(o.age < Window) /\ ~(b.age < Window)
    BY <1>3, <1>9, WindowConfig
  <2>2. SumFunctionOnSet(r, Ages) <= MaxRequests
    BY <2>1 DEF WithinLimit
  <2>3. SumFunctionOnSet(s, Ages) <= MaxRequests
    BY <1>6, <2>2
  <2>. QED
    BY <1>2, <1>3, <2>1, <2>3 DEF WithinLimit, s, o
<1>. QED
  BY <1>1, <1>7, <1>8, <1>9, WindowConfig

(* A key whose bucket and record do not change stays within its limit; so     *)
(* does every key when one of them steps to a state within it.                *)
LEMMA OneKey ==
  ASSUME LimiterInv, NEW k \in RateKeys, NEW b \in Buckets, NEW r \in Recents,
         WithinLimit(b, r),
         buckets' = [buckets EXCEPT ![k] = b], recent' = [recent EXCEPT ![k] = r]
  PROVE  LimiterInv'
<1>1. /\ buckets' \in [RateKeys -> Buckets] /\ recent' \in [RateKeys -> Recents]
      /\ buckets'[k] = b /\ recent'[k] = r
      /\ \A j \in RateKeys \ {k} : buckets'[j] = buckets[j] /\ recent'[j] = recent[j]
  BY DEF LimiterInv
<1>2. \A j \in RateKeys : WithinLimit(buckets'[j], recent'[j])
  BY <1>1 DEF LimiterInv
<1>. QED
  BY <1>1, <1>2 DEF LimiterInv, Recents, Ages, WithinLimit

(* Every key starts within its limit, and every step keeps it there.          *)
LEMMA LimiterStep == /\ Init => LimiterInv
                     /\ LimiterInv /\ [Next]_vars => LimiterInv'
<1>1. ASSUME Init PROVE LimiterInv
  BY <1>1, NothingLetIn DEF Init, LimiterInv
<1>2. ASSUME LimiterInv, buckets' = buckets, recent' = recent PROVE LimiterInv'
  BY <1>2 DEF LimiterInv, Recents, Ages, WithinLimit
<1>3. ASSUME LimiterInv, NEW k \in RateKeys, HasRoom(buckets[k]),
             buckets' = [buckets EXCEPT ![k] = Consume(@)],
             recent' = [recent EXCEPT ![k][0] = @ + 1]
      PROVE  LimiterInv'
  <2> DEFINE b == buckets[k]
             r == recent[k]
             s == [r EXCEPT ![0] = @ + 1]
  <2>1. b \in Buckets /\ r \in Recents /\ WithinLimit(b, r)
    BY <1>3 DEF LimiterInv
  <2>2. Consume(b) \in Buckets /\ s \in Recents /\ WithinLimit(Consume(b), s)
    BY <1>3, <2>1, LetIn
  <2>3. buckets' = [buckets EXCEPT ![k] = Consume(b)] /\ recent' = [recent EXCEPT ![k] = s]
    BY <1>3
  <2>. QED
    BY <1>3, <2>2, <2>3, OneKey
<1>4. ASSUME LimiterInv, NEW k \in RateKeys, CheckLimit(k) PROVE LimiterInv'
  <2> DEFINE b == buckets[k]
             r == recent[k]
  <2>1. b \in Buckets /\ r \in Recents /\ WithinLimit(b, r)
    BY <1>4 DEF LimiterInv
  <2>2. GetBucket(b) \in Buckets /\ WithinLimit(GetBucket(b), r)
    BY <2>1, LookedAt
  <2>3. buckets' = [buckets EXCEPT ![k] = GetBucket(b)] /\ recent' = [recent EXCEPT ![k] = r]
    BY <1>4 DEF CheckLimit, observers, LimiterInv
  <2>. QED
    BY <1>4, <2>1, <2>2, <2>3, OneKey
<1>5. ASSUME LimiterInv, NEW k \in RateKeys, ResetBucket(k) PROVE LimiterInv'
  BY <1>5, NothingLetIn, OneKey DEF ResetBucket
<1>6. ASSUME ClearBuckets PROVE LimiterInv'
  BY <1>6, NothingLetIn DEF ClearBuckets, LimiterInv, Recents, Ages, WithinLimit
<1>7. ASSUME LimiterInv, Tick PROVE LimiterInv'
  <2>1. /\ buckets' = [k \in RateKeys |-> OlderBucket(buckets[k])]
        /\ recent' = [k \in RateKeys |-> Aged(recent[k])]
    BY <1>7 DEF Tick, Aged
  <2>2. \A k \in RateKeys :
          /\ OlderBucket(buckets[k]) \in Buckets /\ Aged(recent[k]) \in Recents
          /\ WithinLimit(OlderBucket(buckets[k]), Aged(recent[k]))
    BY <1>7, OlderWithinLimit, AgedSums DEF LimiterInv
  <2>. QED
    BY <2>1, <2>2 DEF LimiterInv, Recents, Ages, WithinLimit
<1>8. ASSUME LimiterInv, [Next]_vars PROVE LimiterInv'
  <2>1. CASE \/ Retry \/ Succeed \/ Fail \/ Interrupt \/ Clear \/ UNCHANGED vars
             \/ \E o \in Ops : ResetBreaker(o) \/ \E k \in RateKeys : Denied(o, k)
    <3>1. buckets' = buckets /\ recent' = recent
      BY <2>1 DEF Retry, Succeed, Fail, Interrupt, Clear, ResetBreaker, Denied, vars, observers
    <3>. QED
      BY <1>2, <1>8, <3>1
  <2>2. CASE \E o \in Ops, k \in RateKeys : Rejected(o, k) \/ Started(o, k)
    BY <1>3, <1>8, <2>2 DEF Rejected, Started
  <2>. QED
    BY <1>4, <1>5, <1>6, <1>7, <1>8, <2>1, <2>2 DEF Next, Supervise
<1>. QED
  BY <1>1, <1>8

(* At most two windows' worth of calls passes in any stretch of one window's  *)
(* length, for every limit and window.                                        *)
THEOREM BurstBoundHolds == Spec => []BurstBound
<1>1. LimiterInv => BurstBound
  BY BurstBounded DEF LimiterInv, BurstBound
<1>. QED
  BY <1>1, LimiterStep, PTL DEF Spec

(* The types, for every value of the constants.                               *)
THEOREM TypeOKHolds == Spec => []TypeOK
<1>1. IInv /\ LimiterInv => TypeOK
  <2> SUFFICES ASSUME IInv, LimiterInv PROVE TypeOK
    OBVIOUS
  <2>1. Len(calls) <= MaxDepth /\ \A i \in 1 .. Len(calls) : calls[i] \in Calls
    BY ElementOfSeq DEF IInv, TypesFit
  <2>2. ASSUME NEW o \in Ops PROVE breakers[o].failures <= FailureThreshold + MaxDepth
    <3>1. breakers[o] \in Breakers
      BY DEF IInv, TypesFit
    <3>2. breakers[o].failures \in Nat /\ breakers[o].state \in BreakerStates
      BY <3>1 DEF Breakers
    <3>3. Cardinality(LiveCalls(o)) \in Nat
      BY LiveCallsFinite DEF IInv
    <3>. QED
      BY <3>2, <3>3, BreakerConfig, SupervisorConfig DEF IInv, FailuresFit, BreakerStates
  <2>. QED
    BY <2>1, <2>2 DEF IInv, TypesFit, LimiterInv, TypeOK
<1>. QED
  BY <1>1, InitInv, NextInv, LimiterStep, PTL DEF Spec
=============================================================================
