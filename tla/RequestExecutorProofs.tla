------------------------- MODULE RequestExecutorProofs -------------------------
(* Proofs about one call of the executor, for every MaxRetries, every backoff  *)
(* and every Retry-After: what the retries bound, what a cancelled context     *)
(* stops and which bodies are open.                                            *)
EXTENDS RequestExecutor, TLAPS

\* One attempt more than the retries counted, once the request is out; the
\* retries never exceed their maximum.
Counted ==
    /\ retries \in 0..MaxRetries /\ attempts \in Nat /\ applied \in Nat
    /\ pc \in {"attempt", "sleep"} => attempts = retries
    /\ pc \in {"request", "caller"} => attempts = retries + 1
    /\ attempts <= retries + 1

\* The request under way may be carried out once more; all others are over.
Applied ==
    /\ applied <= attempts
    /\ pc = "request" => applied < attempts
    /\ result = "ok" => applied > 0

CallInv ==
    /\ pc \in {"attempt", "request", "sleep", "caller", "returned"}
    /\ Counted /\ Applied /\ CancelStops /\ BodiesClosed

\* Every step of a call preserves the invariant.
LEMMA StepCallInv ==
    ASSUME CallInv, [Next]_vars
    PROVE  CallInv'
<1> USE ExecutorAssumption
    DEF CallInv, Counted, Applied, CancelStops, BodiesClosed, ReturnError,
        ReturnResponse, Retry
<1>1. CASE UNCHANGED vars
  BY <1>1 DEF vars
<1>2. CASE Cancel
  BY <1>2 DEF Cancel
<1>3. CASE SeeCancel
  BY <1>3 DEF SeeCancel
<1>4. CASE Attempt
  BY <1>4 DEF Attempt
<1>5. CASE Accepted
  BY <1>5 DEF Accepted
<1>6. ASSUME NEW status \in {"429", "5xx"}, RefusedForNow(status)
      PROVE  CallInv'
  <2>1. applied' \in {applied, applied + 1}
    BY <1>6 DEF RefusedForNow
  <2>2. CASE retries < MaxRetries /\ retries' = retries + 1 /\ pc' = "sleep"
             /\ UNCHANGED <<open, result>>
    BY <1>6, <2>1, <2>2 DEF RefusedForNow
  <2>3. CASE ReturnResponse("retryable")
    BY <1>6, <2>1, <2>3 DEF RefusedForNow
  <2> QED
    BY <1>6, <2>2, <2>3 DEF RefusedForNow
<1>7. CASE Refused
  BY <1>7 DEF Refused
<1>8. CASE TimedOut
  <2>1. applied' \in {applied, applied + 1} /\ pc = "request"
        /\ UNCHANGED <<cancelled, open, attempts, atCancel>>
    BY <1>8 DEF TimedOut
  <2>2. CASE retries < MaxRetries /\ retries' = retries + 1 /\ pc' = "sleep"
             /\ UNCHANGED result
    BY <2>1, <2>2
  <2>3. CASE ReturnError("network")
    BY <2>1, <2>3
  <2> QED
    BY <1>8, <2>2, <2>3 DEF TimedOut
<1>9. CASE NetworkFails
  BY <1>9 DEF NetworkFails
<1>10. CASE SleepEnds
  BY <1>10 DEF SleepEnds
<1>11. CASE SleepCancelled
  BY <1>11 DEF SleepCancelled
<1>12. CASE CallerCloses
  BY <1>12 DEF CallerCloses
<1> QED
  BY <1>1, <1>2, <1>3, <1>4, <1>5, <1>6, <1>7, <1>8, <1>9, <1>10, <1>11, <1>12
     DEF Next, Step

\* So it holds throughout the call.
THEOREM CallInvHolds == Spec => []CallInv
<1>1. Init => CallInv
  BY ExecutorAssumption
     DEF Init, CallInv, Counted, Applied, CancelStops, BodiesClosed
<1>2. CallInv /\ [Next]_vars => CallInv'
  BY StepCallInv
<1> QED
  BY <1>1, <1>2, PTL DEF Spec

\* A write is sent, and carried out, at most MaxRetries + 1 times.
THEOREM WritesAreBounded == Spec => []WritesBounded
<1>1. CallInv => WritesBounded
  BY ExecutorAssumption DEF CallInv, Counted, Applied, WritesBounded
<1> QED
  BY <1>1, CallInvHolds, PTL

\* Once the context has ended no further request is sent.
THEOREM CancelStopsCall == Spec => []CancelStops
BY CallInvHolds, PTL DEF CallInv

\* One response body at most is open, and none once the call is over.
THEOREM BodiesAreClosed == Spec => []BodiesClosed
BY CallInvHolds, PTL DEF CallInv

------------------------------------------------------------------------------
(* Delays.  The jitter comes after the cap and may add half of it, so delays   *)
(* are below the cap only where the retries end before the cap is near.        *)

\* No retry may draw a delay above the cap.
JitterFits ==
    \A k \in 1..MaxRetries : \A d \in computeBackoff(k) : d <= MaxBackoff

\* The executor as NewClient builds it: 4 retries, 500 ms, 10 s.
Shipped == MaxRetries = 4 /\ BaseBackoff = 5 /\ MaxBackoff = 100

LEMMA CappedIsLesser ==
    ASSUME NEW a \in Int, a <= MaxBackoff
    PROVE  Min({a, MaxBackoff}) = a
<1>1. MaxBackoff \in Int
  BY ExecutorAssumption
<1>2. \A x \in {a, MaxBackoff} : (\A y \in {a, MaxBackoff} : x <= y) => x = a
  BY <1>1
<1>3. \A y \in {a, MaxBackoff} : a <= y
  BY <1>1
<1> QED
  BY <1>2, <1>3 DEF Min

\* With four retries the last delay is at most 6 s.
LEMMA ShippedJitterFits == Shipped => JitterFits
<1> SUFFICES ASSUME Shipped, NEW k \in 1..4, NEW d \in computeBackoff(k)
             PROVE  d <= MaxBackoff
  BY DEF Shipped, JitterFits
<1>1. MaxBackoff = 100 /\ BaseBackoff = 5
  BY DEF Shipped
<1>2. CASE k = 1
  BY <1>1, <1>2, CappedIsLesser DEF computeBackoff, CappedBackoff
<1>3. CASE k = 2
  BY <1>1, <1>3, CappedIsLesser DEF computeBackoff, CappedBackoff
<1>4. CASE k = 3
  BY <1>1, <1>4, CappedIsLesser DEF computeBackoff, CappedBackoff
<1>5. CASE k = 4
  BY <1>1, <1>5, CappedIsLesser DEF computeBackoff, CappedBackoff
<1> QED
  BY <1>2, <1>3, <1>4, <1>5

DelayBounded == pc = "sleep" /\ backoff \notin RetryAfters => backoff <= MaxBackoff

\* A delay drawn for one of the retries, or named by the server, is bounded.
LEMMA RetryIsBounded ==
    ASSUME JitterFits, CallInv, NEW after \in RetryAfters \cup {0},
           Retry(IF after > 0 THEN {after} ELSE computeBackoff(retries + 1))
    PROVE  DelayBounded'
<1>1. CASE after > 0
  BY <1>1, ExecutorAssumption DEF Retry, DelayBounded
<1>2. CASE ~(after > 0)
  <2>1. backoff' \in computeBackoff(retries + 1) /\ retries + 1 \in 1..MaxRetries
    BY <1>2, ExecutorAssumption DEF Retry, CallInv, Counted
  <2> QED
    BY <2>1 DEF JitterFits, DelayBounded
<1> QED
  BY <1>1, <1>2

\* Do sends and carries out a write at most MaxRetries + 1 times and never waits
\* longer than MaxBackoff unless the server named the delay, for retries that
\* end before the jitter passes the cap.
THEOREM RetriesAreBounded == JitterFits => (Spec => []BoundedRetries)
<1> SUFFICES ASSUME JitterFits PROVE Spec => []BoundedRetries
  OBVIOUS
<1>1. Init => DelayBounded
  BY DEF Init, DelayBounded
<1>2. CallInv /\ DelayBounded /\ [Next]_vars => DelayBounded'
  <2> SUFFICES ASSUME CallInv, DelayBounded, [Next]_vars PROVE DelayBounded'
    OBVIOUS
  <2>1. ASSUME NEW status, RefusedForNow(status) PROVE DelayBounded'
    <3>1. CASE pc' = "sleep"
      <4>1. PICK after \in RetryAfters \cup {0} :
               Retry(IF after > 0 THEN {after} ELSE computeBackoff(retries + 1))
        BY <2>1, <3>1 DEF RefusedForNow, ReturnResponse
      <4> QED
        BY <4>1, RetryIsBounded
    <3> QED
      BY <3>1 DEF DelayBounded
  <2>2. CASE TimedOut
    <3>1. CASE Retry(computeBackoff(retries + 1))
      <4>1. Retry(IF 0 > 0 THEN {0} ELSE computeBackoff(retries + 1))
        BY <3>1
      <4> QED
        BY <4>1, RetryIsBounded
    <3>2. CASE ReturnError("network")
      BY <3>2 DEF ReturnError, DelayBounded
    <3> QED
      BY <2>2, <3>1, <3>2 DEF TimedOut
  <2>3. CASE Cancel \/ UNCHANGED vars
    BY <2>3 DEF Cancel, vars, DelayBounded
  <2>4. CASE \/ SeeCancel \/ Attempt \/ Accepted \/ Refused
             \/ NetworkFails \/ SleepEnds \/ SleepCancelled \/ CallerCloses
    BY <2>4 DEF SeeCancel, Attempt, Accepted, Refused, NetworkFails, SleepEnds,
                SleepCancelled, CallerCloses, ReturnError, ReturnResponse, DelayBounded
  <2> QED
    BY <2>1, <2>2, <2>3, <2>4 DEF Next, Step
<1>3. WritesBounded /\ DelayBounded => BoundedRetries
  BY DEF BoundedRetries, DelayBounded
<1> QED
  BY <1>1, <1>2, <1>3, CallInvHolds, WritesAreBounded, PTL DEF Spec

\* So it is for the executor that NewClient builds, whatever delays the server
\* asks for.
THEOREM ShippedRetriesAreBounded == Shipped => (Spec => []BoundedRetries)
<1> SUFFICES ASSUME Shipped PROVE Spec => []BoundedRetries
  OBVIOUS
<1>1. JitterFits
  BY ShippedJitterFits
<1> QED
  BY <1>1, RetriesAreBounded, PTL
==============================================================================
