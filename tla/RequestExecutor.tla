---------------------------- MODULE RequestExecutor ----------------------------
(* TeamsRequestExecutor.Do (internal/teams/client/executor.go) carrying one     *)
(* write to Teams - a message, a reaction, a typing notice or a read horizon -  *)
(* with the response classifier and the clean-up of its caller, which all four  *)
(* share.  The server and the network answer an attempt in any way; a write     *)
(* whose answer is lost may have been applied.  Times are in ticks of 100 ms.   *)
EXTENDS Integers, FiniteSetsExt

CONSTANTS MaxRetries,   \* of the executor (4)
          BaseBackoff,  \* 500 ms: 5 ticks
          MaxBackoff,   \* 10 s: 100 ticks
          RetryAfters   \* Retry-After values of a 429, in ticks; 0: no header

ASSUME ExecutorAssumption ==
    /\ MaxRetries \in Nat
    /\ BaseBackoff \in Nat \ {0}
    /\ MaxBackoff \in Nat /\ BaseBackoff <= MaxBackoff
    /\ RetryAfters \subseteq Nat

VARIABLES pc,        \* where Do, or its caller, is
          retries,   \* the local retries
          backoff,   \* the sleep before the next attempt
          cancelled, \* ctx is done
          open,      \* response bodies not closed yet
          result,    \* what Do returns
          attempts,  \* history: requests sent
          applied,   \* history: times the server carried the write out
          atCancel   \* history: requests sent when ctx was cancelled

vars == <<pc, retries, backoff, cancelled, open, result, attempts, applied, atCancel>>

Init ==
    /\ pc = "attempt"
    /\ retries = 0 /\ backoff = 0
    /\ cancelled = FALSE
    /\ open = 0
    /\ result = "none"
    /\ attempts = 0 /\ applied = 0 /\ atCancel = 0

\* The exponential part, capped ...
CappedBackoff(retry) == Min({BaseBackoff * 2^(retry - 1), MaxBackoff})

\* ... and then spread by a factor between 0.5 and 1.5.
computeBackoff(retry) ==
    (CappedBackoff(retry) \div 2)..((3 * CappedBackoff(retry)) \div 2)

ReturnError(err) ==
    /\ result' = err
    /\ pc' = "returned"
    /\ UNCHANGED <<retries, backoff>>

\* Do hands the response to its caller, which still has to close it.
ReturnResponse(res) ==
    /\ result' = res
    /\ pc' = "caller"
    /\ open' = open + 1
    /\ UNCHANGED <<retries, backoff>>

\* Count the retry and sleep.
Retry(delays) ==
    /\ retries < MaxRetries
    /\ retries' = retries + 1
    /\ backoff' \in delays
    /\ pc' = "sleep"
    /\ UNCHANGED result

------------------------------------------------------------------------------
\* The caller's context ends.
Cancel ==
    /\ ~cancelled /\ pc # "returned"
    /\ cancelled' = TRUE
    /\ atCancel' = attempts
    /\ UNCHANGED <<pc, retries, backoff, open, result, attempts, applied>>

SeeCancel ==
    /\ pc = "attempt" /\ cancelled
    /\ ReturnError("cancelled")
    /\ UNCHANGED <<cancelled, open, attempts, applied, atCancel>>

\* A plausible bug: the context is only looked at while sleeping.
AttemptUnchecked ==
    /\ pc = "attempt"
    /\ pc' = "request"
    /\ attempts' = attempts + 1
    /\ UNCHANGED <<retries, backoff, cancelled, open, result, applied, atCancel>>

\* requestForAttempt and HTTP.Do: the body is rebuilt, the request goes out.
Attempt ==
    /\ pc = "attempt" /\ ~cancelled
    /\ pc' = "request"
    /\ attempts' = attempts + 1
    /\ UNCHANGED <<retries, backoff, cancelled, open, result, applied, atCancel>>

\* 2xx.
Accepted ==
    /\ pc = "request"
    /\ applied' = applied + 1
    /\ ReturnResponse("ok")
    /\ UNCHANGED <<cancelled, attempts, atCancel>>

\* A plausible bug: the response that is retried is not drained and closed.
RefusedForNowUndrained(status) ==
    /\ pc = "request"
    /\ applied' \in {applied} \cup (IF status = "5xx" THEN {applied + 1} ELSE {})
    /\ \/ /\ \E after \in IF status = "429" THEN RetryAfters ELSE {0} :
               Retry(IF after > 0 THEN {after} ELSE computeBackoff(retries + 1))
          /\ open' = open + 1
       \/ /\ retries >= MaxRetries
          /\ ReturnResponse("retryable")
    /\ UNCHANGED <<cancelled, attempts, atCancel>>

\* 429 or 5xx (which may hide that the write was applied): drained and closed,
\* then retried, until the retries are used up.
RefusedForNow(status) ==
    /\ pc = "request"
    /\ applied' \in {applied} \cup (IF status = "5xx" THEN {applied + 1} ELSE {})
    /\ \/ /\ \E after \in IF status = "429" THEN RetryAfters ELSE {0} :
               Retry(IF after > 0 THEN {after} ELSE computeBackoff(retries + 1))
          /\ UNCHANGED open
       \/ /\ retries >= MaxRetries
          /\ ReturnResponse("retryable")
    /\ UNCHANGED <<cancelled, attempts, atCancel>>

\* Any other status.
Refused ==
    /\ pc = "request"
    /\ ReturnResponse("permanent")
    /\ UNCHANGED <<cancelled, attempts, applied, atCancel>>

\* A plausible bug: only the server's refusals are counted as retries.
TimedOutUncounted ==
    /\ pc = "request" /\ ~cancelled
    /\ applied' \in {applied, applied + 1}
    /\ pc' = "sleep" /\ backoff' = BaseBackoff
    /\ UNCHANGED <<retries, cancelled, open, result, attempts, atCancel>>

\* The request times out although ctx is alive: retried, until the retries are
\* used up.  The server may have applied it.
TimedOut ==
    /\ pc = "request" /\ ~cancelled
    /\ applied' \in {applied, applied + 1}
    /\ \/ Retry(computeBackoff(retries + 1))
       \/ /\ retries >= MaxRetries
          /\ ReturnError("network")
    /\ UNCHANGED <<cancelled, open, attempts, atCancel>>

\* A cancelled context, a TLS or DNS failure, or a broken connection: final.
NetworkFails ==
    /\ pc = "request"
    /\ applied' \in {applied, applied + 1}
    /\ ReturnError(IF cancelled THEN "cancelled" ELSE "network")
    /\ UNCHANGED <<cancelled, open, attempts, atCancel>>

\* A plausible bug: the select waits for the context alone.
SleepEndsNever ==
    /\ pc = "sleep"
    /\ UNCHANGED vars

\* sleepWithContext: the timer fires ...
SleepEnds ==
    /\ pc = "sleep"
    /\ pc' = "attempt"
    /\ UNCHANGED <<retries, backoff, cancelled, open, result, attempts, applied, atCancel>>

\* ... or the context ends first.
SleepCancelled ==
    /\ pc = "sleep" /\ cancelled
    /\ ReturnError("cancelled")
    /\ UNCHANGED <<cancelled, open, attempts, applied, atCancel>>

\* The caller closes the body, of an error response too.
CallerCloses ==
    /\ pc = "caller"
    /\ pc' = "returned"
    /\ open' = open - 1
    /\ UNCHANGED <<retries, backoff, cancelled, result, attempts, applied, atCancel>>

Step == \/ SeeCancel \/ Attempt
        \/ Accepted \/ RefusedForNow("429") \/ RefusedForNow("5xx") \/ Refused
        \/ TimedOut \/ NetworkFails
        \/ SleepEnds \/ SleepCancelled \/ CallerCloses

Next == Cancel \/ Step

\* Requests end (the HTTP client has a timeout) and timers fire.
Spec == Init /\ [][Next]_vars /\ WF_vars(Step)

------------------------------------------------------------------------------
\* "up to MaxRetries total retries": whatever mix of refusals and timeouts an
\* attempt meets, no write is sent, or carried out, more than MaxRetries + 1
\* times, and one that is reported as done was carried out.
WritesBounded ==
    /\ attempts <= MaxRetries + 1
    /\ applied <= attempts
    /\ result = "ok" => applied > 0

\* So the retries are bounded, and between attempts Do waits with "an upper
\* bound (MaxBackoff)", unless the server named a delay: the jitter comes after
\* the cap, so this rests on MaxRetries being too small to reach the cap.
BoundedRetries ==
    /\ WritesBounded
    /\ pc = "sleep" /\ backoff \notin RetryAfters => backoff <= MaxBackoff

\* "stop immediately on ctx.Done()": once the context has ended no further
\* request is sent, whether Do was sending, sleeping or between attempts.
CancelStops == cancelled => attempts = atCancel

\* "Ensures response bodies are always drained/closed before retrying or
\* returning": one response at most is open, and none once the call is over.
BodiesClosed ==
    /\ pc # "caller" => open = 0
    /\ pc = "caller" => open = 1

\* The call ends, and with a result.
DoReturns == <>(pc = "returned" /\ result # "none")
==============================================================================
