------------------------------ MODULE PollBackoff ------------------------------
(* pkg/connector/poll_backoff.go: the backoff of one thread and how the        *)
(* outcome of a poll changes it.  Durations are in ticks of 100 ms, the        *)
(* smallest duration the poll loop uses.                                       *)
EXTENDS Integers, FiniteSetsExt

CONSTANTS BaseDelay,    \* pollBaseDelay (20 ticks)
          IdleCap,      \* pollIdleCap (300 ticks)
          FailureCap,   \* pollFailureCap (600 ticks)
          RetryAfters   \* Retry-After values the server may send, in ticks

ASSUME DelayAssumption ==
    /\ BaseDelay \in 1..40
    /\ IdleCap \in Nat /\ BaseDelay <= IdleCap
    /\ FailureCap \in 1..1000 /\ BaseDelay <= FailureCap
    /\ RetryAfters \subseteq Nat \ {0}

\* What pollThread may return: messages, none, or a class of error; a 429 comes
\* with the delay the server asks for.
Outcomes == [kind : {"ingested", "idle", "failure", "client4xx"}, after : {0}]
                \cup [kind : {"retryAfter"}, after : RetryAfters]

Backoff == [failures : Nat, delay : Int]

\* The backoff of a thread that the loop sees for the first time.
NewBackoff == [failures |-> 0, delay |-> BaseDelay]

ensureBaseDelay(b) == IF b.delay <= 0 THEN BaseDelay ELSE b.delay

OnSuccess(b) == [failures |-> 0, delay |-> BaseDelay]

\* A plausible bug: the delay is taken to be a real one.
OnIdleUnensured(b) ==
    [failures |-> 0, delay |-> Min({b.delay + BaseDelay, IdleCap})]

OnIdle(b) ==
    [failures |-> 0, delay |-> Min({ensureBaseDelay(b) + BaseDelay, IdleCap})]

(* pollBaseDelay << k, as an int64 of nanoseconds.  A tick is 2^8 * 5^8 ns, so  *)
(* the product is Odd * 2^(8+k).  Up to k = 31 it fits (Odd < 2^24) and for     *)
(* k > 9 it is far beyond the cap.  For a larger k only the low 56-k bits of    *)
(* Odd are left: none of them set is 0; the top one set is a negative duration  *)
(* (its size does not matter: -1); otherwise it is positive and beyond the cap. *)
Odd == BaseDelay * 390625

ShiftedDelay(k) ==
    CASE k <= 9 -> BaseDelay * 2^k
      [] k \in 10..31 -> FailureCap + 1
      [] k \in 32..55 ->
            LET left == Odd % 2^(56 - k)
            IN  IF left = 0 THEN 0
                ELSE IF left >= 2^(55 - k) THEN -1 ELSE FailureCap + 1
      [] OTHER -> 0

OnFailure(b) ==
    [failures |-> b.failures + 1,
     delay |-> Min({ShiftedDelay(b.failures), FailureCap})]

OnRetryAfter(b, d) == [failures |-> b.failures + 1, delay |-> d]

ApplyPollBackoff(b, outcome) ==
    CASE outcome.kind = "ingested" -> OnSuccess(b)
      [] outcome.kind = "idle" -> OnIdle(b)
      [] outcome.kind = "failure" -> OnFailure(b)
      [] outcome.kind = "retryAfter" -> OnRetryAfter(b, outcome.after)
      [] outcome.kind = "client4xx" -> [failures |-> 0, delay |-> IdleCap]
==============================================================================
