----------------------------- MODULE PollScheduler -----------------------------
(* pollDueThreads (pkg/connector/handleteams.go): one goroutine that polls     *)
(* every thread when its backoff says so, looks for new threads and sleeps in  *)
(* between.  Times are relative to the `now` of the current pass: a thread     *)
(* with due[t] <= 0 is due, and a pass that took longer than planned makes     *)
(* threads overdue.  Ingesting what a poll returns is in ThreadIngest, how the *)
(* goroutine is started and stopped in SyncLifecycle, what discovery makes of  *)
(* a conversation in Conversation.                                             *)
EXTENDS PollBackoff, Conversation

CONSTANTS Threads,
          DiscoveryInterval,  \* threadDiscoveryInterval (300 ticks)
          WakeInterval,       \* the longest sleep (50 ticks)
          MinSleep,           \* the shortest sleep (1 tick)
          PassDurations,      \* how long discovery and the polls of a pass take
          MaxFailures         \* bound: consecutive failures of each thread

ASSUME SchedulerAssumption ==
    /\ \A c \in Conversations : c.thread \in Threads \cup {""}
    /\ DiscoveryInterval \in Nat \ {0}
    /\ WakeInterval \in Nat \ {0}
    /\ MinSleep \in Nat \ {0}
    /\ PassDurations \subseteq Nat
    /\ \E longest \in PassDurations : \A d \in PassDurations : d <= longest
    /\ MaxFailures \in [Threads -> Nat]

VARIABLES known,      \* threads with a row in teams_thread_state
          states,     \* threads with a pollState
          backoff,    \* backoff[t]: PollBackoff of t
          due,        \* due[t]: nextPoll - now
          discovery,  \* nextDiscovery - now
          place,      \* where the loop is
          todo,       \* threads of the list not handled yet in this pass
          wake        \* nextWake - now

pollVars == <<known, states, backoff, due, discovery, place, todo, wake>>

\* The rows at start get a state that is due; discovery is due too if the
\* initial one failed.
PollInit ==
    /\ known \in SUBSET Threads
    /\ states = known
    /\ backoff = [t \in Threads |-> NewBackoff]
    /\ due = [t \in Threads |-> 0]
    /\ discovery \in {0, DiscoveryInterval}
    /\ place = "top"
    /\ todo = {}
    /\ wake = WakeInterval

------------------------------------------------------------------------------
Discoverable == {c.thread : c \in Normalized}

\* refreshThreads upserts a row for every thread listed and never removes one;
\* a row that cannot be written is passed over, and the whole failing is only
\* logged.
Discover ==
    /\ place = "top"
    /\ discovery <= 0
    /\ \E found \in SUBSET Discoverable : known' = known \cup found
    /\ discovery' = DiscoveryInterval
    /\ place' = "list"
    /\ UNCHANGED <<states, backoff, due, todo, wake>>

NotYetDiscover ==
    /\ place = "top"
    /\ discovery > 0
    /\ place' = "list"
    /\ UNCHANGED <<known, states, backoff, due, discovery, todo, wake>>

\* ListForLogin: every row is visited, and nextWake starts at its cap.
ListThreads ==
    /\ place = "list"
    /\ place' = "pass"
    /\ todo' = known
    /\ wake' = WakeInterval
    /\ UNCHANGED <<known, states, backoff, due, discovery>>

\* A plausible bug: a new thread waits for a state that nobody creates.
DueOfNewLater(t) == IF t \in states THEN due[t] ELSE WakeInterval

\* The state of a thread seen for the first time: due at once.
DueOf(t) == IF t \in states THEN due[t] ELSE 0

Skip(t) ==
    /\ place = "pass" /\ t \in todo
    /\ DueOf(t) > 0
    /\ todo' = todo \ {t}
    /\ wake' = Min({wake, due[t]})
    /\ UNCHANGED <<known, states, backoff, due, discovery, place>>

\* A plausible bug: only the threads that were skipped count for the wake-up.
PollWithoutWake(t) ==
    /\ place = "pass" /\ t \in todo
    /\ DueOf(t) <= 0
    /\ \E o \in Outcomes :
         LET b == ApplyPollBackoff(backoff[t], o)
         IN  /\ b.failures <= MaxFailures[t]
             /\ backoff' = [backoff EXCEPT ![t] = b]
             /\ due' = [due EXCEPT ![t] = b.delay]
    /\ states' = states \cup {t}
    /\ todo' = todo \ {t}
    /\ UNCHANGED <<known, discovery, place, wake>>

\* pollThread, with any outcome, and the thread's next time.
Poll(t) ==
    /\ place = "pass" /\ t \in todo
    /\ DueOf(t) <= 0
    /\ \E o \in Outcomes :
         LET b == ApplyPollBackoff(backoff[t], o)
         IN  /\ b.failures <= MaxFailures[t]
             /\ backoff' = [backoff EXCEPT ![t] = b]
             /\ due' = [due EXCEPT ![t] = b.delay]
             /\ wake' = Min({wake, b.delay})
    /\ states' = states \cup {t}
    /\ todo' = todo \ {t}
    /\ UNCHANGED <<known, discovery, place>>

\* The pass took d; the timer runs until nextWake but at least for MinSleep.
Sleep ==
    /\ place = "pass" /\ todo = {}
    /\ \E d \in PassDurations :
         LET elapsed == Max({wake, d + MinSleep})
         IN  /\ due' = [t \in Threads |-> IF t \in states THEN due[t] - elapsed ELSE 0]
             /\ discovery' = discovery - elapsed
    /\ place' = "top"
    /\ wake' = WakeInterval
    /\ UNCHANGED <<known, states, backoff, todo>>

\* The context is cancelled, seen at the top of a pass or while asleep ...
Cancelled ==
    /\ place = "top" \/ (place = "pass" /\ todo = {})
    /\ place' = "returned"
    /\ UNCHANGED <<known, states, backoff, due, discovery, todo, wake>>

\* ... or the rows cannot be listed.
ListFails ==
    /\ place = "list"
    /\ place' = "returned"
    /\ UNCHANGED <<known, states, backoff, due, discovery, todo, wake>>

Step == \/ Discover \/ NotYetDiscover
        \/ ListThreads
        \/ \E t \in Threads : Skip(t) \/ Poll(t)
        \/ Sleep

PollNext == Step \/ Cancelled \/ ListFails

\* The goroutine runs, its requests and its timer end.
PollSpec == PollInit /\ [][PollNext]_pollVars /\ WF_pollVars(Step)

------------------------------------------------------------------------------
LongestPass == Max(PassDurations) + MinSleep

\* The sleep is capped, so new conversations are looked for on time whatever
\* the threads' backoff is.
DiscoveryOnTime == discovery > -(WakeInterval + LongestPass)

\* Failures in a row after which OnFailure's shift has not overflowed for any
\* base delay that DelayAssumption allows (for the code's 2 s, not after 33).
LastExact == 32

\* Nothing is late by more than a pass: pollDueThreads never sleeps past a
\* thread's nextPoll, so when a pass begins the thread has been due for no
\* longer than the previous pass ran over; and discovery is on time.  (A thread
\* whose delay has overflowed is due at once, or since before it was polled;
\* the others, and discovery, are on time with it.)
OnTime ==
    /\ \A t \in states :
          backoff[t].failures <= LastExact => due[t] >= -LongestPass
    /\ DiscoveryOnTime

\* A thread's delay is a real delay, no shorter than pollBaseDelay and no longer
\* than the caps, unless the server named it: in every order of messages, idle
\* polls and errors, up to LastExact failures in a row, and again as soon as a
\* poll that is no failure follows a longer row of them.
BackoffBounded ==
    \A t \in Threads :
       backoff[t].failures <= LastExact =>
         \/ backoff[t].delay \in BaseDelay..Max({IdleCap, FailureCap})
         \/ backoff[t].failures > 0 /\ backoff[t].delay \in RetryAfters

\* No thread gets its row, and with it its room, from a conversation that is
\* taken for a direct chat and named after the login's own user, a ghost of it,
\* a bot or nobody, in whatever order and however often the three member lists
\* name everybody.
DirectChatsNamed == known \cap Misnamed = {}

JustPolled(t) ==
    place = "pass" /\ t \in states \ todo /\ due[t] = backoff[t].delay

\* No thread is starved by the others' backoff or by its own: until the loop
\* returns, each one is polled again and again.
KeepsPolling ==
    \A t \in Threads :
        (t \in known) ~> (JustPolled(t) \/ place = "returned")

\* "OnFailure performs exponential backoff up to the failure cap": a failed
\* poll is not followed by another one before the base delay.
ExponentialUpToCap ==
    \A t \in Threads :
        backoff[t].failures > 0 /\ backoff[t].delay \notin RetryAfters =>
            backoff[t].delay \in BaseDelay..FailureCap
==============================================================================
