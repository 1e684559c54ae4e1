---------------------------- MODULE SyncLoopProofs ----------------------------
(* Proofs about the sync loop: how it is started and stopped (SyncLifecycle),  *)
(* for any number of controllers and loops, and how it paces itself            *)
(* (PollScheduler), for any threads, conversations and durations.              *)
EXTENDS SyncLifecycle, PollScheduler, WellFoundedInduction, TLAPS

(* Starting and stopping.  Loops are numbered in the order they start, so one  *)
(* that a stop has taken is never registered again, and only taken loops are   *)
(* cancelled.                                                                  *)

\* A controller between taking a loop and the end of its stop.
Stopping == {"cancel", "wait", "logoutCancel", "logoutWait"}

Numbering ==
    /\ syncCancel <= started
    /\ \A n \in Loops : phase[n] = "none" <=> n > started
    /\ \A h \in Controllers : held[h] <= started

\* What a stop took, and what is cancelled, is registered no more.
Taken ==
    /\ \A h \in Controllers : held[h] # 0 => held[h] # syncCancel
    /\ syncCancel \notin cancelled
    /\ \A n \in cancelled : n <= started

OnlyStopsHold ==
    \A h \in Controllers : pc[h] \notin Stopping => held[h] = 0

LoopInv ==
    TypeOK /\ Numbering /\ Taken /\ OnlyStopsHold /\ HeldLoopPolls /\ NoOrphanLoop

\* The invariant holds before the first Connect.
LEMMA InitLoopInv == Init => LoopInv
<1> SUFFICES ASSUME Init PROVE LoopInv
  OBVIOUS
<1> USE LoopBoundAssumption DEF Init
<1>1. TypeOK
  <2>1. pc \in [Controllers -> {"idle", "start", "cancel", "wait",
                               "logoutCancel", "logoutWait"}]
    OBVIOUS
  <2>2. held \in [Controllers -> 0..MaxLoops]
    OBVIOUS
  <2>3. phase \in [Loops -> {"none", "spawned", "looping", "ended"}]
    OBVIOUS
  <2>4. deferred \in [Loops -> 0..MaxLoops]
    OBVIOUS
  <2>5. loggedIn \in BOOLEAN /\ panicked \in BOOLEAN
    OBVIOUS
  <2> QED
    BY <2>1, <2>2, <2>3, <2>4, <2>5 DEF TypeOK
<1>2. Numbering
  BY DEF TypeOK, Numbering, Loops
<1>3. Taken
  BY DEF TypeOK, Taken, Numbering, Loops
<1>4. OnlyStopsHold
  BY DEF TypeOK, OnlyStopsHold, Stopping
<1>5. HeldLoopPolls
  BY DEF TypeOK, HeldLoopPolls, Numbering, Taken, Loops, Live
<1>6. NoOrphanLoop
  BY DEF TypeOK, NoOrphanLoop, Numbering, Taken, OnlyStopsHold, Stopping,
         Loops, Live
<1> QED
  BY <1>1, <1>2, <1>3, <1>4, <1>5, <1>6 DEF LoopInv

\* Connect, Disconnect and LogoutRemote preserve it, however they overlap.
LEMMA ControlLoopInv ==
    ASSUME LoopInv, NEW h \in Controllers, Control(h)
    PROVE  LoopInv'
<1> USE LoopBoundAssumption DEF LoopInv, loopVars
<1>1. CASE ConnectLogsIn(h)
  <2> USE <1>1 DEF ConnectLogsIn
  <2>1. TypeOK'
    BY DEF TypeOK, Loops
  <2>2. Numbering'
    BY DEF TypeOK, Numbering, Loops
  <2>3. Taken'
    BY DEF TypeOK, Taken, Numbering, Loops
  <2>4. OnlyStopsHold'
    BY DEF TypeOK, OnlyStopsHold, Stopping
  <2>5. HeldLoopPolls'
    BY DEF TypeOK, HeldLoopPolls, Numbering, Taken, Loops, Live
  <2>6. NoOrphanLoop'
    BY SMTT(20)
       DEF TypeOK, NoOrphanLoop, Numbering, Taken, OnlyStopsHold, Stopping,
           Loops, Live
  <2> QED
    BY <2>1, <2>2, <2>3, <2>4, <2>5, <2>6
<1>2. CASE ConnectFails(h)
  <2> USE <1>2 DEF ConnectFails
  <2>1. TypeOK'
    BY DEF TypeOK, Loops
  <2>2. Numbering'
    BY DEF TypeOK, Numbering, Loops
  <2>3. Taken'
    BY DEF TypeOK, Taken, Numbering, Loops
  <2>4. OnlyStopsHold'
    BY DEF TypeOK, OnlyStopsHold, Stopping
  <2>5. HeldLoopPolls'
    BY DEF TypeOK, HeldLoopPolls, Numbering, Taken, Loops, Live
  <2>6. NoOrphanLoop'
    BY SMTT(20)
       DEF TypeOK, NoOrphanLoop, Numbering, Taken, OnlyStopsHold, Stopping,
           Loops, Live
  <2> QED
    BY <2>1, <2>2, <2>3, <2>4, <2>5, <2>6
<1>3. CASE StartSyncLoop(h)
  <2> USE <1>3 DEF StartSyncLoop
  <2>1. TypeOK'
    BY DEF TypeOK, Loops
  <2>2. Numbering'
    BY DEF TypeOK, Numbering, Loops
  <2>3. Taken'
    BY DEF TypeOK, Taken, Numbering, Loops
  <2>4. OnlyStopsHold'
    BY DEF TypeOK, OnlyStopsHold, Stopping
  <2>5. HeldLoopPolls'
    BY DEF TypeOK, HeldLoopPolls, Numbering, Taken, Loops, Live
  <2>6. NoOrphanLoop'
    BY SMTT(20)
       DEF TypeOK, NoOrphanLoop, Numbering, Taken, OnlyStopsHold, Stopping,
           Loops, Live
  <2> QED
    BY <2>1, <2>2, <2>3, <2>4, <2>5, <2>6
<1>4. CASE AlreadyStarted(h)
  <2> USE <1>4 DEF AlreadyStarted
  <2>1. TypeOK'
    BY DEF TypeOK, Loops
  <2>2. Numbering'
    BY DEF TypeOK, Numbering, Loops
  <2>3. Taken'
    BY DEF TypeOK, Taken, Numbering, Loops
  <2>4. OnlyStopsHold'
    BY DEF TypeOK, OnlyStopsHold, Stopping
  <2>5. HeldLoopPolls'
    BY DEF TypeOK, HeldLoopPolls, Numbering, Taken, Loops, Live
  <2>6. NoOrphanLoop'
    BY SMTT(20)
       DEF TypeOK, NoOrphanLoop, Numbering, Taken, OnlyStopsHold, Stopping,
           Loops, Live
  <2> QED
    BY <2>1, <2>2, <2>3, <2>4, <2>5, <2>6
<1>5. CASE TakeLoop(h)
  <2> USE <1>5 DEF TakeLoop, After
  <2>1. TypeOK'
    <3>1. pc' \in [Controllers -> {"idle", "start", "cancel", "wait",
                                  "logoutCancel", "logoutWait"}]
      BY DEF TypeOK
    <3>2. held' \in [Controllers -> 0..MaxLoops] /\ early' \subseteq Loops
      BY DEF TypeOK, Loops
    <3> QED
      BY <3>1, <3>2 DEF TypeOK, Loops
  <2>2. Numbering'
    BY DEF TypeOK, Numbering, Loops
  <2>3. Taken'
    BY DEF TypeOK, Taken, Numbering, Loops
  <2>4. OnlyStopsHold'
    BY DEF TypeOK, OnlyStopsHold, Stopping
  <2>5. HeldLoopPolls'
    BY DEF TypeOK, HeldLoopPolls, Numbering, Taken, Loops, Live
  <2>6. NoOrphanLoop'
    BY SMTT(20)
       DEF TypeOK, NoOrphanLoop, Numbering, Taken, OnlyStopsHold, Stopping,
           Loops, Live
  <2> QED
    BY <2>1, <2>2, <2>3, <2>4, <2>5, <2>6
<1>6. CASE NothingToStop(h)
  <2> USE <1>6 DEF NothingToStop, StopReturns
  <2>1. TypeOK'
    BY DEF TypeOK, Loops
  <2>2. Numbering'
    BY DEF TypeOK, Numbering, Loops
  <2>3. Taken'
    BY DEF TypeOK, Taken, Numbering, Loops
  <2>4. OnlyStopsHold'
    BY DEF TypeOK, OnlyStopsHold, Stopping
  <2>5. HeldLoopPolls'
    BY DEF TypeOK, HeldLoopPolls, Numbering, Taken, Loops, Live
  <2>6. NoOrphanLoop'
    BY SMTT(20)
       DEF TypeOK, NoOrphanLoop, Numbering, Taken, OnlyStopsHold, Stopping,
           Loops, Live
  <2> QED
    BY <2>1, <2>2, <2>3, <2>4, <2>5, <2>6
<1>7. CASE CancelLoop(h)
  <2> USE <1>7 DEF CancelLoop
  <2>1. TypeOK'
    <3>1. held[h] \in Loops
      BY DEF TypeOK, Loops
    <3>2. pc' \in [Controllers -> {"idle", "start", "cancel", "wait",
                                  "logoutCancel", "logoutWait"}]
      BY DEF TypeOK
    <3> QED
      BY <3>1, <3>2 DEF TypeOK
  <2>2. Numbering'
    BY DEF TypeOK, Numbering, Loops
  <2>3. Taken'
    BY DEF TypeOK, Taken, Numbering, Loops
  <2>4. OnlyStopsHold'
    BY DEF TypeOK, OnlyStopsHold, Stopping
  <2>5. HeldLoopPolls'
    BY DEF TypeOK, HeldLoopPolls, Numbering, Taken, Loops, Live
  <2>6. NoOrphanLoop'
    BY SMTT(20)
       DEF TypeOK, NoOrphanLoop, Numbering, Taken, OnlyStopsHold, Stopping,
           Loops, Live
  <2> QED
    BY <2>1, <2>2, <2>3, <2>4, <2>5, <2>6
<1>8. CASE LoopIsDone(h) \/ StopTimesOut(h)
  <2>1. /\ pc[h] \in {"wait", "logoutWait"}
        /\ pc' = [pc EXCEPT ![h] = "idle"]
        /\ held' = [held EXCEPT ![h] = 0]
        /\ loggedIn' \in {FALSE, loggedIn}
        /\ UNCHANGED <<syncCancel, syncDone, started, cancelled, early, phase,
                      deferred, closed, failed, panicked>>
    BY <1>8 DEF LoopIsDone, StopTimesOut, StopReturns
  <2>2. held' \in [Controllers -> 0..MaxLoops]
    BY <2>1 DEF TypeOK
  <2>3. TypeOK'
    BY <2>1, <2>2 DEF TypeOK, Loops
  <2>4. Numbering'
    BY <2>1, <2>2 DEF TypeOK, Numbering, Loops
  <2>5. Taken'
    BY <2>1, <2>2 DEF TypeOK, Taken, Numbering, Loops
  <2>6. OnlyStopsHold'
    BY <2>1, <2>2 DEF TypeOK, OnlyStopsHold, Stopping
  <2>7. HeldLoopPolls'
    BY <2>1, <2>2 DEF TypeOK, HeldLoopPolls, Numbering, Taken, Loops, Live
  <2>8. NoOrphanLoop'
    BY <2>1, <2>2, SMTT(20)
       DEF TypeOK, NoOrphanLoop, Numbering, Taken, OnlyStopsHold, Stopping,
           Loops, Live
  <2> QED
    BY <2>3, <2>4, <2>5, <2>6, <2>7, <2>8
<1> QED
  BY <1>1, <1>2, <1>3, <1>4, <1>5, <1>6, <1>7, <1>8 DEF Control

\* The loops themselves preserve it.
LEMMA LoopStepLoopInv ==
    ASSUME LoopInv, NEW n \in Loops, Loop(n)
    PROVE  LoopInv'
<1> USE LoopBoundAssumption DEF LoopInv
<1>1. CASE LoopStarts(n)
  <2> USE <1>1 DEF LoopStarts
  <2>1. TypeOK'
    BY DEF TypeOK, Loops
  <2>2. Numbering'
    BY DEF TypeOK, Numbering, Loops
  <2>3. Taken'
    BY DEF TypeOK, Taken, Numbering, Loops
  <2>4. OnlyStopsHold'
    BY DEF TypeOK, OnlyStopsHold, Stopping
  <2>5. HeldLoopPolls'
    BY DEF TypeOK, HeldLoopPolls, Numbering, Taken, Loops, Live
  <2>6. NoOrphanLoop'
    BY SMTT(20)
       DEF TypeOK, NoOrphanLoop, Numbering, Taken, OnlyStopsHold, Stopping,
           Loops, Live
  <2> QED
    BY <2>1, <2>2, <2>3, <2>4, <2>5, <2>6
<1>2. CASE LoopSeesCancel(n)
  <2> USE <1>2 DEF LoopSeesCancel, LoopReturns
  <2>1. TypeOK'
    <3>1. phase' \in [Loops -> {"none", "spawned", "looping", "ended"}]
      BY DEF TypeOK
    <3>2. {deferred[n]} \ {0} \subseteq Loops
      BY DEF TypeOK, Loops
    <3>3. closed' \subseteq Loops
      BY <3>2 DEF TypeOK
    <3>4. panicked' \in BOOLEAN
      OBVIOUS
    <3> QED
      BY <3>1, <3>3, <3>4 DEF TypeOK
  <2>2. Numbering'
    BY DEF TypeOK, Numbering, Loops
  <2>3. Taken'
    BY DEF TypeOK, Taken, Numbering, Loops
  <2>4. OnlyStopsHold'
    BY DEF TypeOK, OnlyStopsHold, Stopping
  <2>5. HeldLoopPolls'
    BY DEF TypeOK, HeldLoopPolls, Numbering, Taken, Loops, Live
  <2>6. NoOrphanLoop'
    BY SMTT(20)
       DEF TypeOK, NoOrphanLoop, Numbering, Taken, OnlyStopsHold, Stopping,
           Loops, Live
  <2> QED
    BY <2>1, <2>2, <2>3, <2>4, <2>5, <2>6
<1>3. CASE LoopFails(n)
  <2> USE <1>3 DEF LoopFails, LoopReturns
  <2>1. TypeOK'
    <3>1. phase' \in [Loops -> {"none", "spawned", "looping", "ended"}]
      BY DEF TypeOK
    <3>2. {deferred[n]} \ {0} \subseteq Loops
      BY DEF TypeOK, Loops
    <3>3. closed' \subseteq Loops
      BY <3>2 DEF TypeOK
    <3>4. panicked' \in BOOLEAN
      OBVIOUS
    <3> QED
      BY <3>1, <3>3, <3>4 DEF TypeOK
  <2>2. Numbering'
    BY DEF TypeOK, Numbering, Loops
  <2>3. Taken'
    BY DEF TypeOK, Taken, Numbering, Loops
  <2>4. OnlyStopsHold'
    BY DEF TypeOK, OnlyStopsHold, Stopping
  <2>5. HeldLoopPolls'
    BY DEF TypeOK, HeldLoopPolls, Numbering, Taken, Loops, Live
  <2>6. NoOrphanLoop'
    BY SMTT(20)
       DEF TypeOK, NoOrphanLoop, Numbering, Taken, OnlyStopsHold, Stopping,
           Loops, Live
  <2> QED
    BY <2>1, <2>2, <2>3, <2>4, <2>5, <2>6
<1> QED
  BY <1>1, <1>2, <1>3 DEF Loop

\* So it holds throughout.
THEOREM LoopInvHolds == Spec => []LoopInv
<1>1. LoopInv /\ [Next]_vars => LoopInv'
  <2> SUFFICES ASSUME LoopInv, [Next]_vars PROVE LoopInv'
    OBVIOUS
  <2>1. CASE UNCHANGED vars
    BY <2>1 DEF vars, LoopInv, TypeOK, Numbering, Taken, OnlyStopsHold,
          HeldLoopPolls, NoOrphanLoop, Live
  <2>2. CASE Next
    BY <2>2, ControlLoopInv, LoopStepLoopInv DEF Next
  <2> QED
    BY <2>1, <2>2
<1> QED
  BY <1>1, InitLoopInv, PTL DEF Spec

\* The variables keep their types.
THEOREM SyncTypeCorrect == Spec => []TypeOK
BY LoopInvHolds, PTL DEF LoopInv

\* No loop escapes: one that polls uncancelled is registered, or a stop has
\* taken it and is about to cancel it.
THEOREM NoLoopEscapes == Spec => []NoOrphanLoop
BY LoopInvHolds, PTL DEF LoopInv

\* A registered loop polls, unless a failed query has ended it.
THEOREM RegisteredLoopPolls == Spec => []HeldLoopPolls
BY LoopInvHolds, PTL DEF LoopInv

------------------------------------------------------------------------------
\* While no loop has been stopped too early, a loop that has not run yet is
\* still registered, so its defer statement reads its own channel.
DoneInv ==
    /\ syncDone = syncCancel
    /\ early = {} =>
         /\ \A n \in Loops : phase[n] = "spawned" => syncDone = n
         /\ \A n \in Loops : phase[n] = "looping" => deferred[n] = n
         /\ \A n \in closed : phase[n] = "ended"
         /\ ~panicked

\* Every step preserves it: a new loop starts only when none is registered, so
\* none is waiting to run.
LEMMA StepDoneInv ==
    ASSUME TypeOK, Numbering, DoneInv, [Next]_vars
    PROVE  DoneInv'
<1> USE LoopBoundAssumption DEF TypeOK, DoneInv, Loops
<1>1. CASE UNCHANGED vars
  BY <1>1 DEF vars
<1>2. ASSUME NEW h \in Controllers, Control(h)
      PROVE  DoneInv'
  <2>1. CASE StartSyncLoop(h)
    <3>1. /\ syncCancel = 0 /\ started + 1 \in Loops
          /\ syncDone' = syncCancel' /\ syncDone' = started + 1
          /\ phase' = [phase EXCEPT ![started + 1] = "spawned"]
          /\ UNCHANGED <<deferred, closed, early, panicked>>
      BY <2>1 DEF StartSyncLoop
    <3>2. phase[started + 1] = "none"
      BY <3>1 DEF Numbering
    <3> QED
      BY <3>1, <3>2
  <2>2. CASE TakeLoop(h)
    BY <2>2 DEF TakeLoop, loopVars
  <2>3. CASE ~StartSyncLoop(h) /\ ~TakeLoop(h)
    <3>1. UNCHANGED <<syncCancel, syncDone, early, loopVars>>
      BY <1>2, <2>3
         DEF Control, ConnectLogsIn, ConnectFails, AlreadyStarted, NothingToStop,
             CancelLoop, LoopIsDone, StopTimesOut
    <3> QED
      BY <3>1 DEF loopVars
  <2> QED
    BY <2>1, <2>2, <2>3
<1>3. ASSUME NEW n \in Loops, Loop(n)
      PROVE  DoneInv'
  <2>1. CASE LoopStarts(n)
    BY <2>1 DEF LoopStarts
  <2>2. CASE LoopSeesCancel(n) \/ LoopFails(n)
    <3>1. /\ phase[n] = "looping"
          /\ phase' = [phase EXCEPT ![n] = "ended"]
          /\ closed' = closed \cup ({deferred[n]} \ {0})
          /\ panicked' = (deferred[n] \in {0} \cup closed)
          /\ UNCHANGED <<syncCancel, syncDone, deferred, early>>
      BY <2>2 DEF LoopSeesCancel, LoopFails, LoopReturns
    <3>2. ASSUME early = {}
          PROVE  deferred[n] = n /\ n \notin closed /\ ~panicked'
      BY <3>1, <3>2
    <3> QED
      BY <3>1, <3>2
  <2> QED
    BY <1>3, <2>1, <2>2 DEF Loop
<1> QED
  BY <1>1, <1>2, <1>3 DEF Next

\* Closing a done channel never panics, and only an ended loop's is closed,
\* unless some loop was stopped before its goroutine ran.
THEOREM DoneChannelsSound == Spec => []DoneChannelSound
<1>1. Init => DoneInv
  BY LoopBoundAssumption DEF Init, DoneInv, Loops
<1>2. LoopInv /\ DoneInv /\ [Next]_vars => DoneInv'
  BY StepDoneInv DEF LoopInv
<1>3. DoneInv => DoneChannelSound
  BY DEF DoneInv, DoneChannelSound
<1> QED
  BY <1>1, <1>2, <1>3, LoopInvHolds, PTL DEF Spec

------------------------------------------------------------------------------
(* Pace.  A backoff is a real delay unless the shift has overflowed; nextWake  *)
(* is never later than the nextPoll of a thread already handled in the pass,   *)
(* so a sleep passes none of them by more than the pass ran over.  An overflow *)
(* only makes the sleep shorter.                                               *)

PollTypes ==
    /\ known \subseteq Threads /\ states \subseteq known /\ todo \subseteq known
    /\ backoff \in [Threads -> Backoff]
    /\ due \in [Threads -> Int]
    /\ discovery \in Int /\ wake \in Int
    /\ place \in {"top", "list", "pass", "returned"}

\* A thread whose delay has not overflowed.
Exact(t) == backoff[t].failures <= LastExact

\* Handled threads are waited for, and but for an overflow they are not due yet;
\* discovery is ahead once it was looked at.
Handled ==
    /\ place = "pass" => /\ wake <= WakeInterval
                         /\ \A t \in states \ todo :
                              wake <= due[t] /\ (Exact(t) => due[t] > 0)
    /\ place \in {"list", "pass"} => discovery > 0

PaceInv == PollTypes /\ BackoffBounded /\ Handled /\ OnTime

\* The lesser and the greater of two numbers.
LEMMA MinOfTwo ==
    ASSUME NEW a \in Int, NEW b \in Int
    PROVE  Min({a, b}) = IF a <= b THEN a ELSE b
<1> DEFINE m == IF a <= b THEN a ELSE b
<1>1. m \in {a, b} /\ \A y \in {a, b} : m <= y
  OBVIOUS
<1>2. \A x \in {a, b} : (\A y \in {a, b} : x <= y) => x = m
  OBVIOUS
<1> QED
  BY <1>1, <1>2 DEF Min

LEMMA MaxOfTwo ==
    ASSUME NEW a \in Int, NEW b \in Int
    PROVE  Max({a, b}) = IF a >= b THEN a ELSE b
<1> DEFINE m == IF a >= b THEN a ELSE b
<1>1. m \in {a, b} /\ \A y \in {a, b} : m >= y
  OBVIOUS
<1>2. \A x \in {a, b} : (\A y \in {a, b} : x >= y) => x = m
  OBVIOUS
<1> QED
  BY <1>1, <1>2 DEF Max

\* The longest pass.
LEMMA LongestPassBounds ==
    /\ LongestPass \in Nat
    /\ \A d \in PassDurations : d + MinSleep <= LongestPass
<1> DEFINE IsMax(x) == \A y \in PassDurations : x >= y
<1>1. PICK longest \in PassDurations : \A d \in PassDurations : d <= longest
  BY SchedulerAssumption
<1>2. PassDurations \subseteq Nat /\ MinSleep \in Nat
  BY SchedulerAssumption
<1>3. \E x \in PassDurations : IsMax(x)
  BY <1>1, <1>2
<1>4. Max(PassDurations) \in PassDurations /\ IsMax(Max(PassDurations))
  BY <1>3 DEF Max
<1>5. Max(PassDurations) \in Nat /\ \A d \in PassDurations : d <= Max(PassDurations)
  BY <1>2, <1>4
<1> QED
  BY <1>2, <1>5 DEF LongestPass

\* The shifted base delay is a real delay for up to 32 failures.
LEMMA ShiftIsDelay ==
    ASSUME NEW k \in 0..31
    PROVE  ShiftedDelay(k) \in Int /\ ShiftedDelay(k) >= BaseDelay
<1> USE DelayAssumption
<1>1. BaseDelay \in Nat /\ FailureCap \in Nat /\ BaseDelay <= FailureCap
  OBVIOUS
<1>2. CASE k > 9
  BY <1>1, <1>2 DEF ShiftedDelay
<1>3. CASE k <= 9
  <2>1. ShiftedDelay(k) = BaseDelay * 2^k
    BY <1>3 DEF ShiftedDelay
  <2>2. CASE k = 0
    BY <1>1, <2>1, <2>2
  <2>3. CASE k = 1
    BY <1>1, <2>1, <2>3
  <2>4. CASE k = 2
    BY <1>1, <2>1, <2>4
  <2>5. CASE k = 3
    BY <1>1, <2>1, <2>5
  <2>6. CASE k = 4
    BY <1>1, <2>1, <2>6
  <2>7. CASE k = 5
    BY <1>1, <2>1, <2>7
  <2>8. CASE k = 6
    BY <1>1, <2>1, <2>8
  <2>9. CASE k = 7
    BY <1>1, <2>1, <2>9
  <2>10. CASE k = 8
    BY <1>1, <2>1, <2>10
  <2>11. CASE k = 9
    BY <1>1, <2>1, <2>11
  <2> QED
    BY <1>3, <2>2, <2>3, <2>4, <2>5, <2>6, <2>7, <2>8, <2>9, <2>10, <2>11
<1> QED
  BY <1>2, <1>3

\* Overflown or not, a shift is a number.
LEMMA ShiftIsNumber ==
    ASSUME NEW k \in Nat
    PROVE  ShiftedDelay(k) \in Int
<1>1. FailureCap + 1 \in Int
  BY DelayAssumption
<1>2. CASE k \in 0..31
  BY <1>2, ShiftIsDelay
<1>3. CASE k \in 32..55
  BY <1>1, <1>3 DEF ShiftedDelay
<1>4. CASE k > 55
  BY <1>4 DEF ShiftedDelay
<1> QED
  BY <1>2, <1>3, <1>4

\* So every poll leaves a backoff.
LEMMA OutcomeIsBackoff ==
    ASSUME NEW b \in Backoff, NEW o \in Outcomes
    PROVE  ApplyPollBackoff(b, o) \in Backoff
<1>1. b.failures \in Nat /\ b.delay \in Int /\ b.failures + 1 \in Nat
  BY DEF Backoff
<1>2. BaseDelay \in Int /\ IdleCap \in Int /\ FailureCap \in Int /\ RetryAfters \subseteq Int
  BY DelayAssumption
<1>3. CASE o.kind \in {"ingested", "client4xx"}
  BY <1>2, <1>3 DEF ApplyPollBackoff, OnSuccess, Backoff
<1>4. CASE o.kind = "idle"
  <2>1. ensureBaseDelay(b) + BaseDelay \in Int
    BY <1>1, <1>2 DEF ensureBaseDelay
  <2>2. Min({ensureBaseDelay(b) + BaseDelay, IdleCap}) \in Int
    BY <1>2, <2>1, MinOfTwo
  <2> QED
    BY <1>4, <2>2 DEF ApplyPollBackoff, OnIdle, Backoff
<1>5. CASE o.kind = "failure"
  <2>1. Min({ShiftedDelay(b.failures), FailureCap}) \in Int
    BY <1>1, <1>2, ShiftIsNumber, MinOfTwo
  <2> QED
    BY <1>1, <1>5, <2>1 DEF ApplyPollBackoff, OnFailure, Backoff
<1>6. CASE o.kind = "retryAfter"
  <2>1. o.after \in Int
    BY <1>2, <1>6 DEF Outcomes
  <2> QED
    BY <1>1, <1>6, <2>1 DEF ApplyPollBackoff, OnRetryAfter, Backoff
<1> QED
  BY <1>3, <1>4, <1>5, <1>6 DEF Outcomes

\* A delay no shorter than the base delay and no longer than the caps, or one
\* that the server named.
RealDelay(b) ==
    \/ b.delay \in BaseDelay..Max({IdleCap, FailureCap})
    \/ b.failures > 0 /\ b.delay \in RetryAfters

\* The outcome of a poll leaves a real delay, whatever the delay was before,
\* unless the failures in a row have become too many.
LEMMA OutcomeLeavesDelay ==
    ASSUME NEW b \in Backoff, NEW o \in Outcomes,
           ApplyPollBackoff(b, o).failures <= LastExact
    PROVE  RealDelay(ApplyPollBackoff(b, o)) /\ ApplyPollBackoff(b, o).delay > 0
<1> DEFINE Cap == Max({IdleCap, FailureCap})
<1>1. /\ BaseDelay \in Nat /\ BaseDelay > 0 /\ IdleCap \in Nat /\ FailureCap \in Nat
      /\ BaseDelay <= IdleCap /\ BaseDelay <= FailureCap
      /\ \A a \in RetryAfters : a \in Nat /\ a > 0
  BY DelayAssumption
<1>2. Cap \in Nat /\ IdleCap <= Cap /\ FailureCap <= Cap
  BY <1>1, MaxOfTwo
<1> HIDE DEF Cap
<1>3. ASSUME NEW f \in Nat, NEW d \in BaseDelay..Cap
      PROVE  LET n == [failures |-> f, delay |-> d]
             IN  RealDelay(n) /\ n.delay > 0
  BY <1>1, <1>2, <1>3 DEF RealDelay, Cap
<1>4. b.failures \in Nat /\ b.delay \in Int
  BY DEF Backoff
<1>5. CASE o.kind = "ingested"
  <2>1. BaseDelay \in BaseDelay..Cap
    BY <1>1, <1>2
  <2> QED
    BY <1>3, <1>5, <2>1 DEF ApplyPollBackoff, OnSuccess
<1>6. CASE o.kind = "idle"
  <2>1. ensureBaseDelay(b) \in Nat /\ ensureBaseDelay(b) > 0
    BY <1>1, <1>4 DEF ensureBaseDelay
  <2>2. Min({ensureBaseDelay(b) + BaseDelay, IdleCap}) \in BaseDelay..Cap
    BY <1>1, <1>2, <2>1, MinOfTwo
  <2> QED
    BY <1>3, <1>6, <2>2 DEF ApplyPollBackoff, OnIdle
<1>7. CASE o.kind = "failure"
  <2>1. b.failures + 1 \in Nat /\ b.failures \in 0..31
    BY <1>4, <1>7 DEF ApplyPollBackoff, OnFailure, LastExact
  <2>2. ShiftedDelay(b.failures) \in Int /\ ShiftedDelay(b.failures) >= BaseDelay
    BY <2>1, ShiftIsDelay
  <2>3. Min({ShiftedDelay(b.failures), FailureCap}) \in BaseDelay..Cap
    BY <1>1, <1>2, <2>2, MinOfTwo
  <2> QED
    BY <1>3, <1>7, <2>1, <2>3 DEF ApplyPollBackoff, OnFailure
<1>8. CASE o.kind = "retryAfter"
  <2>1. o.after \in RetryAfters
    BY <1>8 DEF Outcomes
  <2>2. ApplyPollBackoff(b, o) = [failures |-> b.failures + 1, delay |-> o.after]
    BY <1>8 DEF ApplyPollBackoff, OnRetryAfter
  <2>3. b.failures + 1 \in Nat /\ b.failures + 1 > 0
    BY <1>4
  <2>4. o.after \in Int /\ o.after > 0
    BY <1>1, <2>1
  <2> QED
    BY <2>1, <2>2, <2>3, <2>4 DEF RealDelay
<1>9. CASE o.kind = "client4xx"
  <2>1. IdleCap \in BaseDelay..Cap
    BY <1>1, <1>2
  <2> QED
    BY <1>3, <1>9, <2>1 DEF ApplyPollBackoff
<1> QED
  BY <1>5, <1>6, <1>7, <1>8, <1>9 DEF Outcomes

\* What BackoffBounded says of one thread.
LEMMA BackoffIsReal == BackoffBounded <=> \A t \in Threads : Exact(t) => RealDelay(backoff[t])
BY DEF BackoffBounded, RealDelay, Exact

\* The facts about durations that the steps use.
LEMMA Durations ==
    /\ WakeInterval \in Nat /\ WakeInterval > 0
    /\ DiscoveryInterval \in Nat /\ DiscoveryInterval > 0
    /\ LongestPass \in Nat /\ MinSleep \in Nat
    /\ PassDurations \subseteq Nat
<1>1. WakeInterval \in Nat \ {0} /\ DiscoveryInterval \in Nat \ {0} /\ MinSleep \in Nat
      /\ PassDurations \subseteq Nat
  BY SchedulerAssumption
<1> QED
  BY <1>1, LongestPassBounds

\* Discovery and the listing of the rows begin a pass.
LEMMA BeginKeepsPace ==
    ASSUME PaceInv, Discover \/ NotYetDiscover \/ ListThreads
    PROVE  PaceInv'
<1> USE Durations DEF PaceInv, PollTypes, Handled, OnTime, DiscoveryOnTime, Exact
<1>1. UNCHANGED <<states, backoff, due>>
  BY DEF Discover, NotYetDiscover, ListThreads
<1>2. BackoffBounded'
  BY <1>1 DEF BackoffBounded
<1>3. CASE Discover
  <2>1. known' \subseteq Threads /\ known \subseteq known'
    <3>1. Discoverable \subseteq Threads
      BY SchedulerAssumption DEF Discoverable, Normalized
    <3> QED
      BY <1>3, <3>1 DEF Discover
  <2> QED
    BY <1>2, <1>3, <2>1 DEF Discover
<1>4. CASE NotYetDiscover
  BY <1>2, <1>4 DEF NotYetDiscover
<1>5. CASE ListThreads
  <2>1. todo' = known /\ wake' = WakeInterval /\ place' = "pass" /\ place = "list"
        /\ UNCHANGED <<known, states, due, discovery, backoff>>
    BY <1>5 DEF ListThreads
  <2>2. states' \ todo' = {}
    BY <2>1
  <2> QED
    BY <1>2, <2>1, <2>2
<1> QED
  BY <1>3, <1>4, <1>5

\* A thread that is not due yet: the loop will wake up for it.
LEMMA SkipKeepsPace ==
    ASSUME PaceInv, NEW t \in Threads, Skip(t)
    PROVE  PaceInv'
<1> USE Durations DEF PaceInv, PollTypes
<1>1. /\ place = "pass" /\ t \in todo /\ todo' = todo \ {t}
      /\ wake' = Min({wake, due[t]})
      /\ UNCHANGED <<known, states, backoff, due, discovery, place>>
  BY DEF Skip
<1>2. t \in states /\ due[t] > 0
  BY DEF Skip, DueOf
<1>3. wake' = IF wake <= due[t] THEN wake ELSE due[t]
  BY <1>1, MinOfTwo
<1>4. wake' \in Int /\ wake' <= WakeInterval /\ wake' <= wake /\ wake' <= due[t]
  BY <1>1, <1>2, <1>3 DEF Handled
<1>5. \A u \in states' \ todo' : wake' <= due'[u] /\ (Exact(u) => due'[u] > 0)
  <2> SUFFICES ASSUME NEW u \in states \ (todo \ {t})
               PROVE  wake' <= due[u] /\ (Exact(u) => due[u] > 0)
    BY <1>1
  <2>1. CASE u = t
    BY <2>1, <1>2, <1>4
  <2>2. CASE u # t
    <3>1. wake <= due[u] /\ due[u] \in Int /\ (Exact(u) => due[u] > 0)
      BY <2>2, <1>1 DEF Handled
    <3> QED
      BY <3>1, <1>4
  <2> QED
    BY <2>1, <2>2
<1>6. \A u \in Threads : Exact(u)' <=> Exact(u)
  BY <1>1 DEF Exact
<1>7. Handled'
  BY <1>1, <1>4, <1>5, <1>6 DEF Handled
<1>8. OnTime' /\ BackoffBounded'
  BY <1>1 DEF OnTime, DiscoveryOnTime, BackoffBounded
<1> QED
  BY <1>1, <1>4, <1>7, <1>8

\* A poll with any outcome: the loop will wake up for the thread's next one.
LEMMA PollKeepsPace ==
    ASSUME PaceInv, NEW t \in Threads, Poll(t)
    PROVE  PaceInv'
<1> USE Durations DEF PaceInv, PollTypes
<1>1. PICK o \in Outcomes :
         LET b == ApplyPollBackoff(backoff[t], o)
         IN  /\ backoff' = [backoff EXCEPT ![t] = b]
             /\ due' = [due EXCEPT ![t] = b.delay]
             /\ wake' = Min({wake, b.delay})
  BY DEF Poll
<1> DEFINE b == ApplyPollBackoff(backoff[t], o)
<1>2. /\ place = "pass" /\ t \in todo /\ todo' = todo \ {t} /\ states' = states \cup {t}
      /\ UNCHANGED <<known, discovery, place>>
  BY DEF Poll
<1>3. b \in Backoff
  BY OutcomeIsBackoff
<1>4. b.failures <= LastExact => RealDelay(b) /\ b.delay > 0
  BY OutcomeLeavesDelay
<1>5. /\ backoff' = [backoff EXCEPT ![t] = b] /\ due' = [due EXCEPT ![t] = b.delay]
      /\ wake' = Min({wake, b.delay})
  BY <1>1
<1> HIDE DEF b
<1>6. b.delay \in Int /\ b.failures \in Nat
  BY <1>3 DEF Backoff
<1>7. wake' \in Int /\ wake' <= WakeInterval /\ wake' <= wake /\ wake' <= b.delay
  <2>1. wake' = IF wake <= b.delay THEN wake ELSE b.delay
    BY <1>5, <1>6, MinOfTwo
  <2> QED
    BY <1>2, <1>6, <2>1 DEF Handled
<1>8. /\ backoff'[t] = b /\ due'[t] = b.delay
      /\ \A u \in Threads \ {t} : backoff'[u] = backoff[u] /\ due'[u] = due[u]
  BY <1>5
<1>9. \A u \in states' \ todo' : wake' <= due'[u] /\ (Exact(u)' => due'[u] > 0)
  <2> SUFFICES ASSUME NEW u \in (states \cup {t}) \ (todo \ {t})
               PROVE  wake' <= due'[u] /\ (Exact(u)' => due'[u] > 0)
    BY <1>2
  <2>1. CASE u = t
    BY <2>1, <1>4, <1>7, <1>8 DEF Exact
  <2>2. CASE u # t
    <3>1. wake <= due[u] /\ due[u] \in Int /\ (Exact(u) => due[u] > 0)
      BY <2>2, <1>2 DEF Handled
    <3>2. due'[u] = due[u] /\ (Exact(u)' <=> Exact(u))
      BY <2>2, <1>8 DEF Exact
    <3> QED
      BY <3>1, <3>2, <1>7
  <2> QED
    BY <2>1, <2>2
<1>10. PollTypes'
  BY <1>2, <1>3, <1>5, <1>6, <1>7
<1>11. BackoffBounded'
  <2>1. ASSUME NEW u \in Threads, Exact(u)' PROVE RealDelay(backoff'[u])
    BY <2>1, <1>4, <1>8, BackoffIsReal DEF Exact
  <2> QED
    BY <2>1 DEF BackoffBounded, RealDelay, Exact
<1>12. Handled'
  BY <1>2, <1>7, <1>9 DEF Handled
<1>13. OnTime'
  <2>1. ASSUME NEW u \in states', backoff'[u].failures <= LastExact
        PROVE  due'[u] >= -LongestPass
    <3>1. CASE u = t
      BY <2>1, <3>1, <1>4, <1>6, <1>8
    <3>2. CASE u # t
      BY <2>1, <3>2, <1>2, <1>8 DEF OnTime
    <3> QED
      BY <3>1, <3>2
  <2> QED
    BY <1>2, <2>1 DEF OnTime, DiscoveryOnTime
<1> QED
  BY <1>10, <1>11, <1>12, <1>13

\* The sleep: until nextWake, or a little if the pass outlasted it.
LEMMA SleepKeepsPace ==
    ASSUME PaceInv, Sleep
    PROVE  PaceInv'
<1> USE Durations DEF PaceInv, PollTypes
<1>1. PICK d \in PassDurations :
         LET elapsed == Max({wake, d + MinSleep})
         IN  /\ due' = [t \in Threads |-> IF t \in states THEN due[t] - elapsed ELSE 0]
             /\ discovery' = discovery - elapsed
  BY DEF Sleep
<1> DEFINE elapsed == Max({wake, d + MinSleep})
<1>2. /\ place = "pass" /\ todo = {} /\ place' = "top" /\ wake' = WakeInterval
      /\ UNCHANGED <<known, states, backoff, todo>>
  BY DEF Sleep
<1>3. d + MinSleep \in Nat /\ d + MinSleep <= LongestPass
  BY LongestPassBounds
<1>4. wake \in Int /\ wake <= WakeInterval
  BY <1>2 DEF Handled
<1>5. elapsed = IF wake >= d + MinSleep THEN wake ELSE d + MinSleep
  BY <1>3, MaxOfTwo
<1>6. elapsed \in Nat /\ elapsed <= WakeInterval + LongestPass
  BY <1>3, <1>4, <1>5
<1>7. /\ due' = [t \in Threads |-> IF t \in states THEN due[t] - elapsed ELSE 0]
      /\ discovery' = discovery - elapsed
  BY <1>1
<1> HIDE DEF elapsed
<1>8. ASSUME NEW t \in states', backoff'[t].failures <= LastExact
      PROVE  due'[t] >= -LongestPass
  <2>1. t \in Threads /\ due[t] \in Int /\ wake <= due[t] /\ due[t] > 0
    BY <1>2, <1>8 DEF Handled, Exact
  <2>2. due'[t] = due[t] - elapsed
    BY <1>2, <1>7, <2>1
  <2>3. elapsed \in Int /\ (elapsed <= due[t] \/ elapsed <= LongestPass)
    BY <1>3, <1>4, <1>5, <1>6, <2>1
  <2> QED
    BY <2>1, <2>2, <2>3
<1>9. discovery' > -(WakeInterval + LongestPass)
  <2>1. discovery \in Int /\ discovery > 0
    BY <1>2 DEF Handled
  <2> QED
    BY <2>1, <1>4, <1>6, <1>7
<1>10. PollTypes'
  <2>1. \A t \in Threads : (IF t \in states THEN due[t] - elapsed ELSE 0) \in Int
    BY <1>6
  <2>2. due' \in [Threads -> Int]
    BY <1>7, <2>1
  <2>3. discovery' \in Int
    BY <1>6, <1>7
  <2> QED
    BY <1>2, <2>2, <2>3
<1> QED
  BY <1>2, <1>8, <1>9, <1>10 DEF OnTime, DiscoveryOnTime, Handled, BackoffBounded

\* Every step of the loop keeps its pace.
LEMMA StepKeepsPace ==
    ASSUME PaceInv, [PollNext]_pollVars
    PROVE  PaceInv'
<1>1. CASE UNCHANGED pollVars
  BY <1>1 DEF pollVars, PaceInv, PollTypes, BackoffBounded, Handled, Exact, OnTime,
               DiscoveryOnTime
<1>2. CASE Cancelled \/ ListFails
  BY <1>2 DEF Cancelled, ListFails, PaceInv, PollTypes, BackoffBounded,
              Handled, Exact, OnTime, DiscoveryOnTime
<1>3. CASE Step
  BY <1>3, BeginKeepsPace, SkipKeepsPace, PollKeepsPace, SleepKeepsPace DEF Step
<1> QED
  BY <1>1, <1>2, <1>3 DEF PollNext

LEMMA InitKeepsPace == PollInit => PaceInv
<1> SUFFICES ASSUME PollInit PROVE PaceInv
  OBVIOUS
<1>1. PollTypes
  BY Durations, DelayAssumption DEF PollInit, PollTypes, NewBackoff, Backoff
<1>2. BackoffBounded
  <2>1. BaseDelay \in BaseDelay..Max({IdleCap, FailureCap})
    <3>1. IdleCap \in Nat /\ FailureCap \in Nat /\ BaseDelay \in Nat /\ BaseDelay <= IdleCap
      BY DelayAssumption
    <3> QED
      BY <3>1, MaxOfTwo
  <2> QED
    BY <2>1 DEF PollInit, BackoffBounded, NewBackoff
<1>3. Handled /\ OnTime
  BY Durations DEF PollInit, Handled, OnTime, DiscoveryOnTime
<1> QED
  BY <1>1, <1>2, <1>3 DEF PaceInv

\* The loop's invariant.
THEOREM PaceInvHolds == PollSpec => []PaceInv
<1>1. PaceInv /\ [PollNext]_pollVars => PaceInv'
  BY StepKeepsPace
<1> QED
  BY <1>1, InitKeepsPace, PTL DEF PollSpec

\* Nothing is late by more than a pass, however many threads there are, however
\* long the passes take and whichever other thread's delay has overflowed.
THEOREM LoopIsOnTime == PollSpec => []OnTime
BY PaceInvHolds, PTL DEF PaceInv

\* A thread's delay stays between the base delay and the caps, or is the
\* server's, in every order of messages, idle polls and failures, but for rows
\* of more than LastExact failures.
THEOREM DelaysAreBounded == PollSpec => []BackoffBounded
BY PaceInvHolds, PTL DEF PaceInv

\* What ExponentialUpToCap says, of the threads whose delay has not overflowed.
ExponentialBeforeOverflow ==
    \A t \in Threads :
        Exact(t) /\ backoff[t].failures > 0 /\ backoff[t].delay \notin RetryAfters =>
            backoff[t].delay \in BaseDelay..FailureCap

\* A poll that failed leaves an exponential delay up to the failure cap, or the
\* server's.
LEMMA FailureDelay ==
    ASSUME NEW b \in Backoff, NEW o \in Outcomes
    PROVE  LET n == ApplyPollBackoff(b, o)
           IN  n.failures <= LastExact /\ n.failures > 0 /\ n.delay \notin RetryAfters =>
                 n.delay \in BaseDelay..FailureCap
<1>1. b.failures \in Nat
  BY DEF Backoff
<1>2. CASE o.kind = "failure"
  <2>1. ApplyPollBackoff(b, o) = OnFailure(b)
    BY <1>2 DEF ApplyPollBackoff
  <2>2. ASSUME b.failures \in 0..31
        PROVE  Min({ShiftedDelay(b.failures), FailureCap}) \in BaseDelay..FailureCap
    <3>1. ShiftedDelay(b.failures) \in Int /\ ShiftedDelay(b.failures) >= BaseDelay
      BY <2>2, ShiftIsDelay
    <3>2. BaseDelay \in Nat /\ FailureCap \in Nat /\ BaseDelay <= FailureCap
      BY DelayAssumption
    <3> QED
      BY <3>1, <3>2, MinOfTwo
  <2>3. b.failures + 1 <= LastExact => b.failures \in 0..31
    BY <1>1 DEF LastExact
  <2> QED
    BY <2>1, <2>2, <2>3 DEF OnFailure
<1>3. CASE o.kind = "retryAfter"
  BY <1>3 DEF ApplyPollBackoff, OnRetryAfter, Outcomes
<1>4. CASE o.kind \in {"ingested", "idle", "client4xx"}
  BY <1>4 DEF ApplyPollBackoff, OnSuccess, OnIdle
<1> QED
  BY <1>2, <1>3, <1>4 DEF Outcomes

\* What OnFailure's comment promises does hold, for as many failures in a row
\* as the shift bears: a failed poll is not repeated before the base delay.
THEOREM ExponentialUntilOverflow == PollSpec => []ExponentialBeforeOverflow
<1> USE DEF ExponentialBeforeOverflow, Exact
<1>1. PollInit => ExponentialBeforeOverflow
  BY DEF PollInit, NewBackoff
<1>2. PaceInv /\ ExponentialBeforeOverflow /\ [PollNext]_pollVars => ExponentialBeforeOverflow'
  <2> SUFFICES ASSUME PaceInv, ExponentialBeforeOverflow, [PollNext]_pollVars
               PROVE  ExponentialBeforeOverflow'
    OBVIOUS
  <2>1. ASSUME NEW t \in Threads, Poll(t) PROVE ExponentialBeforeOverflow'
    <3>1. PICK o \in Outcomes :
             backoff' = [backoff EXCEPT ![t] = ApplyPollBackoff(backoff[t], o)]
      BY <2>1 DEF Poll
    <3>2. backoff \in [Threads -> Backoff]
      BY DEF PaceInv, PollTypes
    <3>3. LET b == ApplyPollBackoff(backoff[t], o)
          IN  b.failures <= LastExact /\ b.failures > 0 /\ b.delay \notin RetryAfters =>
                b.delay \in BaseDelay..FailureCap
      BY <3>2, FailureDelay
    <3> QED
      BY <3>1, <3>2, <3>3
  <2>2. CASE UNCHANGED backoff
    BY <2>2
  <2> QED
    BY <2>1, <2>2
       DEF PollNext, Step, pollVars, Discover, NotYetDiscover, ListThreads, Skip, Sleep,
           Cancelled, ListFails
<1> QED
  BY <1>1, <1>2, PaceInvHolds, PTL DEF PollSpec

------------------------------------------------------------------------------
(* Names.  Which entry gives a direct chat its name depends on the order in    *)
(* which the lists name people, so every order has to be taken into account.   *)

\* A set of places has a first one.
LEMMA FirstPlace ==
    ASSUME NEW S \in SUBSET Nat, S # {}
    PROVE  Min(S) \in S
<1> DEFINE Less == {ss \in Nat \X Nat : ss[1] < ss[2]}
<1>1. IsWellFoundedOn(Less, Nat)
  BY NatLessThanWellFounded DEF OpToRel
<1>2. PICK x \in S : \A y \in S : ~(<<y, x>> \in Less)
  <2> HIDE DEF Less
  <2> QED
    BY <1>1, WFMin
<1>3. \A y \in S : x <= y
  <2> SUFFICES ASSUME NEW y \in S PROVE ~(y < x)
    OBVIOUS
  <2> QED
    BY <1>2
<1> QED
  BY <1>3 DEF Min

LEMMA PlacesAreNumbers ==
    ASSUME NEW c \in Conversations
    PROVE  Others(c) \subseteq Nat
<1>1. ASSUME NEW n \in Nat PROVE 1..n \subseteq Nat
  OBVIOUS
<1>2. Len(c.entries) \in Nat
  BY EntryAssumption
<1>3. Others(c) \subseteq 1..Len(c.entries)
  BY DEF Others
<1> QED
  BY <1>1, <1>2, <1>3, Zenon

\* If the one other person has a name in any entry, resolveDMName finds one of
\* that person's names: the first entry with a name that is not the user's is
\* one that isLikelyOneToOne counted.
LEMMA DirectChatName ==
    ASSUME NEW c \in Conversations, isLikelyOneToOne(c),
           NEW m \in Counted(c), m.name # ""
    PROVE  resolveRoomName(c) \in {n.name : n \in Counted(c)} \ {""}
<1> DEFINE proper == {i \in Named(c) : c.entries[i].name \notin collectSelfDisplayNames(c)}
           first == c.entries[Min(proper)]
<1>1. PICK i \in Others(c) : m = c.entries[i] /\ m.name \notin collectSelfDisplayNames(c)
  BY DEF Counted
<1>2. i \in proper
  BY <1>1 DEF Named
<1>3. proper \in SUBSET Nat
  BY PlacesAreNumbers DEF Named
<1>4. Min(proper) \in proper
  <2> HIDE DEF proper
  <2> QED
    BY <1>2, <1>3, FirstPlace
<1>5. /\ Min(proper) \in Others(c) /\ first.name # ""
      /\ first.name \notin collectSelfDisplayNames(c)
  BY <1>4 DEF Named
<1>6. idKey(first) # ""
  BY <1>5, EntryAssumption DEF idKey, normalizeParticipantID, Others
<1>7. first \in Counted(c)
  BY <1>5, <1>6 DEF Counted
<1>8. resolveRoomName(c) = first.name
  BY <1>2 DEF resolveRoomName, isOneToOne, resolveDMName, FirstName
<1> QED
  BY <1>5, <1>7, <1>8

\* No thread is named after the login's own user, a ghost of it, a bot or
\* nobody, whatever the three member lists of its conversations look like.
THEOREM NoDirectChatMisnamed == PollSpec => []DirectChatsNamed
<1>1. Misnamed = {}
  <2> SUFFICES ASSUME NEW c \in Normalized, misnamed(c) PROVE FALSE
    BY DEF Misnamed
  <2>1. c \in Conversations /\ isLikelyOneToOne(c)
    BY DEF Normalized, misnamed
  <2>2. PICK m \in Counted(c) : m.name # ""
    BY DEF misnamed
  <2> QED
    BY <2>1, <2>2, DirectChatName DEF misnamed
<1>2. DirectChatsNamed
  BY <1>1 DEF DirectChatsNamed
<1> QED
  BY <1>2, PTL
==============================================================================
