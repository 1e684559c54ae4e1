---------------------------- MODULE SyncLifecycle ----------------------------
(* Starting and stopping the sync loop of a login: startSyncLoop,             *)
(* stopSyncLoop and syncLoop (pkg/connector/handleteams.go) under Connect,    *)
(* Disconnect and LogoutRemote (client.go).                                   *)
(*                                                                            *)
(* Controllers are the bridgev2 goroutines that call them; startLoginConnect  *)
(* runs Connect in a goroutine of its own, so calls overlap.  The n-th loop   *)
(* started has context n and done channel n; 0 is nil.  The goroutine of a    *)
(* loop evaluates c.syncDone, without syncMu, when its defer statement runs;  *)
(* closing a nil or a closed channel panics and ends the process.             *)
EXTENDS Naturals

CONSTANTS Controllers,  \* goroutines calling Connect, Disconnect, LogoutRemote
          MaxLoops      \* bound: loops started in a behaviour

ASSUME LoopBoundAssumption == MaxLoops \in Nat

VARIABLES syncCancel,  \* the cancel function held by the client: its loop, or 0
          syncDone,    \* the done channel held by the client, or 0
          started,     \* loops started so far
          phase,       \* phase[n]: the goroutine of loop n
          deferred,    \* deferred[n]: the channel its defer will close
          cancelled,   \* contexts cancelled
          closed,      \* channels closed
          pc,          \* pc[h]: where controller h is
          held,        \* held[h]: the loop (cancel and done) its stop took
          loggedIn,    \* the atomic flag
          early,       \* history: loops stopped before their goroutine ran
          failed,      \* history: loops that a failed query has ended
          panicked     \* a channel was closed that must not be

vars == <<syncCancel, syncDone, started, phase, deferred, cancelled, closed, pc,
          held, loggedIn, early, failed, panicked>>
loopVars == <<phase, deferred, closed, failed, panicked>>

Loops == 1..MaxLoops
Live == {n \in Loops : phase[n] \in {"spawned", "looping"}}

Init ==
    /\ syncCancel = 0 /\ syncDone = 0
    /\ started = 0
    /\ phase = [n \in Loops |-> "none"]
    /\ deferred = [n \in Loops |-> 0]
    /\ cancelled = {} /\ closed = {}
    /\ pc = [h \in Controllers |-> "idle"]
    /\ held = [h \in Controllers |-> 0]
    /\ loggedIn = FALSE
    /\ early = {} /\ failed = {}
    /\ panicked = FALSE

------------------------------------------------------------------------------
(* Connect.                                                                   *)

\* ensureValidSkypeToken succeeded: the flag is set before the loop starts.
ConnectLogsIn(h) ==
    /\ pc[h] = "idle"
    /\ pc' = [pc EXCEPT ![h] = "start"]
    /\ loggedIn' = TRUE
    /\ UNCHANGED <<syncCancel, syncDone, started, cancelled, held, early, loopVars>>

\* It failed: no loop.
ConnectFails(h) ==
    /\ pc[h] = "idle"
    /\ loggedIn' = FALSE
    /\ UNCHANGED <<syncCancel, syncDone, started, cancelled, pc, held, early, loopVars>>

\* A plausible bug: a second Connect starts a second loop.
StartSyncLoopUnguarded(h) ==
    /\ pc[h] = "start"
    /\ started < MaxLoops
    /\ started' = started + 1
    /\ syncCancel' = started + 1
    /\ syncDone' = started + 1
    /\ phase' = [phase EXCEPT ![started + 1] = "spawned"]
    /\ pc' = [pc EXCEPT ![h] = "idle"]
    /\ UNCHANGED <<deferred, cancelled, closed, held, loggedIn, early, failed, panicked>>

\* startSyncLoop, under syncMu: a new context, a new channel, a new goroutine.
StartSyncLoop(h) ==
    /\ pc[h] = "start"
    /\ syncCancel = 0
    /\ started < MaxLoops
    /\ started' = started + 1
    /\ syncCancel' = started + 1
    /\ syncDone' = started + 1
    /\ phase' = [phase EXCEPT ![started + 1] = "spawned"]
    /\ pc' = [pc EXCEPT ![h] = "idle"]
    /\ UNCHANGED <<deferred, cancelled, closed, held, loggedIn, early, failed, panicked>>

\* A loop is registered, running or not: startSyncLoop returns.
AlreadyStarted(h) ==
    /\ pc[h] = "start"
    /\ syncCancel # 0
    /\ pc' = [pc EXCEPT ![h] = "idle"]
    /\ UNCHANGED <<syncCancel, syncDone, started, cancelled, held, loggedIn, early,
                   loopVars>>

------------------------------------------------------------------------------
(* stopSyncLoop, for Disconnect and for LogoutRemote.                         *)

After(why) == IF why = "logout" THEN "logoutCancel" ELSE "cancel"

\* A plausible bug: the cancel function is taken and stays registered.
TakeLoopKeepingCancel(h) ==
    /\ pc[h] = "idle"
    /\ \E why \in {"disconnect", "logout"} : pc' = [pc EXCEPT ![h] = After(why)]
    /\ held' = [held EXCEPT ![h] = syncCancel]
    /\ early' = early \cup {n \in Loops : n = syncCancel /\ phase[n] = "spawned"}
    /\ syncDone' = 0
    /\ UNCHANGED <<syncCancel, started, cancelled, loggedIn, loopVars>>

\* Under syncMu: take both fields and clear them.
TakeLoop(h) ==
    /\ pc[h] = "idle"
    /\ \E why \in {"disconnect", "logout"} : pc' = [pc EXCEPT ![h] = After(why)]
    /\ held' = [held EXCEPT ![h] = syncCancel]
    /\ early' = early \cup {n \in Loops : n = syncCancel /\ phase[n] = "spawned"}
    /\ syncCancel' = 0
    /\ syncDone' = 0
    /\ UNCHANGED <<started, cancelled, loggedIn, loopVars>>

\* LogoutRemote goes on to clear the metadata and the flag; Disconnect returns.
StopReturns(h, logout) ==
    /\ pc' = [pc EXCEPT ![h] = "idle"]
    /\ held' = [held EXCEPT ![h] = 0]
    /\ loggedIn' = IF logout THEN FALSE ELSE loggedIn

\* No loop was registered.
NothingToStop(h) ==
    /\ pc[h] \in {"cancel", "logoutCancel"}
    /\ held[h] = 0
    /\ StopReturns(h, pc[h] = "logoutCancel")
    /\ UNCHANGED <<syncCancel, syncDone, started, cancelled, early, loopVars>>

\* cancel(), outside the mutex.
CancelLoop(h) ==
    /\ pc[h] \in {"cancel", "logoutCancel"}
    /\ held[h] # 0
    /\ cancelled' = cancelled \cup {held[h]}
    /\ pc' = [pc EXCEPT ![h] = IF @ = "cancel" THEN "wait" ELSE "logoutWait"]
    /\ UNCHANGED <<syncCancel, syncDone, started, held, loggedIn, early, loopVars>>

\* case <-done
LoopIsDone(h) ==
    /\ pc[h] \in {"wait", "logoutWait"}
    /\ held[h] \in closed
    /\ StopReturns(h, pc[h] = "logoutWait")
    /\ UNCHANGED <<syncCancel, syncDone, started, cancelled, early, loopVars>>

\* case <-timer.C: the five seconds are over, the loop may still run.
StopTimesOut(h) ==
    /\ pc[h] \in {"wait", "logoutWait"}
    /\ StopReturns(h, pc[h] = "logoutWait")
    /\ UNCHANGED <<syncCancel, syncDone, started, cancelled, early, loopVars>>

------------------------------------------------------------------------------
(* The loop's goroutine.                                                      *)

\* The defer statement reads whatever channel the client holds by then.
LoopStarts(n) ==
    /\ phase[n] = "spawned"
    /\ phase' = [phase EXCEPT ![n] = "looping"]
    /\ deferred' = [deferred EXCEPT ![n] = syncDone]
    /\ UNCHANGED <<syncCancel, syncDone, started, cancelled, closed, pc, held,
                   loggedIn, early, failed, panicked>>

\* A plausible bug: the deferred function reads the field when it runs.
LoopReturnsReadingField(n) ==
    /\ phase' = [phase EXCEPT ![n] = "ended"]
    /\ closed' = closed \cup ({syncDone} \ {0})
    /\ panicked' = (syncDone \in {0} \cup closed)

\* syncLoop returns and the deferred close runs.
LoopReturns(n) ==
    /\ phase' = [phase EXCEPT ![n] = "ended"]
    /\ closed' = closed \cup ({deferred[n]} \ {0})
    /\ panicked' = (deferred[n] \in {0} \cup closed)

\* A plausible bug: the polling loop never looks at its context.
LoopIgnoresCancel(n) ==
    /\ phase[n] = "looping" /\ n \in cancelled
    /\ UNCHANGED vars

\* syncOnce and pollDueThreads give up on a cancelled context.
LoopSeesCancel(n) ==
    /\ phase[n] = "looping"
    /\ n \in cancelled
    /\ LoopReturns(n)
    /\ UNCHANGED <<syncCancel, syncDone, started, deferred, cancelled, pc, held,
                   loggedIn, early, failed>>

\* ListForLogin fails once: pollDueThreads returns the error and the loop is
\* over, while the client still holds its cancel function.
LoopFails(n) ==
    /\ phase[n] = "looping"
    /\ failed' = failed \cup {n}
    /\ LoopReturns(n)
    /\ UNCHANGED <<syncCancel, syncDone, started, deferred, cancelled, pc, held,
                   loggedIn, early>>

Control(h) == \/ ConnectLogsIn(h) \/ ConnectFails(h)
              \/ StartSyncLoop(h) \/ AlreadyStarted(h)
              \/ TakeLoop(h) \/ NothingToStop(h) \/ CancelLoop(h)
              \/ LoopIsDone(h) \/ StopTimesOut(h)

Loop(n) == LoopStarts(n) \/ LoopSeesCancel(n) \/ LoopFails(n)

Next ==
    /\ ~panicked
    /\ \/ \E h \in Controllers : Control(h)
       \/ \E n \in Loops : Loop(n)

\* The scheduler runs the loop goroutines, and every request and sleep of a
\* loop ends with its context.
Spec == /\ Init /\ [][Next]_vars
        /\ \A n \in Loops : WF_vars(~panicked /\ (LoopStarts(n) \/ LoopSeesCancel(n)))

------------------------------------------------------------------------------
TypeOK ==
    /\ syncCancel \in 0..MaxLoops /\ syncDone \in 0..MaxLoops
    /\ started \in 0..MaxLoops
    /\ phase \in [Loops -> {"none", "spawned", "looping", "ended"}]
    /\ deferred \in [Loops -> 0..MaxLoops]
    /\ cancelled \subseteq Loops /\ closed \subseteq Loops
    /\ pc \in [Controllers -> {"idle", "start", "cancel", "wait",
                               "logoutCancel", "logoutWait"}]
    /\ held \in [Controllers -> 0..MaxLoops]
    /\ loggedIn \in BOOLEAN /\ panicked \in BOOLEAN
    /\ early \subseteq Loops /\ failed \subseteq Loops

\* No loop escapes: one that runs uncancelled is the one the client holds, or
\* a stop has taken it and is about to cancel it.  So however Connect,
\* Disconnect and LogoutRemote overlap, at most one loop keeps polling.
NoOrphanLoop ==
    \A n \in Live \ cancelled :
        \/ n = syncCancel
        \/ \E h \in Controllers : held[h] = n /\ pc[h] \in {"cancel", "logoutCancel"}

\* While the client holds a loop, that loop polls: "continuously ... until
\* canceled".  A stop that times out, a Connect that overlaps it or a second
\* stop never leaves the login with a dead loop that keeps the next Connect
\* from starting another.  A single failed ListForLogin does.
HeldLoopPolls ==
    syncCancel # 0 /\ syncCancel \notin failed =>
        syncCancel \in Live \ cancelled

\* The done channel is sound unless some loop was stopped before its goroutine
\* had read the channel: it is closed only once its loop has ended, and closing
\* it never panics.  No other interleaving breaks either.
DoneChannelSound ==
    early = {} => ~panicked /\ \A n \in closed : phase[n] = "ended"

\* A cancelled loop ends, whether or not somebody still waits for it.
CancelledLoopEnds ==
    \A n \in Loops : (n \in Live /\ n \in cancelled) ~> (phase[n] = "ended" \/ panicked)
==============================================================================
