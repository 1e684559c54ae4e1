---------------------------- MODULE InboundReceipts ----------------------------
(* Read receipts from Teams to Matrix for one thread: pollConsumptionHorizons   *)
(* (pkg/connector/handleteams.go), which pollThread runs at its end, with the   *)
(* throttle shouldPollReceipts and the row of teams_consumption_horizon_state   *)
(* (pkg/teamsdb/consumption_horizon.go).                                        *)
(*                                                                              *)
(* Pollers are the goroutines that may poll the thread at once.  A tick is      *)
(* receiptPollInterval; ages are in ticks.  A poller compares the `now` its     *)
(* pass began with against the `now` of the pass that polled last.  A horizon   *)
(* is a number, 0 for one that is missing or does not parse.                    *)
EXTENDS Naturals, FiniteSetsExt

CONSTANTS Pollers,
          MaxHorizon,  \* bound: read positions of the remote user
          MaxPass,     \* bound: ticks a pass lasts
          MaxCrashes   \* bound: restarts of the bridge

ASSUME HorizonAssumption ==
    MaxHorizon \in Nat /\ MaxPass \in Nat /\ MaxCrashes \in Nat

VARIABLES remote,     \* the horizon Teams reports for the other user
          others,     \* users other than the login's among the horizons
          lastRead,   \* last_read_ts of the row; 0: no row
          pollAge,    \* age of receiptPoll[thread]; MaxPass + 1: older, or none
          pc,         \* pc[p]: where poller p is
          passAge,    \* passAge[p]: age of its `now`
          latest,     \* latest[p]: latestReadTS
          sent,       \* history: the furthest receipt queued for the room
          repeated,   \* history: a receipt was queued that was no further
          unstored,   \* history: a queued receipt did not reach the row
          overlapped, \* history: two polls were between Compare and StoreHorizon
          crashes

vars == <<remote, others, lastRead, pollAge, pc, passAge, latest, sent, repeated,
          unstored, overlapped, crashes>>
histVars == <<sent, repeated, unstored, overlapped, crashes>>

Init ==
    /\ remote = 0
    /\ others \in 0..2
    /\ lastRead = 0
    /\ pollAge = MaxPass + 1
    /\ pc = [p \in Pollers |-> "idle"]
    /\ passAge = [p \in Pollers |-> 0]
    /\ latest = [p \in Pollers |-> 0]
    /\ sent = 0 /\ repeated = FALSE /\ unstored = FALSE /\ overlapped = FALSE
    /\ crashes = 0

------------------------------------------------------------------------------
\* The other user reads on, or marks messages as unread again.
RemoteReads ==
    /\ others > 0
    /\ remote' \in 0..MaxHorizon
    /\ UNCHANGED <<others, lastRead, pollAge, pc, passAge, latest, histVars>>

\* A third user joins.
RemoteJoins ==
    /\ others < 2
    /\ others' = others + 1
    /\ UNCHANGED <<remote, lastRead, pollAge, pc, passAge, latest, histVars>>

\* Time passes: no pass outlasts MaxPass.
Tick ==
    /\ \A p \in Pollers : pc[p] # "idle" => passAge[p] < MaxPass
    /\ pollAge' = Min({pollAge + 1, MaxPass + 1})
    /\ passAge' = [p \in Pollers |-> IF pc[p] = "idle" THEN 0 ELSE passAge[p] + 1]
    /\ UNCHANGED <<remote, others, lastRead, pc, latest, histVars>>

\* A pass of the poll loop begins; its `now` is taken here.
BeginPass(p) ==
    /\ pc[p] = "idle"
    /\ pc' = [pc EXCEPT ![p] = "throttle"]
    /\ passAge' = [passAge EXCEPT ![p] = 0]
    /\ UNCHANGED <<remote, others, lastRead, pollAge, latest, histVars>>

Return(p) ==
    /\ pc' = [pc EXCEPT ![p] = "idle"]
    /\ passAge' = [passAge EXCEPT ![p] = 0]
    /\ latest' = [latest EXCEPT ![p] = 0]

\* A plausible bug: the first poll of a thread counts as recent, too.
shouldPollReceiptsNever(p) ==
    /\ pc[p] = "throttle"
    /\ \/ /\ pollAge <= MaxPass /\ pollAge >= passAge[p] + 1
          /\ pollAge' = passAge[p]
          /\ pc' = [pc EXCEPT ![p] = "get"]
          /\ UNCHANGED <<passAge, latest>>
       \/ /\ pollAge > MaxPass \/ pollAge < passAge[p] + 1
          /\ Return(p)
          /\ UNCHANGED pollAge
    /\ UNCHANGED <<remote, others, lastRead, histVars>>

\* shouldPollReceipts: once per interval, under its mutex.
shouldPollReceipts(p) ==
    /\ pc[p] = "throttle"
    /\ \/ /\ pollAge >= passAge[p] + 1
          /\ pollAge' = passAge[p]
          /\ pc' = [pc EXCEPT ![p] = "get"]
          /\ UNCHANGED <<passAge, latest>>
       \/ /\ pollAge < passAge[p] + 1
          /\ Return(p)
          /\ UNCHANGED pollAge
    /\ UNCHANGED <<remote, others, lastRead, histVars>>

\* The horizons are fetched.  Only a chat with exactly one other user whose
\* horizon parses goes on.
GetHorizon(p) ==
    /\ pc[p] = "get"
    /\ \/ /\ others = 1 /\ remote > 0
          /\ latest' = [latest EXCEPT ![p] = remote]
          /\ pc' = [pc EXCEPT ![p] = "compare"]
          /\ UNCHANGED passAge
       \/ /\ others # 1 \/ remote = 0
          /\ Return(p)
    /\ UNCHANGED <<remote, others, lastRead, pollAge, histVars>>

\* The request, or one of the two queries behind it, fails.
PollFails(p) ==
    /\ pc[p] \in {"get", "compare", "queue"}
    /\ Return(p)
    /\ UNCHANGED <<remote, others, lastRead, pollAge, histVars>>

\* A plausible bug: every horizon that is fetched is news.
CompareNothing(p) ==
    /\ pc[p] = "compare"
    /\ pc' = [pc EXCEPT ![p] = "queue"]
    /\ overlapped' = (overlapped \/ \E q \in Pollers : pc[q] \in {"queue", "store"})
    /\ UNCHANGED <<remote, others, lastRead, pollAge, passAge, latest, sent,
                   repeated, unstored, crashes>>

\* The row is read: a horizon that is no further ends the poll.
Compare(p) ==
    /\ pc[p] = "compare"
    /\ \/ /\ latest[p] > lastRead
          /\ pc' = [pc EXCEPT ![p] = "queue"]
          /\ overlapped' = (overlapped \/ \E q \in Pollers : pc[q] \in {"queue", "store"})
          /\ UNCHANGED <<passAge, latest>>
       \/ /\ latest[p] <= lastRead
          /\ Return(p)
          /\ UNCHANGED overlapped
    /\ UNCHANGED <<remote, others, lastRead, pollAge, sent, repeated, unstored, crashes>>

\* The receipt is queued for the room ...
QueueReceipt(p) ==
    /\ pc[p] = "queue"
    /\ pc' = [pc EXCEPT ![p] = "store"]
    /\ repeated' = (repeated \/ latest[p] <= sent)
    /\ sent' = Max({sent, latest[p]})
    /\ UNCHANGED <<remote, others, lastRead, pollAge, passAge, latest, unstored,
                   overlapped, crashes>>

\* ... and the row overwritten.
StoreHorizon(p) ==
    /\ pc[p] = "store"
    /\ lastRead' = latest[p]
    /\ Return(p)
    /\ UNCHANGED <<remote, others, pollAge, histVars>>

\* UpsertLastRead fails; the error is ignored.
StoreFails(p) ==
    /\ pc[p] = "store"
    /\ unstored' = TRUE
    /\ Return(p)
    /\ UNCHANGED <<remote, others, lastRead, pollAge, sent, repeated,
                   overlapped, crashes>>

\* A plausible bug: the position is kept in memory only.
CrashLosingRow ==
    /\ crashes < MaxCrashes
    /\ crashes' = crashes + 1
    /\ lastRead' = 0
    /\ unstored' = (unstored \/ \E p \in Pollers : pc[p] = "store")
    /\ pollAge' = MaxPass + 1
    /\ pc' = [p \in Pollers |-> "idle"]
    /\ passAge' = [p \in Pollers |-> 0]
    /\ latest' = [p \in Pollers |-> 0]
    /\ UNCHANGED <<remote, others, sent, repeated, overlapped>>

\* The process restarts: the throttle's map is gone, the row stays.
Crash ==
    /\ crashes < MaxCrashes
    /\ crashes' = crashes + 1
    /\ unstored' = (unstored \/ \E p \in Pollers : pc[p] = "store")
    /\ pollAge' = MaxPass + 1
    /\ pc' = [p \in Pollers |-> "idle"]
    /\ passAge' = [p \in Pollers |-> 0]
    /\ latest' = [p \in Pollers |-> 0]
    /\ UNCHANGED <<remote, others, lastRead, sent, repeated, overlapped>>

Poll(p) == \/ BeginPass(p) \/ shouldPollReceipts(p)
           \/ GetHorizon(p) \/ PollFails(p) \/ Compare(p)
           \/ QueueReceipt(p) \/ StoreHorizon(p) \/ StoreFails(p)

Next ==
    \/ RemoteReads \/ RemoteJoins \/ Tick
    \/ \E p \in Pollers : Poll(p)
    \/ Crash

\* Time passes, passes follow each other, and a request or a query that is
\* made again and again succeeds in the end.
Spec ==
    /\ Init /\ [][Next]_vars
    /\ WF_vars(Tick)
    /\ \A p \in Pollers :
         /\ WF_vars(Poll(p))
         /\ SF_vars(GetHorizon(p)) /\ SF_vars(Compare(p)) /\ SF_vars(QueueReceipt(p))

------------------------------------------------------------------------------
\* "monotonic persistence": last_read_ts never goes back, although the remote
\* horizon may and polls overlap, as long as no two of them compare with the
\* row before either has written it.
MonotonicPersistence == [][lastRead' < lastRead => overlapped]_vars

\* Each receipt goes further than all before it, restarts included, unless an
\* earlier one was queued and its position never stored, or two polls compared
\* with the same row.
ReceiptsAdvance == repeated => unstored \/ overlapped

\* A position at which the other user of a direct chat stays is reported to the
\* room in the end: neither the throttle nor a failed request loses it.
ReceiptArrives ==
    \A n \in 1..MaxHorizon : <>[](remote = n /\ others = 1) => <>(sent >= n)
==============================================================================
