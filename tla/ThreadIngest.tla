----------------------------- MODULE ThreadIngest -----------------------------
(* How one Teams thread reaches its Matrix room: pollThread                   *)
(* (pkg/connector/handleteams.go) with the cursor row it reads and writes     *)
(* (pkg/teamsdb/thread_state.go), and HandleMatrixMessage                     *)
(* (pkg/connector/handlematrix.go), whose messages come back as echoes.       *)
(*                                                                            *)
(* Pollers are the goroutines that may run pollThread on the thread at once:  *)
(* the sync loop, a loop that outlived stopSyncLoop's timeout, and            *)
(* ConnectBackground.  The portal queue, its handler and the pending-message  *)
(* table belong to bridgev2 and are modelled from how the connector uses      *)
(* them.  A sequence id is a message's index in the thread; cursor 0 is the   *)
(* empty last_sequence_id.  The unread state and the selfMessages set that    *)
(* the same loop keeps are in ReadReceipts, the consumption horizons it polls *)
(* at the end in InboundReceipts; the reactions it queues touch no state here.*)
EXTENDS Naturals, Sequences, FiniteSets

CONSTANTS Pollers,     \* goroutines polling this thread
          ClientIDs,   \* clientmessageids, one per HandleMatrixMessage call
          NoCid,       \* no clientmessageid
          RemoteSenders, \* senders of the messages others post
          PageSize,    \* messages in the page the messages endpoint returns
          MaxMsgs,     \* bound: messages the thread ever holds
          MaxQueue,    \* bound: events waiting in the portal queue
          MaxCrashes,  \* bound: crashes of the bridge process
          MaxRejects   \* bound: events the Matrix side fails to bridge

ASSUME PageAssumption == PageSize \in Nat \ {0}
ASSUME BoundAssumption ==
    MaxMsgs \in Nat /\ MaxQueue \in Nat /\ MaxCrashes \in Nat /\ MaxRejects \in Nat
ASSUME CidAssumption == NoCid \notin ClientIDs
ASSUME SenderAssumption == RemoteSenders \subseteq {"user", "system", "blank"}

VARIABLES log,         \* the Teams thread: a sequence of messages
          discovered,  \* the thread has its row in teams_thread_state
          cursor,      \* last_sequence_id of that row
          pc,          \* pc[p]: where poller p is in pollThread
          last,        \* last[p]: the LastSequenceID it read from the row
          hi,          \* hi[p]: the newest message of the page it fetched
          next,        \* next[p]: the message of the page it looks at next
          maxSeq,      \* maxSeq[p]: the highest new sequence id it met
          queue,       \* the portal's event queue (in memory)
          bridged,     \* sequence ids in bridgev2's message table, in order
          echoed,      \* those that confirmed a message sent from Matrix
          pending,     \* client ids registered with AddPendingToSave
          out,         \* out[c]: progress of the Matrix message with id c
          inFlight,    \* client ids whose request may still reach Teams
          gap,         \* history: messages older than a page but not yet seen
          dropped,     \* history: queued messages the bridge lost
          crashes,     \* crashes so far
          rejects      \* failed deliveries so far

teamsVars == <<log>>
pollVars == <<pc, last, hi, next, maxSeq>>
rowVars == <<discovered, cursor>>
sendVars == <<pending, out, inFlight>>
roomVars == <<bridged, echoed>>
faultVars == <<dropped, crashes, rejects>>
vars == <<log, discovered, cursor, pc, last, hi, next, maxSeq, queue, bridged,
          echoed, pending, out, inFlight, gap, dropped, crashes, rejects>>

Elements(s) == {s[k] : k \in DOMAIN s}

Senders == {"user", "self", "system", "blank"}

Message == [from : Senders, cid : ClientIDs \cup {NoCid}]

\* What pollThread turns into a bridge event: a message with an id whose
\* sender is a person, the login's own user included.
Bridgeable(m) == m.from \in {"user", "self"}

Init ==
    /\ log = <<>>
    /\ discovered = FALSE
    /\ cursor = 0
    /\ pc = [p \in Pollers |-> "idle"]
    /\ last = [p \in Pollers |-> 0]
    /\ hi = [p \in Pollers |-> 0]
    /\ next = [p \in Pollers |-> 1]
    /\ maxSeq = [p \in Pollers |-> 0]
    /\ queue = <<>>
    /\ bridged = <<>>
    /\ echoed = {}
    /\ pending = {}
    /\ out = [c \in ClientIDs |-> "new"]
    /\ inFlight = {}
    /\ gap = {}
    /\ dropped = {}
    /\ crashes = 0
    /\ rejects = 0

------------------------------------------------------------------------------
(* The Teams side.                                                            *)

\* A message from a person or from the system ("system": the sender id is
\* empty or a thread id; "blank": no message id) arrives in the thread.
PostRemote ==
    /\ Len(log) < MaxMsgs
    /\ \E f \in RemoteSenders :
         log' = Append(log, [from |-> f, cid |-> NoCid])
    /\ UNCHANGED <<rowVars, pollVars, queue, roomVars, sendVars, gap, faultVars>>

------------------------------------------------------------------------------
(* Discovery and polling.                                                     *)

\* A plausible bug: the upsert also overwrites the cursor columns.
DiscoverResettingCursor ==
    /\ discovered' = TRUE
    /\ cursor' = 0
    /\ UNCHANGED <<teamsVars, pollVars, queue, roomVars, sendVars, gap, faultVars>>

\* refreshThreads upserts the row; a row that exists keeps its cursor.
Discover ==
    /\ discovered' = TRUE
    /\ cursor' = IF discovered THEN cursor ELSE 0
    /\ UNCHANGED <<teamsVars, pollVars, queue, roomVars, sendVars, gap, faultVars>>

\* pollThread returns: its local variables are gone.
Return(p) ==
    /\ pc' = [pc EXCEPT ![p] = "idle"]
    /\ last' = [last EXCEPT ![p] = 0]
    /\ hi' = [hi EXCEPT ![p] = 0]
    /\ next' = [next EXCEPT ![p] = 1]
    /\ maxSeq' = [maxSeq EXCEPT ![p] = 0]

\* ListForLogin hands the poller the row, well before its page is fetched.
ReadRow(p) ==
    /\ pc[p] = "idle"
    /\ discovered
    /\ pc' = [pc EXCEPT ![p] = "fetch"]
    /\ last' = [last EXCEPT ![p] = cursor]
    /\ UNCHANGED <<teamsVars, rowVars, hi, next, maxSeq, queue, roomVars,
                   sendVars, gap, faultVars>>

PageStart == IF Len(log) > PageSize THEN Len(log) - PageSize + 1 ELSE 1

\* A plausible bug: move the cursor to the end of the page when it is fetched.
FetchPageSavingCursor(p) ==
    /\ pc[p] = "fetch"
    /\ pc' = [pc EXCEPT ![p] = "ingest"]
    /\ hi' = [hi EXCEPT ![p] = Len(log)]
    /\ next' = [next EXCEPT ![p] = PageStart]
    /\ maxSeq' = [maxSeq EXCEPT ![p] = 0]
    /\ gap' = gap \cup {m \in DOMAIN log : last[p] < m /\ m < PageStart}
    /\ cursor' = Len(log)
    /\ UNCHANGED <<teamsVars, discovered, last, queue, roomVars, sendVars, faultVars>>

\* ListMessages: the newest page, sorted by sequence id.  The sequence id it
\* is given does not reach the request, so a page may start beyond the cursor.
FetchPage(p) ==
    /\ pc[p] = "fetch"
    /\ pc' = [pc EXCEPT ![p] = "ingest"]
    /\ hi' = [hi EXCEPT ![p] = Len(log)]
    /\ next' = [next EXCEPT ![p] = PageStart]
    /\ maxSeq' = [maxSeq EXCEPT ![p] = 0]
    /\ gap' = gap \cup {m \in DOMAIN log : last[p] < m /\ m < PageStart}
    /\ UNCHANGED <<teamsVars, rowVars, last, queue, roomVars, sendVars, faultVars>>

\* A plausible bug: an error ends the poller instead of this poll.
FetchFailsForGood(p) ==
    /\ pc[p] = "fetch"
    /\ pc' = [pc EXCEPT ![p] = "ended"]
    /\ UNCHANGED <<teamsVars, rowVars, last, hi, next, maxSeq, queue, roomVars,
                   sendVars, gap, faultVars>>

\* The token check or the request fails: nothing is ingested, the row stays.
FetchFails(p) ==
    /\ pc[p] = "fetch"
    /\ Return(p)
    /\ UNCHANGED <<teamsVars, rowVars, queue, roomVars, sendVars, gap, faultVars>>

\* A message without an id, or at or below the cursor that was read.
SkipMessage(p) ==
    /\ pc[p] = "ingest"
    /\ next[p] <= hi[p]
    /\ log[next[p]].from = "blank" \/ next[p] <= last[p]
    /\ next' = [next EXCEPT ![p] = @ + 1]
    /\ UNCHANGED <<teamsVars, rowVars, pc, last, hi, maxSeq, queue, roomVars,
                   sendVars, gap, faultVars>>

\* A new message whose sender is no person moves the cursor, nothing else.
SkipSystemMessage(p) ==
    /\ pc[p] = "ingest"
    /\ next[p] <= hi[p]
    /\ next[p] > last[p]
    /\ log[next[p]].from = "system"
    /\ maxSeq' = [maxSeq EXCEPT ![p] = next[p]]
    /\ next' = [next EXCEPT ![p] = @ + 1]
    /\ UNCHANGED <<teamsVars, rowVars, pc, last, hi, queue, roomVars, sendVars,
                   gap, faultVars>>

\* A plausible bug: the page is not sorted and its newest message comes first.
IngestMessageUnsorted(p) ==
    /\ pc[p] = "ingest"
    /\ next[p] <= hi[p]
    /\ next[p] > last[p]
    /\ Bridgeable(log[next[p]])
    /\ Len(queue) < MaxQueue
    /\ queue' = <<next[p]>> \o queue
    /\ maxSeq' = [maxSeq EXCEPT ![p] = next[p]]
    /\ next' = [next EXCEPT ![p] = @ + 1]
    /\ UNCHANGED <<teamsVars, rowVars, pc, last, hi, roomVars, sendVars, gap,
                   faultVars>>

\* A new message of a person is queued for the portal.
IngestMessage(p) ==
    /\ pc[p] = "ingest"
    /\ next[p] <= hi[p]
    /\ next[p] > last[p]
    /\ Bridgeable(log[next[p]])
    /\ Len(queue) < MaxQueue
    /\ queue' = Append(queue, next[p])
    /\ maxSeq' = [maxSeq EXCEPT ![p] = next[p]]
    /\ next' = [next EXCEPT ![p] = @ + 1]
    /\ UNCHANGED <<teamsVars, rowVars, pc, last, hi, roomVars, sendVars, gap,
                   faultVars>>

\* The loop is over: write the cursor if a new message was met.
SaveCursor(p) ==
    /\ pc[p] = "ingest"
    /\ next[p] > hi[p]
    /\ cursor' = IF maxSeq[p] # 0 THEN maxSeq[p] ELSE cursor
    /\ Return(p)
    /\ UNCHANGED <<teamsVars, discovered, queue, roomVars, sendVars, gap, faultVars>>

\* The error of UpdateCursor is ignored; the next poll reads the old row.
SaveCursorFails(p) ==
    /\ pc[p] = "ingest"
    /\ next[p] > hi[p]
    /\ maxSeq[p] # 0
    /\ Return(p)
    /\ UNCHANGED <<teamsVars, rowVars, queue, roomVars, sendVars, gap, faultVars>>

------------------------------------------------------------------------------
(* The portal's event handler (bridgev2).                                     *)

Known == Elements(bridged)

\* The event's transaction id is pending: the Matrix event that is already in
\* the room becomes the bridged message.
ConfirmPending ==
    /\ queue # <<>>
    /\ log[Head(queue)].cid \in pending
    /\ pending' = pending \ {log[Head(queue)].cid}
    /\ bridged' = Append(bridged, Head(queue))
    /\ echoed' = echoed \cup {Head(queue)}
    /\ queue' = Tail(queue)
    /\ UNCHANGED <<teamsVars, rowVars, pollVars, out, inFlight, gap, faultVars>>

\* The message id is in the message table already: the event is ignored.
IgnoreKnown ==
    /\ queue # <<>>
    /\ log[Head(queue)].cid \notin pending
    /\ Head(queue) \in Known
    /\ queue' = Tail(queue)
    /\ UNCHANGED <<teamsVars, rowVars, pollVars, roomVars, sendVars, gap, faultVars>>

\* A new message is converted, sent to the room and stored.
SendToMatrix ==
    /\ queue # <<>>
    /\ log[Head(queue)].cid \notin pending
    /\ Head(queue) \notin Known
    /\ bridged' = Append(bridged, Head(queue))
    /\ queue' = Tail(queue)
    /\ UNCHANGED <<teamsVars, rowVars, pollVars, echoed, sendVars, gap, faultVars>>

\* Conversion or the Matrix send fails: the event is logged and gone.
MatrixRejects ==
    /\ queue # <<>>
    /\ rejects < MaxRejects
    /\ log[Head(queue)].cid \notin pending
    /\ Head(queue) \notin Known
    /\ rejects' = rejects + 1
    /\ dropped' = dropped \cup {Head(queue)}
    /\ queue' = Tail(queue)
    /\ UNCHANGED <<teamsVars, rowVars, pollVars, roomVars, sendVars, gap, crashes>>

------------------------------------------------------------------------------
(* HandleMatrixMessage: one call for each client id.                          *)

\* A plausible bug: send first, register the pending message afterwards.
StartSendUnregistered(c) ==
    /\ out[c] = "new"
    /\ out' = [out EXCEPT ![c] = "sending"]
    /\ inFlight' = inFlight \cup {c}
    /\ UNCHANGED <<teamsVars, rowVars, pollVars, queue, roomVars, pending, gap,
                   faultVars>>

\* The id is generated and registered as pending before anything is sent.
StartSend(c) ==
    /\ out[c] = "new"
    /\ out' = [out EXCEPT ![c] = "sending"]
    /\ pending' = pending \cup {c}
    /\ inFlight' = inFlight \cup {c}
    /\ UNCHANGED <<teamsVars, rowVars, pollVars, queue, roomVars, gap, faultVars>>

\* An unsupported message type returns after AddPendingToSave, sends nothing
\* and never reaches RemovePending.
RejectUnsupported(c) ==
    /\ out[c] = "new"
    /\ out' = [out EXCEPT ![c] = "unsupported"]
    /\ pending' = pending \cup {c}
    /\ UNCHANGED <<teamsVars, rowVars, pollVars, queue, roomVars, inFlight, gap,
                   faultVars>>

\* Teams takes the request, perhaps after the bridge gave up on it: from here
\* the echo can be polled.
TeamsAccepts(c) ==
    /\ c \in inFlight
    /\ Len(log) < MaxMsgs
    /\ log' = Append(log, [from |-> "self", cid |-> c])
    /\ inFlight' = inFlight \ {c}
    /\ out' = [out EXCEPT ![c] = IF @ = "sending" THEN "accepted" ELSE @]
    /\ UNCHANGED <<rowVars, pollVars, queue, roomVars, pending, gap, faultVars>>

\* The response arrives; bridgev2 waits for the echo (Pending: true).
SendReturns(c) ==
    /\ out[c] = "accepted"
    /\ out' = [out EXCEPT ![c] = "sent"]
    /\ UNCHANGED <<teamsVars, rowVars, pollVars, queue, roomVars, pending,
                   inFlight, gap, faultVars>>

\* The send fails and RemovePending follows: Teams refused the request, or
\* the bridge gave up on one that was or may yet be taken.
SendFails(c) ==
    /\ out[c] \in {"sending", "accepted"}
    /\ out' = [out EXCEPT ![c] = "failed"]
    /\ pending' = pending \ {c}
    /\ inFlight' \in {inFlight, inFlight \ {c}}
    /\ UNCHANGED <<teamsVars, rowVars, pollVars, queue, roomVars, gap, faultVars>>

------------------------------------------------------------------------------
\* The process dies and starts again: the queue, the pending table and every
\* goroutine are gone; both databases and the Teams thread stay.
Crash ==
    /\ crashes < MaxCrashes
    /\ crashes' = crashes + 1
    /\ dropped' = dropped \cup Elements(queue)
    /\ queue' = <<>>
    /\ pc' = [p \in Pollers |-> "idle"]
    /\ last' = [p \in Pollers |-> 0]
    /\ hi' = [p \in Pollers |-> 0]
    /\ next' = [p \in Pollers |-> 1]
    /\ maxSeq' = [p \in Pollers |-> 0]
    /\ pending' = {}
    /\ out' = [c \in ClientIDs |->
                 IF c \in pending \/ out[c] \in {"sending", "accepted"}
                 THEN "orphaned" ELSE out[c]]
    /\ UNCHANGED <<teamsVars, rowVars, roomVars, inFlight, gap, rejects>>

Poll(p) == \/ ReadRow(p) \/ FetchPage(p) \/ FetchFails(p)
           \/ SkipMessage(p) \/ SkipSystemMessage(p) \/ IngestMessage(p)
           \/ SaveCursor(p) \/ SaveCursorFails(p)

Portal == ConfirmPending \/ IgnoreKnown \/ SendToMatrix \/ MatrixRejects

HandleMatrixMessage(c) == \/ StartSend(c) \/ TeamsAccepts(c) \/ SendReturns(c)
                          \/ SendFails(c) \/ RejectUnsupported(c)

Next ==
    \/ PostRemote
    \/ Discover
    \/ \E p \in Pollers : Poll(p)
    \/ Portal
    \/ \E c \in ClientIDs : HandleMatrixMessage(c)
    \/ Crash

Spec == Init /\ [][Next]_vars

\* The scheduler runs every goroutine, discovery repeats every 30 seconds, a
\* request that is retried for ever succeeds in the end, and a full queue that
\* keeps being drained lets a waiting poller in.
Fairness ==
    /\ WF_vars(Discover)
    /\ WF_vars(Portal)
    /\ \A p \in Pollers :
         /\ WF_vars(ReadRow(p))
         /\ SF_vars(FetchPage(p))
         /\ SF_vars(IngestMessage(p))
         /\ WF_vars(SkipMessage(p) \/ SkipSystemMessage(p))
         /\ WF_vars(SaveCursor(p) \/ SaveCursorFails(p))

FairSpec == Spec /\ Fairness

------------------------------------------------------------------------------
TypeOK ==
    /\ log \in Seq(Message)
    /\ discovered \in BOOLEAN
    /\ cursor \in Nat
    /\ pc \in [Pollers -> {"idle", "fetch", "ingest"}]
    /\ last \in [Pollers -> Nat]
    /\ hi \in [Pollers -> Nat]
    /\ next \in [Pollers -> Nat]
    /\ maxSeq \in [Pollers -> Nat]
    /\ queue \in Seq(Nat)
    /\ bridged \in Seq(Nat)
    /\ echoed \subseteq Nat
    /\ pending \subseteq ClientIDs
    /\ out \in [ClientIDs -> {"new", "sending", "accepted", "sent", "failed",
                              "unsupported", "orphaned"}]
    /\ inFlight \subseteq ClientIDs
    /\ gap \subseteq Nat
    /\ dropped \subseteq Nat
    /\ crashes \in Nat
    /\ rejects \in Nat

Accounted == Known \cup Elements(queue) \cup gap \cup dropped

\* The cursor never passes a person's message unless that message is bridged,
\* still queued, was pushed off the page between two polls, or was queued and
\* then lost by the process: with any number of overlapping polls, failed
\* cursor writes, crashes and rejected events there is no other way to lose one.
NoMessageSkipped ==
    \A m \in DOMAIN log : Bridgeable(log[m]) /\ m <= cursor => m \in Accounted

\* While no message was pushed off a page and Matrix rejected none, messages
\* enter the room in sequence order and never twice, although polls overlap,
\* cursors go back and crashes make polls repeat.
BridgedInOrder ==
    gap = {} /\ rejects = 0 =>
        \A j, k \in DOMAIN bridged : j < k => bridged[j] < bridged[k]

\* A message sent from Matrix is never posted to its room a second time,
\* however early its echo is polled: only a send that was reported as failed
\* or whose pending entry a crash erased can come back as a new message.
NoEchoDuplicate ==
    \A m \in Known \ echoed :
        log[m].cid # NoCid => out[log[m].cid] \in {"failed", "orphaned"}

\* The persisted cursor goes back only when a poll writes that outlived the
\* write of another, and never behind the row that poll had read: rediscovery,
\* failures and restarts leave it where it is.
OnlyStalePollsMoveBack ==
    [][cursor' < cursor =>
         \E p \in Pollers : pc[p] = "ingest" /\ last[p] < cursor']_vars

\* With overlapping polls, the bridge still relays the thread exactly once and
\* in order, and keeps up with it (see MessageRelay).
Relay == INSTANCE MessageRelay WITH relayed <- bridged
RelaySpec == Relay!Spec

\* "List messages since last sequence ID": a page fetched by a poll reaches
\* back to the cursor, so once a message is bridged no later one is left out.
PageReachesCursor ==
    \A m \in gap : \A k \in Known : m < k
==============================================================================
