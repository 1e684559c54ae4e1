----------------------------- MODULE ReadReceipts -----------------------------
(* The unread cycle of one thread, which decides whether a Matrix read receipt *)
(* is sent to Teams: markUnread, which pollThread calls behind each message of *)
(* somebody else (pkg/connector/handleteams.go), shouldSendReceipt and         *)
(* HandleMatrixReadReceipt (handlematrix.go), and the selfMessages map         *)
(* (client.go) that is written by HandleMatrixMessage and consumed by the      *)
(* poll loop.  Handlers are the goroutines of HandleMatrixReadReceipt.  A      *)
(* point in time is the number of messages the thread held then.               *)
EXTENDS Naturals, Sequences, FiniteSetsExt

CONSTANTS Handlers,     \* receipt handlers that may run at once
          ClientIDs,    \* clientmessageids of messages sent from Matrix
          NoCid,        \* no clientmessageid
          MaxMsgs,      \* bound: messages in the thread
          MaxFailures,  \* bound: failed requests to Teams
          MaxCrashes    \* bound: restarts of the bridge

ASSUME ReceiptAssumption ==
    /\ NoCid \notin ClientIDs
    /\ MaxMsgs \in Nat /\ MaxFailures \in Nat /\ MaxCrashes \in Nat

VARIABLES log,           \* the Teams thread: sender ("self" or "other") and client id
          out,           \* out[c]: progress of the Matrix message with id c
          selfMessages,  \* client ids recorded and not yet consumed
          aged,          \* those older than selfMessageTTL
          pc,            \* the poll loop: between messages, or about to markUnread
          next,          \* the message it looks at next
          room,          \* newest message queued for the Matrix room
          unreadSeen, unreadSent,
          hpc,           \* hpc[h]: where handler h is
          horizon,       \* horizon[h]: the time it sends
          teamsHorizon,  \* how far Teams shows the thread as read
          cycles,        \* history: calls of markUnread
          receipts,      \* history: receipts that were allowed to go out
          marked,        \* history: the message of the last markUnread
          readSince,     \* history: a receipt was handled since
          failures, failedSince, crashes

sendVars == <<out, selfMessages, aged>>
pollVars == <<pc, next, room>>
unreadVars == <<unreadSeen, unreadSent>>
handlerVars == <<hpc, horizon, teamsHorizon>>
histVars == <<cycles, receipts, marked, readSince, failures, failedSince, crashes>>
vars == <<log, sendVars, pollVars, unreadVars, handlerVars, histVars>>

Message == [from : {"self", "other"}, cid : ClientIDs \cup {NoCid}]

Init ==
    /\ log = <<>>
    /\ out = [c \in ClientIDs |-> "new"]
    /\ selfMessages = {} /\ aged = {}
    /\ pc = "poll" /\ next = 1 /\ room = 0
    /\ unreadSeen = FALSE /\ unreadSent = FALSE
    /\ hpc = [h \in Handlers |-> "idle"]
    /\ horizon = [h \in Handlers |-> 0]
    /\ teamsHorizon = 0
    /\ cycles = 0 /\ receipts = 0 /\ marked = 0
    /\ readSince = FALSE
    /\ failures = 0 /\ failedSince = FALSE /\ crashes = 0

------------------------------------------------------------------------------
\* Somebody posts in Teams; the user may do so too, with another client.
PostInTeams ==
    /\ Len(log) < MaxMsgs
    /\ \E f \in {"self", "other"} : log' = Append(log, [from |-> f, cid |-> NoCid])
    /\ UNCHANGED <<sendVars, pollVars, unreadVars, handlerVars, histVars>>

\* The request of HandleMatrixMessage reaches Teams ...
SendPost(c) ==
    /\ out[c] = "new"
    /\ Len(log) < MaxMsgs
    /\ log' = Append(log, [from |-> "self", cid |-> c])
    /\ out' = [out EXCEPT ![c] = "posted"]
    /\ UNCHANGED <<selfMessages, aged, pollVars, unreadVars, handlerVars, histVars>>

\* ... and the answer, perhaps long after the poll loop met the echo, makes it
\* record the id, behind a sweep of the old ones.
recordSelfMessage(c) ==
    /\ out[c] = "posted"
    /\ out' = [out EXCEPT ![c] = "done"]
    /\ selfMessages' = (selfMessages \ aged) \cup {c}
    /\ aged' = {}
    /\ UNCHANGED <<log, pollVars, unreadVars, handlerVars, histVars>>

\* selfMessageTTL passes for an entry.
Age(c) ==
    /\ c \in selfMessages \ aged
    /\ aged' = aged \cup {c}
    /\ UNCHANGED <<log, out, selfMessages, pollVars, unreadVars, handlerVars, histVars>>

\* consumeSelfMessage: a sweep, then the lookup; an empty id does neither.
consumeSelfMessage(cid) ==
    IF cid = NoCid THEN UNCHANGED <<selfMessages, aged>>
    ELSE /\ selfMessages' = (selfMessages \ aged) \ {cid}
         /\ aged' = {}

\* pollThread queues the message for the room.  One of the user's own is looked
\* up in selfMessages and leaves the unread state alone, found or not.
PollMessage ==
    /\ pc = "poll" /\ next <= Len(log)
    /\ room' = Max({room, next})
    /\ \/ /\ log[next].from = "self"
          /\ consumeSelfMessage(log[next].cid)
          /\ next' = next + 1 /\ UNCHANGED pc
       \/ /\ log[next].from = "other"
          /\ pc' = "mark"
          /\ UNCHANGED <<next, selfMessages, aged>>
    /\ UNCHANGED <<log, out, unreadVars, handlerVars, histVars>>

\* A plausible bug: the new cycle keeps the old cycle's "sent".
markUnreadKeepingSent ==
    /\ pc = "mark"
    /\ unreadSeen' = TRUE
    /\ pc' = "poll" /\ next' = next + 1
    /\ cycles' = cycles + 1 /\ marked' = next
    /\ readSince' = FALSE /\ failedSince' = FALSE
    /\ UNCHANGED <<log, sendVars, room, unreadSent, handlerVars, receipts, failures, crashes>>

\* A message of somebody else opens a new unread cycle, behind its queueing.
markUnread ==
    /\ pc = "mark"
    /\ unreadSeen' = TRUE /\ unreadSent' = FALSE
    /\ pc' = "poll" /\ next' = next + 1
    /\ cycles' = cycles + 1 /\ marked' = next
    /\ readSince' = FALSE /\ failedSince' = FALSE
    /\ UNCHANGED <<log, sendVars, room, handlerVars, receipts, failures, crashes>>

------------------------------------------------------------------------------
\* The Matrix user reads the room.
ReadReceipt(h) ==
    /\ hpc[h] = "idle" /\ room > 0
    /\ hpc' = [hpc EXCEPT ![h] = "check"]
    /\ UNCHANGED <<log, sendVars, pollVars, unreadVars, horizon, teamsHorizon, histVars>>

\* A plausible bug: the cycle is looked at and not closed.
shouldSendReceiptUnclosed(h) ==
    /\ hpc[h] = "check"
    /\ readSince' = TRUE
    /\ \/ /\ unreadSeen /\ ~unreadSent
          /\ receipts' = receipts + 1
          /\ horizon' = [horizon EXCEPT ![h] = Len(log)]
          /\ hpc' = [hpc EXCEPT ![h] = "put"]
       \/ /\ ~unreadSeen \/ unreadSent
          /\ hpc' = [hpc EXCEPT ![h] = "idle"]
          /\ UNCHANGED <<receipts, horizon>>
    /\ UNCHANGED <<log, sendVars, pollVars, unreadVars, teamsHorizon, cycles, marked,
                   failures, failedSince, crashes>>

\* shouldSendReceipt lets the first receipt of an unread cycle through, and the
\* handler takes the time as the horizon to send.
shouldSendReceipt(h) ==
    /\ hpc[h] = "check"
    /\ readSince' = TRUE
    /\ \/ /\ unreadSeen /\ ~unreadSent
          /\ unreadSent' = TRUE
          /\ receipts' = receipts + 1
          /\ horizon' = [horizon EXCEPT ![h] = Len(log)]
          /\ hpc' = [hpc EXCEPT ![h] = "put"]
       \/ /\ ~unreadSeen \/ unreadSent
          /\ hpc' = [hpc EXCEPT ![h] = "idle"]
          /\ UNCHANGED <<unreadSent, receipts, horizon>>
    /\ UNCHANGED <<log, sendVars, pollVars, unreadSeen, teamsHorizon, cycles, marked,
                   failures, failedSince, crashes>>

\* Teams keeps the newest horizon it was given.
PutHorizon(h) ==
    /\ hpc[h] = "put"
    /\ teamsHorizon' = Max({teamsHorizon, horizon[h]})
    /\ hpc' = [hpc EXCEPT ![h] = "idle"]
    /\ horizon' = [horizon EXCEPT ![h] = 0]
    /\ UNCHANGED <<log, sendVars, pollVars, unreadVars, histVars>>

\* SetConsumptionHorizon fails, though Teams may have applied it; the cycle
\* stays closed.
PutFails(h) ==
    /\ hpc[h] = "put"
    /\ failures < MaxFailures
    /\ failures' = failures + 1
    /\ failedSince' = TRUE
    /\ teamsHorizon' \in {teamsHorizon, Max({teamsHorizon, horizon[h]})}
    /\ hpc' = [hpc EXCEPT ![h] = "idle"]
    /\ horizon' = [horizon EXCEPT ![h] = 0]
    /\ UNCHANGED <<log, sendVars, pollVars, unreadVars, cycles, receipts, marked,
                   readSince, crashes>>

\* A restart loses the maps; the poll loop resumes from its stored cursor.
Restart ==
    /\ crashes < MaxCrashes
    /\ crashes' = crashes + 1
    /\ selfMessages' = {} /\ aged' = {}
    /\ out' = [c \in ClientIDs |-> IF out[c] = "posted" THEN "done" ELSE out[c]]
    /\ unreadSeen' = FALSE /\ unreadSent' = FALSE
    /\ pc' = "poll" /\ next' \in 1..next
    /\ hpc' = [h \in Handlers |-> "idle"]
    /\ horizon' = [h \in Handlers |-> 0]
    /\ marked' = 0 /\ readSince' = FALSE /\ failedSince' = FALSE
    /\ UNCHANGED <<log, room, teamsHorizon, cycles, receipts, failures>>

Next ==
    \/ PostInTeams
    \/ \E c \in ClientIDs : SendPost(c) \/ recordSelfMessage(c) \/ Age(c)
    \/ PollMessage \/ markUnread
    \/ \E h \in Handlers : \/ ReadReceipt(h) \/ shouldSendReceipt(h)
                           \/ PutHorizon(h) \/ PutFails(h)
    \/ Restart

Spec == Init /\ [][Next]_vars

------------------------------------------------------------------------------
\* "Ensure read receipts fire only once per unread cycle": however many receipt
\* handlers race with the poll loop, none sends a second receipt for a cycle.
OncePerUnreadCycle == receipts <= cycles

\* A receipt handled after markUnread is not lost: once no request is under way
\* Teams shows the thread as read up to the message that opened the cycle,
\* unless the request itself failed.
ReadReachesTeams ==
    readSince /\ ~failedSince /\ (\A h \in Handlers : hpc[h] = "idle")
        => teamsHorizon >= marked
==============================================================================
