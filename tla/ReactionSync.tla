---------------------------- MODULE ReactionSync ----------------------------
(* The reactions to one message of a Teams thread.  Each page the sync loop   *)
(* fetches shows them all; pollThread turns them into a reaction sync event   *)
(* (queueReactionSyncForMessage, pkg/connector/handleteams.go) that bridgev2, *)
(* in the order of the portal queue, compares with its reaction rows.         *)
(* Reactions and redactions of the login's own user come through the same     *)
(* queue (HandleMatrixReaction, HandleMatrixReactionRemove, handlematrix.go), *)
(* one event at a time, which is bridgev2's default, and everybody reacts in  *)
(* Teams: a page may be fetched before any of this and queued after it.       *)
(*                                                                            *)
(* A reaction is <<user, emotion key>>, and a Matrix event that shows it is   *)
(* <<reaction, id>>.  bridgev2 stores one row per reaction, with the event it *)
(* sent or was sent; a redaction counts if the event it names has a row.  An  *)
(* emoji the bridge has no key for is refused before anything changes and     *)
(* left out.  Matrix itself is taken to accept what the bridge sends.         *)
EXTENDS Naturals, Sequences

CONSTANTS Pollers,       \* sync loops (one; two while a stopped one still runs)
          Others,        \* other Teams users
          Self,          \* the login's own user
          EmotionTable,  \* the pairs <<emoji, key>> of the source's map literal
          EventIDs,      \* bound: ids of Matrix events with the same reaction
          MaxChanges,    \* bound: changes users make, on either side
          MaxQueue,      \* bound: events in the portal queue
          MaxCrashes     \* bound: restarts of the process

ASSUME SelfAssumption == Self \notin Others
ASSUME TableAssumption == Len(EmotionTable) \in Nat
ASSUME ReactionBoundAssumption ==
    MaxChanges \in Nat /\ MaxQueue \in Nat \ {0} /\ MaxCrashes \in Nat

VARIABLES teams,    \* reactions Teams holds on the message
          rows,     \* reaction rows of bridgev2: the Matrix events that have one
          room,     \* the reaction events that the Matrix room shows
          ingested, \* the cursor has passed the message
          known,    \* bridgev2 has handled its message event
          rowID,    \* the id of its row: Teams' id, or the clientmessageid
          seen,     \* reactionSeen, as far as it is about the message
          poll,     \* poll[p]: where the poller is and the page it holds
          queue,    \* the portal queue
          answered, \* the handler's request succeeded, its row is yet to be written
          onPage,   \* the message is still among the newest of its thread
          mishap,   \* history: a reaction from Matrix was refused as a duplicate, or
                    \* a request failed or died with the process
          changes, crashes

vars == <<teams, rows, room, ingested, known, rowID, seen, poll, queue,
          answered, onPage, mishap, changes, crashes>>
messageVars == <<ingested, known, rowID, seen>>
limits == <<onPage, mishap, changes, crashes>>

\* The literal's keys are computed at run time, so an emoji that occurs twice
\* is no compile error: the later pair wins.
emojiToEmotionKey ==
    [e \in {EmotionTable[i][1] : i \in 1..Len(EmotionTable)} |->
        LET last == CHOOSE i \in 1..Len(EmotionTable) :
                        /\ EmotionTable[i][1] = e
                        /\ \A j \in 1..Len(EmotionTable) :
                              EmotionTable[j][1] = e => j <= i
        IN EmotionTable[last][2]]

\* Keys with an emoji (of several emojis the inverse map takes one); a key
\* whose only emoji a later pair took over has none.
MappedKeys == {emojiToEmotionKey[e] : e \in DOMAIN emojiToEmotionKey}

Keys == {EmotionTable[i][2] : i \in 1..Len(EmotionTable)}
Users == Others \cup {Self}
Reactions == Users \X Keys

\* A Matrix event that shows a reaction.
Sent == Reactions \X EventIDs

\* The ids a message row can have: Teams' own, or the clientmessageid of a message
\* that the login's user sent from Matrix.
MessageIDs == {"remote", "client"}

\* What the portal queue holds: messages of Teams, the reactions of a page with
\* the row they are meant for, and reactions and redactions from Matrix.
Event == [kind : {"message"}, data : {{}}, stale : BOOLEAN]
            \cup [kind : {"sync"}, data : SUBSET Reactions, target : MessageIDs,
                  stale : BOOLEAN]
            \cup [kind : {"add", "remove"}, data : Sent, stale : BOOLEAN]

\* The reactions that Matrix events show.
Shows(events) == {e[1] : e \in events}

\* A plausible bug: the login's own reactions are left to the Matrix side.
buildWithoutOwn(page) == {r \in page : r[1] # Self /\ r[2] \in MappedKeys}

\* buildReactionSyncData: reactions whose key has no emoji are dropped.
buildReactionSyncData(page) == {r \in page : r[2] \in MappedKeys}

\* What the room should show.
Shown == {r \in teams : r[2] \in MappedKeys}

\* resolveReactionSyncTargetMessageID: the first candidate id with a message
\* row, else the first candidate, which is Teams' id.
Target == IF known THEN rowID ELSE "remote"

\* The sync event for the page that p holds.
SyncEvent(p, target) ==
    [kind |-> "sync", data |-> buildReactionSyncData(poll[p].page), target |-> target,
     stale |-> poll[p].stale]

\* The Matrix events that events of these kinds are about, in q and in the queue.
About(q, kinds) == {q[i].data : i \in {j \in 1..Len(q) : q[j].kind \in kinds}}

Queued(kinds) == About(queue, kinds)

\* Matrix never gives an id twice; here one that nothing refers to is taken again.
Unused(r) ==
    {id \in EventIDs : <<r, id>> \notin room \cup rows \cup Queued({"add", "remove"})}

NewEvent(r) == <<r, CHOOSE id \in Unused(r) : TRUE>>

Idle == [pc |-> "idle", page |-> {}, stale |-> FALSE]

\* Teams' reactions change, with q for the portal queue: pages fetched before
\* are stale (history).
TeamsBecomes(new, q) ==
    /\ teams' = new
    /\ IF new = teams
       THEN /\ queue' = q
            /\ UNCHANGED poll
       ELSE /\ queue' = [i \in 1..Len(q) |-> [q[i] EXCEPT !.stale = TRUE]]
            /\ poll' = [p \in Pollers |-> [poll[p] EXCEPT !.stale = poll[p].pc # "idle"]]

Init ==
    /\ teams = {} /\ rows = {} /\ room = {}
    /\ ingested = FALSE /\ known = FALSE
    /\ rowID \in MessageIDs
    /\ seen = {}
    /\ poll = [p \in Pollers |-> Idle]
    /\ queue = <<>> /\ answered = FALSE
    /\ onPage = TRUE /\ mishap = FALSE
    /\ changes = 0 /\ crashes = 0

------------------------------------------------------------------------------
\* ListMessages returns a page that shows the message.
Fetch(p) ==
    /\ poll[p].pc = "idle"
    /\ onPage
    /\ poll' = [poll EXCEPT ![p] = [pc |-> IF ingested THEN "react" ELSE "message",
                                    page |-> teams, stale |-> FALSE]]
    /\ UNCHANGED <<teams, rows, room, messageVars, queue, answered, limits>>

\* A new message: its reactions are remembered, its event is queued, and the
\* cursor moves past it (the page's other messages play no part).
QueueMessage(p) ==
    /\ poll[p].pc = "message"
    /\ Len(queue) < MaxQueue
    /\ seen' = IF poll[p].page # {} THEN seen \cup {"remote"} ELSE seen
    /\ queue' = Append(queue, [kind |-> "message", data |-> {}, stale |-> poll[p].stale])
    /\ ingested' = TRUE
    /\ poll' = [poll EXCEPT ![p].pc = "react"]
    /\ UNCHANGED <<teams, rows, room, known, rowID, answered, limits>>

\* p is done with its page, and with its sync queued if there is one to send.
Synced(p, target, sends) ==
    /\ poll[p].pc = "react"
    /\ poll' = [poll EXCEPT ![p] = Idle]
    /\ IF sends
       THEN Len(queue) < MaxQueue /\ queue' = Append(queue, SyncEvent(p, target))
       ELSE UNCHANGED queue
    /\ UNCHANGED <<teams, rows, room, ingested, known, rowID, answered, limits>>

\* A plausible bug: the poller forgets nothing when it sends an empty sync.
QueueReactionsKeepingSeen(p) ==
    /\ Synced(p, Target, \/ buildReactionSyncData(poll[p].page) # {}
                         \/ "remote" \in seen
                         \/ known /\ rows # {})
    /\ UNCHANGED seen

\* A plausible bug: a page without reactions queues nothing.
QueueReactionsIfAny(p) ==
    /\ Synced(p, Target, buildReactionSyncData(poll[p].page) # {})
    /\ UNCHANGED seen

\* A plausible bug: no look at the rows, which hold what old messages showed.
QueueReactionsByMemory(p) ==
    LET data == buildReactionSyncData(poll[p].page)
        remembered == data = {} /\ Target \in seen
    IN
    /\ Synced(p, Target, data # {} \/ remembered)
    /\ seen' = IF remembered THEN seen \ {Target} ELSE seen

\* queueReactionSyncForMessage: what the page shows, or, when it shows nothing
\* that can be bridged, an empty sync if reactions to the target were seen or the
\* target has rows.  The event keeps the target it was queued for.
QueueReactionsFor(p, target) ==
    LET data == buildReactionSyncData(poll[p].page)
        remembered == data = {} /\ target \in seen
        existing == known /\ target = rowID /\ rows # {}
    IN
    /\ Synced(p, target, data # {} \/ remembered \/ existing)
    /\ seen' = IF remembered THEN seen \ {target} ELSE seen

QueueReactions(p) == QueueReactionsFor(p, Target)

\* The message rows cannot be read: the first candidate is taken, though the row
\* has the other id.
QueueReactionsBlindly(p) ==
    /\ known /\ rowID # "remote"
    /\ QueueReactionsFor(p, "remote")

\* shouldSendEmptyReactionSync cannot read the rows: this page sends nothing.
RowsUnreadable(p) ==
    /\ poll[p].pc = "react"
    /\ buildReactionSyncData(poll[p].page) = {} /\ Target \notin seen
    /\ poll' = [poll EXCEPT ![p] = Idle]
    /\ UNCHANGED <<teams, rows, room, messageVars, queue, answered, limits>>

------------------------------------------------------------------------------
Kind == Head(queue).kind
Data == Head(queue).data

\* bridgev2 handles the message event: its row exists from now on.
HandleMessage ==
    /\ queue # <<>> /\ Kind = "message"
    /\ queue' = Tail(queue)
    /\ known' = TRUE
    /\ UNCHANGED <<teams, rows, room, ingested, rowID, seen, poll, answered, limits>>

\* The id that a sync was queued for has a row.  One that was queued before an
\* own message's row was there names Teams' id, and the row has the other.
Applies == known /\ Head(queue).target = rowID

\* bridgev2 handles a sync.  It says all there is (HasAllUsers,
\* HasAllReactions): rows it does not list are deleted and their Matrix events
\* redacted, missing ones are sent.  Without its target message it is dropped.
HandleSync ==
    LET gone    == {e \in rows : e[1] \notin Data}
        missing == Data \ Shows(rows)
        new     == {NewEvent(r) : r \in missing}
    IN
    /\ queue # <<>> /\ Kind = "sync"
    /\ queue' = Tail(queue)
    /\ IF Applies
       THEN /\ \A r \in missing : Unused(r) # {}
            /\ rows' = (rows \ gone) \cup new
            /\ room' = (room \ gone) \cup new
       ELSE UNCHANGED <<rows, room>>
    /\ UNCHANGED <<teams, messageVars, poll, answered, limits>>

\* The user reacts in the Matrix room, or redacts a reaction of theirs.
MatrixUser ==
    /\ known
    /\ changes < MaxChanges
    /\ changes' = changes + 1
    /\ Len(queue) < MaxQueue
    /\ \/ \E e \in room :
            /\ e[1][1] = Self
            /\ room' = room \ {e}
            /\ queue' = Append(queue, [kind |-> "remove", data |-> e, stale |-> FALSE])
       \/ \E r \in {Self} \X MappedKeys :
            /\ r \notin Shows(room) /\ Unused(r) # {}
            /\ room' = room \cup {NewEvent(r)}
            /\ queue' = Append(queue, [kind |-> "add", data |-> NewEvent(r),
                                       stale |-> FALSE])
    /\ UNCHANGED <<teams, rows, messageVars, poll, answered, onPage, mishap, crashes>>

Pending(kinds) == queue # <<>> /\ ~answered /\ Kind \in kinds

\* bridgev2 ignores a reaction that has a row already (its event stays in the
\* room) and the redaction of an event without one.
HandlerIgnores ==
    /\ \/ /\ Pending({"add"}) /\ Data[1] \in Shows(rows)
          /\ mishap' = TRUE
       \/ /\ Pending({"remove"}) /\ Data \notin rows
          /\ UNCHANGED mishap
    /\ queue' = Tail(queue)
    /\ UNCHANGED <<teams, rows, room, messageVars, poll, answered, onPage, changes, crashes>>

Requesting == \/ Pending({"add"}) /\ Data[1] \notin Shows(rows)
              \/ Pending({"remove"}) /\ Data \in rows

With(set, x) == IF Kind = "add" THEN set \cup {x} ELSE set \ {x}

\* HandleMatrixReaction / HandleMatrixReactionRemove: the request to Teams
\* succeeds ...
Request ==
    /\ Requesting
    /\ TeamsBecomes(With(teams, Data[1]), queue)
    /\ answered' = TRUE
    /\ UNCHANGED <<rows, room, messageVars, limits>>

\* ... or fails, before or after Teams applied it.  The rows stay.
RequestFails ==
    /\ Requesting
    /\ \/ TeamsBecomes(teams, Tail(queue))
       \/ TeamsBecomes(With(teams, Data[1]), Tail(queue))
    /\ mishap' = TRUE
    /\ UNCHANGED <<rows, room, messageVars, answered, onPage, changes, crashes>>

\* A plausible bug: the handler returns a row with another key, one that a later
\* pair of the table took the emoji from.
RecordOtherKey ==
    /\ answered
    /\ answered' = FALSE
    /\ queue' = Tail(queue)
    /\ rows' = With(rows, IF Kind = "add"
                          THEN <<<<Self, CHOOSE k \in Keys : k # Data[1][2]>>, Data[2]>>
                          ELSE Data)
    /\ UNCHANGED <<teams, room, messageVars, poll, limits>>

\* bridgev2 stores the row the handler returned, or deletes it.
Record ==
    /\ answered
    /\ answered' = FALSE
    /\ queue' = Tail(queue)
    /\ rows' = With(rows, Data)
    /\ UNCHANGED <<teams, room, messageVars, poll, limits>>

------------------------------------------------------------------------------
\* Anybody, the login's user included, reacts in a Teams client.
TeamsUser ==
    /\ changes < MaxChanges
    /\ changes' = changes + 1
    /\ \E r \in Reactions :
         TeamsBecomes(IF r \in teams THEN teams \ {r} ELSE teams \cup {r}, queue)
    /\ UNCHANGED <<rows, room, messageVars, answered, onPage, mishap, crashes>>

\* Newer messages push this one off the page.
PushOff ==
    /\ onPage
    /\ onPage' = FALSE
    /\ UNCHANGED <<teams, rows, room, messageVars, poll, queue, answered,
                   mishap, changes, crashes>>

\* The process restarts: queue and reactionSeen are gone.
Crash ==
    /\ crashes < MaxCrashes
    /\ crashes' = crashes + 1
    /\ seen' = {}
    /\ poll' = [p \in Pollers |-> Idle]
    /\ queue' = <<>> /\ answered' = FALSE
    /\ mishap' = (mishap \/ \E i \in 1..Len(queue) : queue[i].kind \in {"add", "remove"})
    /\ UNCHANGED <<teams, rows, room, ingested, known, rowID, onPage, changes>>

Next ==
    \/ \E p \in Pollers : \/ Fetch(p) \/ QueueMessage(p)
                          \/ QueueReactions(p) \/ QueueReactionsBlindly(p)
                          \/ RowsUnreadable(p)
    \/ HandleMessage \/ HandleSync
    \/ MatrixUser \/ HandlerIgnores \/ Request \/ RequestFails \/ Record
    \/ TeamsUser \/ PushOff
    \/ Crash

\* The sync loop polls for ever and gets answers and rows again and again;
\* bridgev2 drains its queue.  Nobody has to react.
Spec ==
    /\ Init /\ [][Next]_vars
    /\ \A p \in Pollers : /\ WF_vars(Fetch(p)) /\ SF_vars(QueueMessage(p))
                          /\ SF_vars(QueueReactions(p))
    /\ WF_vars(HandleMessage \/ HandleSync \/ HandlerIgnores \/ Request \/ RequestFails \/ Record)

------------------------------------------------------------------------------
TypeOK ==
    /\ teams \subseteq Reactions /\ rows \subseteq Sent /\ room \subseteq Sent
    /\ ingested \in BOOLEAN /\ known \in BOOLEAN
    /\ rowID \in MessageIDs /\ seen \subseteq {"remote"}
    /\ poll \in [Pollers -> [pc : {"idle", "message", "react"},
                             page : SUBSET Reactions, stale : BOOLEAN]]
    /\ \A i \in 1..Len(queue) : queue[i] \in Event
    /\ answered \in BOOLEAN /\ (answered => Kind \in {"add", "remove"})
    /\ onPage \in BOOLEAN /\ mishap \in BOOLEAN
    /\ changes \in Nat /\ crashes \in Nat

\* A reaction that Teams has leaves the rows and the room only because its user
\* redacts it or because a page is applied that Teams has meanwhile outrun;
\* never through a page that is still true.
OnlyStalePagesUndo ==
    [][queue # <<>> /\ queue' = Tail(queue) /\ Kind = "sync" /\ ~Head(queue).stale =>
          \A e \in Sent : e[1] \in Shown =>
             (e \in rows => e \in rows') /\ (e \in room => e \in room')]_vars

\* Rows and room hold the same Matrix events, but for the user's reactions and
\* redactions that are still queued, in whatever order syncs are applied between
\* them; until a reaction is refused as a duplicate or a request fails.
RoomIsRows ==
    ~mishap => room = (rows \cup Queued({"add"})) \ Queued({"remove"})

\* While the message stays on its page, the rows end up as Teams has it: through
\* stale pages, restarts, failed requests and pages without reactions.
RowsFollowTeams == <>[](onPage /\ known => Shows(rows) = Shown)

\* And so does the room, unless a request failed or a reaction was made on both
\* sides at once (the rows then agree with Teams while the room does not, and no
\* sync sees a difference).
RoomFollowsTeams == <>[](onPage /\ known /\ ~mishap => Shows(room) = Shown)

\* A message that has no reactions (any more) is left alone in the end: it is
\* not synchronised again with every poll.
QuietWhenEmpty == <>[](Shown = {}) => <>[](queue = <<>>)
==============================================================================
