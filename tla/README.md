# Verification of mautrix-teams

TLA+ models of the parts of the Matrix-Teams bridge that keep state, the TLC
runs that check them and the TLAPS proofs of the most important results.
`PROJECT.json` lists every run, mutant, finding, hazard and theorem, and maps
each definition to the source lines it models.

    tlc -workers 2 -config MCThreadIngest_faults.cfg MCThreadIngest
    tlapm ThreadIngestProofs.tla

## 1. The system

The bridge is one process: a mautrix `bridgev2` runtime with a Teams connector.
Teams pushes nothing; a sync loop per login polls it.

| Component | State | Operations | Hard part |
|---|---|---|---|
| sync loop lifecycle (`handleteams.go`, `client.go`) | `syncCancel`, `syncDone`, `loggedIn` | Connect, Disconnect, LogoutRemote, startSyncLoop, stopSyncLoop | overlapping calls; an unlocked read of `syncDone`; a stop that times out |
| poll scheduling (`handleteams.go`, `poll_backoff.go`) | per-thread backoff and next poll, next discovery | pollDueThreads, ApplyPollBackoff | sleeping past due work; int64 overflow |
| message ingest (`handleteams.go`, `thread_state.go`, `messages.go`) | cursor row per thread; bridgev2's portal queue and message table | refreshThreads, pollThread, UpdateCursor | overlapping polls, crash between queueing and sending, bursts beyond a page |
| Matrix to Teams (`handlematrix.go`, `messages.go`) | pending messages, the id counter | HandleMatrixMessage, GenerateClientMessageID | the echo races the answer; lost answers |
| attachments (`internal/bridge`, `internal/teams/graph`) | upload session, drive item, share link | SendAttachmentMessage, UploadTeamsChatFile, UploadFileInChunks, CreateShareLink | three services in a row, retried chunks |
| read receipts out (`handlematrix.go`, `client.go`) | `unreadSeen`, `unreadSent`, `selfMessages` | HandleMatrixReadReceipt, markUnread, recordSelfMessage | flags set before the request |
| read receipts in (`handleteams.go`, `consumption_horizon.go`) | last read position per thread and user, throttle | pollConsumptionHorizons | compare, queue and write are three steps |
| tokens (`handleteams.go`, `graph_token.go`, `dbmeta.go`) | login metadata in memory and in the database, `authMu` | ensureValidSkypeToken, ensureValidGraphToken, LogoutRemote | rotation of the refresh token, partial responses, crashes |
| request executor (`executor.go`) | one call: retries, delay, open body | Do | which failures are retried; cancellation |
| reactions (`reactions.go`, `handleteams.go`, `handlematrix.go`) | `reactionSeen`, bridgev2's reaction rows, the room | reaction sync, reaction handlers | pages that are outrun before they are applied; a memory that a restart empties; a failed removal |
| device-code login (`device_code_login.go`, `device_code.go`) | a login process, a timer, the tokens so far | Start, Wait, Cancel | pending answers, expiry and Cancel; two rotations of the refresh token before the row exists |
| chat naming (`model/conversation.go`) | none | NormalizeForSelf | one person under several ids, the user under a ghost's |
| auth tools (`auth/state.go`, `msal.go`, `cookies.go`) | a state file | import and export | formats |
| conversion, HTML | none | pure functions | strings |

The loop (lifecycle) runs the scheduler, the scheduler runs `pollThread`,
`pollThread` makes sure of a token, fetches a page, queues events to bridgev2,
writes the cursor and polls the horizons. Handlers of Matrix events run in other
goroutines and share the token, the pending table, the id counter, the unread
flags and `selfMessages` with it. Each module cuts at one such piece of shared
state.

What makes each part correct: no message lost without a cause that is named,
none twice, order kept (ingest); sent messages recognised when they come back
(sending); ids unique; at most one loop polls and a cancelled one ends
(lifecycle); due work is done on time (scheduler); one receipt per unread cycle
and none lost silently; stored positions only advance; the current refresh token
reaches the database, from the login on, and a logout is final; attempts, delays
and bodies bounded (executor); a posted file is whole and shared, and its id is
pending exactly as long as the echo may come (attachments); rows and room follow
Teams' reactions; a direct chat is named after the other person.

## 2. Modules

| Module | Models | State |
|---|---|---|
| `ThreadIngest` | one thread: pollThread, its row, HandleMatrixMessage and the echo | Teams log, cursor row, locals of each poller, portal queue, bridged messages, pending ids |
| `MessageRelay` | what ingest promises: each message once, in order, eventually | log, relayed ids |
| `ClientMessageID` | GenerateClientMessageID, one action per atomic operation | counter, locals per goroutine |
| `TokenRefresh` | both ensureValid functions, LogoutRemote, saves, crashes | metadata in memory and on disk, `authMu` |
| `DeviceCodeLogin` | Start, Wait and Cancel up to the new row, then `TokenRefresh` on it | login step, code, timer, tokens so far |
| `SyncLifecycle` | Connect, Disconnect, LogoutRemote against the loop goroutine | the two fields, channels, contexts |
| `PollBackoff`, `PollScheduler` | backoff arithmetic (64 bits), pollDueThreads | delays and due times relative to now |
| `Conversation` | NormalizeForSelf as operators: direct chat or not, room name; what discovery of `PollScheduler` finds | none |
| `ReadReceipts` | receipts from Matrix to Teams, own echoes | unread flags, `selfMessages`, Teams' horizon |
| `InboundReceipts` | pollConsumptionHorizons | horizon row, throttle |
| `RequestExecutor` | Do and the clean-up of its callers | retries, delay, open bodies |
| `AttachmentSend` | typing notices and a file from Matrix to the Teams chat, with the generator of `ClientMessageID` and the pending table | sender locals, pending ids, upload session, drive, chat |
| `ReactionSync` | the reactions of one message: pages, portal queue, Matrix handlers | Teams' reactions, bridgev2's rows, the room, `reactionSeen`, the page of each poller, queue |

Three compositions extend a module by its environment: `AttachmentSend`'s
senders are the threads of `ClientMessageID`, and each step of the generator is
one of theirs; `DeviceCodeLogin` runs `TokenRefresh` from the row it creates
(its callers act once `login = "done"`); `PollScheduler` discovers what
`Conversation` makes of Teams' list.

`X` is checked through `MCX` and its cfg files; `XProofs` holds proofs.
`AttachmentSendProofs` holds those of `ClientMessageID` too, and
`SyncLoopProofs` those of `SyncLifecycle` and `PollScheduler`, whose variables
and formulas have names of their own (`pollVars`, `PollSpec`) for that reason.
Definitions called "a plausible bug" in the modules are the mutants: each
property fails under one of them.

Abstractions shared by the modules:

- bridgev2 (portal queue, pending table, message table, contexts), the Teams and
  Graph services and Matrix are external; they are modelled from how the
  connector uses them and may fail, delay or lose answers wherever the code has
  a branch for it. A posted message carries its clientmessageid and Teams keeps
  one message per id.
- In `AttachmentSend` the drive stores each upload as a new item (the code asks
  for `conflictBehavior: rename`), a session keeps only bytes that continue
  what it holds, and the range it asks for next may be wrong.
- In `ReactionSync` bridgev2 handles the events of a portal one at a time, its
  default. Teams holds reactions, pairs of a user and an emotion key; rows and room
  hold Matrix events, each a reaction with an id, so that a redaction concerns the
  event it names and not a later one of the same reaction. An id that nothing
  refers to any more is used again. Matrix accepts what bridgev2 sends. A page that
  shows the message shows all its reactions. The message's row has Teams' id or,
  for a message sent from Matrix, the clientmessageid (`rowID`); a sync event keeps
  the id it was queued for, and bridgev2 drops it if that id has no row. The lookup
  of the rows may fail (`QueueReactionsBlindly`, `RowsUnreadable`). The emoji table
  is data: the code's literal has emojis that occur twice (`reactions.go:16` and
  `84`), so one of the two keys, as in the instance checked, has no emoji and its
  reactions are dropped.
- `DeviceCodeLogin` is a first login: bridgev2's replacement of an older row of
  the same user is left out, and so is the length of the interval that
  `slow_down` extends.
- In `Conversation` an id is a prefix and a rest, names that differ in case only
  are one, and the fourteen fields that may name a thread are one topic.
- Sequence ids are positions in the thread: the models assume that
  CompareSequenceID orders them (numeric ids).
- Message content, HTML and logging are left out.
- Each history variable is marked `history:` where it is declared; it records
  why something happened and guards no action. The exceptions the properties
  name are these variables.

## 3. Runs

Passing:

| Run | Shows |
|---|---|
| `ingest_faults` | two pollers, an own message, a crash, a rejected event, failed cursor writes: no message is passed over unaccounted, no echo becomes a new message; order and no duplicates while nothing is pushed off a page or rejected; the cursor goes back only when polls overlap |
| `ingest_relay` | ThreadIngest implements MessageRelay, liveness included, while pages reach back to the cursor and no event is lost |
| `login` | a login that waits for the user ends, also if the user does nothing; afterwards concurrent callers refresh once; the newest refresh token, one of the login's included, is on disk unless a save failed, the process died first, or the answer that brought it was an error; the Graph token survives a Skype refresh; a logout that met no refresh under way is final; nobody waits for ever |
| `sync` | no loop escapes; the loop a client holds polls unless a failed query ended it; the done channel is truthful and safe unless a stop beat the goroutine; cancelled loops end |
| `poll` | through an outage of one thread that overflows its delay, and its end: threads due by a delay of up to the 32nd failure, and discovery throughout, are late by at most a pass; delays stay bounded up to that failure and are so again with the first poll that does not fail; every thread is polled again and again; no direct chat is named after the login's user or nobody |
| `read_receipts` | at most one receipt per unread cycle; a read after the cycle opened reaches Teams unless a request failed or the process restarted |
| `horizon` | receipts go ever further and the row is monotone unless two polls compare before either writes; the last position arrives |
| `executor` | attempts and delays bounded, no request after cancellation, bodies closed, a result |
| `attach` | an id is pending until its send fails; a posted message links the sender's whole file, shared first, under that id; each send ends; whatever the clock reads, no id is drawn twice, and each is above all drawn before it, by the same goroutine or another |
| `reactions` | a reaction that Teams has is undone only by its user or by a page that Teams has outrun; rows and room hold the same events but for the user's queued ones; while the message is on its page, the rows and, unless a request failed or a reaction was made on both sides at once, the room converge to Teams; a message without reactions is in the end not synchronised any more |

Violated, each by a behaviour of the code that contradicts a line of the
repository (quoted in `PROJECT.json`):

| Run | What the code does |
|---|---|
| `ingest_page` | ListMessages ignores the cursor and reads one page: a burst loses messages |
| `poll_overflow` | the 34th failure in a row overflows the delay: polling every 100 ms |

Further divergences are in the models, and the passing properties carry them as
named exceptions:

- the cursor is persisted when events are queued, not when they are sent
  (`plans/plan-teams-message-ingest.md:36` asks for "persist only after
  successful sends"): `dropped` in `NoMessageSkipped`;
- a refresh token that an answer rotated is discarded with the answer when that is
  an error: a 2xx answer that cannot be decoded or has no access_token, on the
  Skype and the Graph path and in the login's optional Graph request
  (`token.go:85`-`90`), and a Graph answer without an expiry (`graph_token.go:30`).
  `Discard` models them, `tokenLost` in `RotationKept` names them; a later answer
  with a newer token makes up for it (`Keep`);
- a reaction sync that is queued before an own message's row exists names Teams'
  id while the row gets the clientmessageid (`handleteams.go:599`), so bridgev2
  drops it: `Applies` in `HandleSync`, and the condition of `TruePagesSettle`; the
  next page sends another, so `RowsFollowTeams` holds;
- attachments fail on an expired Graph token instead of refreshing it
  (`send_attachment.go:47`; `docs/architecture.md:142` says "Ensure valid Graph
  token"): `NotSendable` in `AttachmentSend`;
- one database error ends the polling loop, and since `syncCancel` stays set
  Connect starts no other (`handleteams.go:273`; the comment at line 82 says
  "until canceled"): `failed` in `HeldLoopPolls`;
- a refresh under way while LogoutRemote, which does not take `authMu`, clears
  the metadata brings tokens back (`client.go:118`): `raced` in `LogoutHolds`;
- an unsupported message type leaves its pending entry behind
  (`handlematrix.go:113`): allowed by `PendingExact`;
- when the removal of a reaction fails, the row stays and the Matrix event is
  gone, and since rows and Teams agree no sync repairs the room
  (`handlematrix.go:246`): `mishap` in `RoomIsRows` and `RoomFollowsTeams`, which
  is also set when a reaction is made on both sides at once and bridgev2 refuses
  the Matrix event as a duplicate, and so leaves it without a row; and a page
  fetched before a reaction and applied after it takes the reaction away until the
  next page: `stale` in `OnlyStalePagesUndo`;
- a chat whose only other person has no name, but with a ghost of the user in
  its lists, is named after the user (`conversation.go:113`, the fallback):
  `misnamed` asks for the name of a person only if there is one;
- of two overlapping polls that compare before either writes, the slower one can
  move the stored horizon back: `overlapped` in `MonotonicPersistence`.

### Bounds

Two pollers, handlers, callers, senders or controllers are enough for every
race, since each shares its state pairwise (three loops in `sync`, where a third
one matters; the proofs cover the rest). Three messages with a page of two
(`ingest_faults`) let a message be pushed off, be in the queue and be new at
once; a queue of two holds events of both pollers, and in `ingest_relay` a queue
of one makes pollers wait. Other people's messages are in both runs, system
messages in the second; messages without an id are left to the proofs. One crash
and one rejected event occur at any point. In `login` three refresh tokens let
one rotate in the login and another in use, in any of the exchanges.
`poll_overflow` has the code's own durations (in ticks of 100 ms) and the 34
failures it takes to overflow. `poll` scales the clock down but keeps the order
of the delays and lets a pass outlast the base delay; one thread may fail 37 times
in a row, when the scaled delay has overflowed, or recover after any number, the
other twice. The properties speak of up to 32 failures, a bound that holds for
every base delay the ASSUME allows.
Its conversations are all sequences of up to three entries out of eleven: the
user under three ids and a ghost, two people, one of them also without a prefix,
a name or an id, a bot, a namesake. The executor has its real retries and
delays. In `horizon` two read positions, the older and the newer, and a pass as
long as the throttle's interval are enough for every order of two polls. In
`attach` the sizes are empty, small, two chunks and too large; chunks may be kept
in part, which makes them three. Of three ids the typist may draw all, before its
file or without one, and the other sender one; the clock reads two values in any
order. In `reactions` one
other user, the two pairs of the table that share an emoji, whose first loses it, and three
changes, on either side, allow one to be made between a page and its sync and
another to be taken back; one poller, one restart. The queue of three holds a sync, a reaction
and its redaction at once, and three ids for each reaction are as many as its
events in room, rows and queue can need. Bounds on
messages, loops, tokens, calls, changes, failures and crashes are constants with
a comment `bound:`.

Deadlock checking is off where the bounds, a returned loop, a finished login or
a send that is over, stop the model.

### Fairness

- `RequestExecutor`, `PollScheduler`, the steps of `InboundReceipts`,
  `SyncLifecycle`'s goroutines: weak fairness of a step that stays
  enabled (the Go scheduler runs goroutines, timers fire, the HTTP client has a
  timeout).
- `ThreadIngest`: strong fairness of the fetch and of queueing, because the loop
  retries for ever and the queue keeps draining: one success among infinitely
  many attempts is assumed of the network. `InboundReceipts` assumes the same of
  its fetch and its write, and `ReactionSync` of its fetch, its queueing and
  bridgev2's draining of the queue; nobody has to react.
- `DeviceCodeLogin`: requests end, an armed timer fires, a code expires (neither
  the user nor Cancel has to do anything); a caller waiting for `authMu` gets it
  (Go mutexes are starvation-free).
- `ReadReceipts` states safety only and assumes nothing.
- `AttachmentSend`: a session that is asked again and again in the end keeps
  some bytes and names the range it wants. The chunk loop has no bound of its
  own, so without this the send need not end. Of the id generator only weak
  fairness of a step is asked: a lost swap means that another send has its id.

## 4. Proofs

TLAPS proves, for all values of the constants that satisfy the named ASSUMEs:

- `AttachmentSendProofs`, the generator: `UniqueIDsHolds`, `FreshIDsHolds`. The
  inductive invariant of `ClientMessageID` adds to the types that every issued id is at most the counter and
  that a candidate about to be swapped in lies above the value it loaded; a swap
  succeeds only if the counter still has that value, so the new id is above all
  others.
- `ThreadIngestProofs`:
  - `TypeCorrect`: the type invariant.
  - `NothingSkipped`: `NoMessageSkipped` is not inductive, since a poller writes
    a cursor it computed earlier. `SkipInv` adds that everything up to the
    cursor each poller read, and up to the message it looks at next, is
    accounted for (`PollersCovered`), and that pollers stay inside the thread.
    `StepAccounted` and `StepCovered` show that accounted messages stay so.
  - `EchoesConfirmed`: `EchoInv` adds that a client id occurs at most once in
    the thread, that one still in flight does not occur, and that an accepted
    message whose echo is not bridged has its pending entry until the send fails
    or a crash erases it (`AwaitingEcho`).
  - `MessagesInOrder`: `BridgedInOrder` rests on `OrderInv`: what comes before a
    bridged message is bridged or given up (`RoomClosed`), what comes before a
    queued one is over or queued before it (`QueueClosed`), and all up to a
    poller's position is over or queued (`PollersSettled`). A message is given up
    if a crash took it from the queue and every cursor that is, or may yet be,
    read lies above it (`GivenUp`, stable by `StepGivenUp`). The head of the queue
    then lies above everything bridged (`BridgedGrows`). `OrderInv` was
    model-checked on the instances of the ingest runs before it was proved.
  - `CursorMovesBack`: the action property `OnlyStalePollsMoveBack`.
  - `RelaysStepByStep`: if a page holds the whole thread and nothing crashes or
    is rejected (`NoFaults`), every step of `ThreadIngest` is a step of
    `MessageRelay` or a stutter, by the same invariant. That messages are relayed
    in the end is left to the run `ingest_relay`.

- `AttachmentSendProofs`, the sends: `SendsUseGenerator` shows that AttachmentSend implements
  `ClientMessageID` step by step, so `SendsUniqueIDs` and `SendsFreshIDs` follow
  from its theorems. `PendingExactHolds` needs `OwnID`: from registration on the
  id of a send is one the generator issued to it, hence nobody else's, and every
  request posts under it; dropping it on failure then touches no other send.
  `PostedFilesAreUsable` needs `FileInv`: a session holds the beginning of its
  sender's file (`SessionsBegin`, kept by a chunk of which any part is taken:
  `KeptBegins`), so what it stores when it has all the bytes is the file
  (`BeginsWhole`); items of the drive are never changed, and once a sender has
  been told of one it is its file (`ItemsWhole`); the owner of a message is
  unique, since ids are.
- `SyncLoopProofs`, lifecycle: `NoLoopEscapes`, `RegisteredLoopPolls`,
  `DoneChannelsSound`. `LoopInv` adds that loops are numbered in the order they
  start and that a loop taken by a stop, or cancelled, is registered no more
  (`Taken`). `DoneInv` adds that until a stop beats a goroutine, a loop that has
  not run yet is the registered one, so its defer statement reads its own
  channel.
- `SyncLoopProofs`, schedule:
  - `LoopIsOnTime`, `DelaysAreBounded`, `ExponentialUntilOverflow`, for all
    constants. `OnTime` speaks of the time after a sleep, so `PaceInv` adds what
    makes the sleep short enough: within a pass the next wake-up is capped and no
    later than the time of any thread that was handled, and discovery is ahead
    (`Handled`). The sleep is capped whatever the delays are, so an overflow wakes
    the loop early, never late. What is said of a thread's delay is said up to
    `LastExact` failures in a row: beyond, the shift overflows and the delay turns
    negative, as the
    run `poll_overflow` shows. `ShiftIsDelay` treats each
    shift up to the cap for itself, as the products are not linear.
  - `NoDirectChatMisnamed`: `resolveDMName` and `isLikelyOneToOne` go over the
    same lists with different rules. The first entry with a name that is not the
    user's has an id or that name, so it is one that `isLikelyOneToOne` counted
    (`DirectChatName`), and there is a first one (`FirstPlace`).
- `DeviceCodeLoginProofs`: `LoginTypeCorrect`, `NoRefreshTwice`, `LogoutIsFinal`,
  `RotationNeverLost`, `GraphTokenIsKept`. `OnlyReceived` says that
  nothing is newer than what answers have brought, so an answer that rotates the
  token and is kept holds the newest and makes up for one that was lost (`Kept`).
  `TokenInv` adds that exactly the caller whose requests are
  out holds `authMu` (`MutexHeld`), that what it sent is still the token in memory
  (`SentNewest`), that the newest token is in the row, unsaved, or about to be
  written by that caller (`NewestHeld`), that the login's draft holds the newest
  (`DraftNewest`), and that a logout that met nobody leaves nothing to start from
  (`LogoutQuiet`). `GraphTokenIsKept` is about steps: those of a caller keep the
  token (`CallerKeepsGraph`), those of the login come before any call
  (`LoginFrame`), and time, a logout and a crash are no steps of a call.
- `RequestExecutorProofs`: `CancelStopsCall`, `BodiesAreClosed`,
  `WritesAreBounded`, `RetriesAreBounded`, `ShippedRetriesAreBounded`. That Do
  makes at most one attempt more than its limit holds for all constants. The jitter
  is added after the delay was cut to the cap, so the delays stay within the cap
  only for limits that end the call before they come near it: `JitterFits` says
  so of the constants, and holds for the ones that `NewClient` ships (`Shipped`:
  four retries, 500 ms, 10 s).
- `ReactionSyncProofs`: `ReactionTypeCorrect`, `TruePagesUndoNothing`,
  `TruePagesSettleRows` (a sync of a true page leaves the rows as Teams has it, if it was
  queued for the id that the row has, and otherwise changes nothing),
  `RoomFollowsRows`. A sync takes
  away what its event does not list, so `Inv` adds that every page and every queued
  event that is not marked stale lists what Teams has (`Fresh`: `FreshPages`,
  `FreshEvents`). Each change in Teams marks the pages and events under way
  (`TeamsBecomesFresh`); a page that becomes an event passes its mark on
  (`QueueGrows`, `QueueShrinks`). The emoji table may be any: `Greatest` shows that
  a key that occurs in it has a last place, the one that counts. That rows and room
  hold the same events (`RoomIsRows`) needs `RoomInv`: an event waiting to be redacted
  is not in the room and one waiting to be stored has no row (`AheadOfRows`), and an
  event is queued at most once as a reaction and after that at most once as a
  redaction (`InOrder`), so the handler of one does not undo what another did. A new
  event is none that rows, room or queue know (`NewEventIsNew`).
- `ReadReceiptsProofs`: `OneReceiptPerCycle`, `ReceiptsReachTeams`.
  `CycleInv` adds that an open cycle has had no receipt and
  that, once one went out, Teams has the marked message or a request under way
  will give it (`CycleCovered`).
- `InboundReceiptsProofs`: `ReceiptsOnlyAdvance`, `PersistenceIsMonotonic`.
  `HorizonInv` adds that, unless two polls compared before either wrote, one poll
  at most is about to write and with a later position (`Alone`), and that what
  was sent is stored or about to be (`SentStored`).

Each theorem rests on the named ASSUMEs of its module: bounds are natural
numbers, `NoCaller` and `NoCid` are nobody, clock readings and sizes are natural
numbers, passes have a longest one, lists have a length, and an id that is there
is not empty once its prefix is taken away. TLC evaluates them in the runs. Three
hypotheses on the constants are used besides, each by the theorems named with it:
`JitterFits`, `Shipped` and `NoFaults`. The inductive invariants
`OrderInv`, `PaceInv`, and `Inv` and `RoomInv` of `ReactionSyncProofs`, were
model-checked on the instances of the runs before they were proved. Type
invariants that a theorem states for all constants are not checked again by a run.

Only model-checked: liveness (`CallsReturn`, `LoginEnds`, `CancelledLoopEnds`,
`KeepsPolling`, `DoReturns`, `ReceiptArrives`, `SendEnds`, `RowsFollowTeams`,
`RoomFollowsTeams`, `QuietWhenEmpty` and that part of `RelaySpec`), which is
beyond the prover, as are ENABLED and what a recursive definition computes. Every
safety property that a passing run checks is stated by a theorem, the safety part of
`RelaySpec` by `RelaysStepByStep`. Where a proof needs a first or a last element,
it comes from the library's well-founded orders (`WFMin`).

## 5. Not modelled

- Message conversion, HTML, GIF and attachment parsing: string processing without
  state; inbound file download, one request through the executor.
- CompareSequenceID's fallback to texts: Teams' sequence ids are numbers.
- The profile cache: one upsert, the last writer wins.
- The state file, cookies and MSAL import of the developer tools: formats, one
  process.
- Chat info for bridgev2 beyond name and kind of chat, typing notifications
  beyond their id and their request, configuration, schema and wiring.
- In the modelled parts: bridgev2's replacement of a login that already exists,
  the length of the polling interval of a login, uint64 wrap-around of ids, time
  spans between the expiry of a Graph token and an upload that captured it.

## 6. Plan

Done, in this order: ThreadIngest, ClientMessageID, TokenRefresh, SyncLifecycle,
PollScheduler, ReadReceipts, RequestExecutor, InboundReceipts, AttachmentSend,
then ReactionSync, DeviceCodeLogin with TokenRefresh on its row, ClientMessageID
within AttachmentSend, Conversation within PollScheduler, and proofs about all of
them.

Next theorems: that in `ReactionSync` the rows differ from Teams only while a
change, a page or an event is under way or the queue was lost (the safety half of
`RowsFollowTeams`). Next compositions: ReadReceipts with ThreadIngest (a receipt's
"now" covers messages that were never polled), SyncLifecycle with PollScheduler.
