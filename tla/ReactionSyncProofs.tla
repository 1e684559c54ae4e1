-------------------------- MODULE ReactionSyncProofs --------------------------
(* Proofs about reaction syncs, for any number of sync loops and users and any *)
(* emoji table: the types, that a page that is still true undoes nothing, and  *)
(* that room and rows stay together.  What the second needs is that staleness  *)
(* is tracked exactly enough: a page or a sync event that is not marked stale  *)
(* shows what Teams has now.                                                   *)
EXTENDS ReactionSync, SequenceTheorems, WellFoundedInduction, TLAPS

Page == [pc : {"idle", "message", "react"},
         page : SUBSET Reactions, stale : BOOLEAN]

\* TypeOK with the queue as a sequence; bridgev2 is between a handler's request
\* and its row only while the handler's event is at the head.
Typed ==
    /\ TypeOK
    /\ queue \in Seq(Event)
    /\ answered => queue # <<>>

\* What is not marked stale is what Teams has.
FreshPages ==
    \A p \in Pollers :
        poll[p].pc # "idle" /\ ~poll[p].stale => poll[p].page = teams

FreshEvents ==
    \A i \in 1..Len(queue) :
        queue[i].kind = "sync" /\ ~queue[i].stale => queue[i].data = Shown

Fresh == FreshPages /\ FreshEvents
------------------------------------------------------------------------------
\* A set of numbers up to n has a greatest one.
LEMMA Greatest ==
    ASSUME NEW n \in Nat, NEW T \in SUBSET (1..n), T # {}
    PROVE  \E x \in T : \A y \in T : y <= x
<1> DEFINE Below == {n - x : x \in T}
           Less  == {ss \in Nat \X Nat : ss[1] < ss[2]}
<1>1. IsWellFoundedOn(Less, Nat)
  BY NatLessThanWellFounded DEF OpToRel
<1>2. Below \subseteq Nat /\ Below # {}
  <2>1. \A x \in T : n - x \in Nat
    OBVIOUS
  <2>2. PICK x \in T : TRUE
    OBVIOUS
  <2>3. n - x \in Below
    OBVIOUS
  <2> QED
    BY <2>1, <2>3
<1>3. PICK m \in Below : \A k \in Below : ~(<<k, m>> \in Less)
  <2> HIDE DEF Below, Less
  <2> QED
    BY <1>1, <1>2, WFMin
<1>4. PICK x \in T : m = n - x
  OBVIOUS
<1>5. ASSUME NEW y \in T PROVE y <= x
  <2>1. n - y \in Below
    OBVIOUS
  <2>2. ~(<<n - y, m>> \in Less)
    BY <2>1, <1>3
  <2> QED
    BY <2>2, <1>4
<1> QED
  BY <1>5

\* An emoji stands for a key of the table, the one of its last pair.
LEMMA MappedKeysType == MappedKeys \subseteq Keys
<1> DEFINE Pairs(e) == {i \in 1..Len(EmotionTable) : EmotionTable[i][1] = e}
           IsLast(e, i) == /\ EmotionTable[i][1] = e
                           /\ \A j \in 1..Len(EmotionTable) :
                                 EmotionTable[j][1] = e => j <= i
<1> SUFFICES ASSUME NEW e \in {EmotionTable[i][1] : i \in 1..Len(EmotionTable)}
             PROVE  emojiToEmotionKey[e] \in Keys
  BY DEF MappedKeys, emojiToEmotionKey
<1>1. Pairs(e) \in SUBSET (1..Len(EmotionTable)) /\ Pairs(e) # {}
  OBVIOUS
<1>2. \E i \in 1..Len(EmotionTable) : IsLast(e, i)
  <2>1. PICK i \in Pairs(e) : \A j \in Pairs(e) : j <= i
    <3> HIDE DEF Pairs
    <3> QED
      BY <1>1, TableAssumption, Greatest
  <2> QED
    BY <2>1
<1>3. (CHOOSE i \in 1..Len(EmotionTable) : IsLast(e, i)) \in 1..Len(EmotionTable)
  BY <1>2
<1> QED
  BY <1>3 DEF emojiToEmotionKey, Keys

------------------------------------------------------------------------------
\* The shapes of the queue's events.
LEMMA Shape ==
    ASSUME NEW e \in Event
    PROVE  /\ e.kind \in {"message", "sync", "add", "remove"}
           /\ e.stale \in BOOLEAN
           /\ e.kind \in {"message", "sync"} => e.data \in SUBSET Reactions
           /\ e.kind \in {"add", "remove"} => e.data \in Sent /\ e.data[1] \in Reactions
<1> DEFINE Messages == [kind : {"message"}, data : {{}}, stale : BOOLEAN]
           Syncs    == [kind : {"sync"}, data : SUBSET Reactions, target : MessageIDs,
                        stale : BOOLEAN]
           Own   == [kind : {"add", "remove"}, data : Sent, stale : BOOLEAN]
<1>1. CASE e \in Messages
  BY <1>1
<1>2. CASE e \in Syncs
  BY <1>2
<1>3. CASE e \in Own
  BY <1>3 DEF Sent
<1> QED
  BY <1>1, <1>2, <1>3 DEF Event

LEMMA MarkedShape ==
    ASSUME NEW e \in Event
    PROVE  LET m == [e EXCEPT !.stale = TRUE]
           IN  m \in Event /\ m.stale /\ m.kind = e.kind /\ m.data = e.data
<1>1. CASE e \in [kind : {"message"}, data : {{}}, stale : BOOLEAN]
  BY <1>1 DEF Event
<1>2. CASE e \in [kind : {"sync"}, data : SUBSET Reactions, target : MessageIDs,
                  stale : BOOLEAN]
  BY <1>2 DEF Event
<1>3. CASE e \in [kind : {"add", "remove"}, data : Sent, stale : BOOLEAN]
  BY <1>3 DEF Event
<1> QED
  BY <1>1, <1>2, <1>3 DEF Event

LEMMA MessageShape ==
    ASSUME NEW b \in BOOLEAN
    PROVE  [kind |-> "message", data |-> {}, stale |-> b] \in Event
BY DEF Event

\* A sync event says what the page shows that can be bridged.
LEMMA SyncShape ==
    ASSUME NEW p \in Pollers, poll[p] \in Page, NEW target \in MessageIDs
    PROVE  /\ SyncEvent(p, target) \in Event
           /\ SyncEvent(p, target).kind = "sync"
           /\ SyncEvent(p, target).data = buildReactionSyncData(poll[p].page)
           /\ SyncEvent(p, target).stale = poll[p].stale
BY DEF SyncEvent, Event, Page, buildReactionSyncData

\* The ids that a sync can be queued for.
LEMMA TargetShape ==
    ASSUME rowID \in MessageIDs
    PROVE  Target \in MessageIDs /\ "remote" \in MessageIDs
BY DEF Target, MessageIDs

LEMMA MatrixShape ==
    ASSUME NEW k \in {"add", "remove"}, NEW d \in Sent, NEW b \in BOOLEAN
    PROVE  [kind |-> k, data |-> d, stale |-> b] \in Event
BY DEF Event

\* A new Matrix event is one that nothing refers to.
LEMMA NewEventIsNew ==
    ASSUME NEW r \in Reactions, Unused(r) # {}
    PROVE  /\ NewEvent(r) \in Sent /\ NewEvent(r)[1] = r
           /\ NewEvent(r) \notin room \cup rows \cup Queued({"add", "remove"})
BY DEF NewEvent, Unused, Sent

------------------------------------------------------------------------------
\* What the portal queue's operations do to it.
LEMMA Appended ==
    ASSUME NEW q \in Seq(Event), NEW e \in Event
    PROVE  /\ Append(q, e) \in Seq(Event)
           /\ Len(Append(q, e)) = Len(q) + 1
           /\ \A i \in 1..Len(q) : Append(q, e)[i] = q[i]
           /\ Append(q, e)[Len(q) + 1] = e
           /\ Append(q, e) # <<>>
           /\ q # <<>> => Head(Append(q, e)) = Head(q)
           /\ q # <<>> => Append(q, e) # Tail(q)
<1>1. /\ Append(q, e) \in Seq(Event)
      /\ Len(Append(q, e)) = Len(q) + 1
      /\ \A i \in 1..Len(q) : Append(q, e)[i] = q[i]
      /\ Append(q, e)[Len(q) + 1] = e
  BY AppendProperties
<1>2. Len(q) \in Nat
  OBVIOUS
<1>3. Append(q, e) # <<>>
  BY <1>1, <1>2
<1>4. ASSUME q # <<>> PROVE Head(Append(q, e)) = Head(q) /\ Append(q, e) # Tail(q)
  <2>1. Head(q) = q[1] /\ Len(Tail(q)) = Len(q) - 1 /\ 1 \in 1..Len(q)
    BY <1>4, <1>2, HeadTailProperties
  <2>2. Head(Append(q, e)) = Append(q, e)[1]
    BY <1>1, <1>3, HeadTailProperties
  <2> QED
    BY <2>1, <2>2, <1>1, <1>2
<1> QED
  BY <1>1, <1>3, <1>4

LEMMA Removed ==
    ASSUME NEW q \in Seq(Event), q # <<>>
    PROVE  /\ Head(q) \in Event /\ Head(q) = q[1] /\ 1 \in 1..Len(q)
           /\ Tail(q) \in Seq(Event)
           /\ Len(Tail(q)) = Len(q) - 1
           /\ \A i \in 1..Len(Tail(q)) : i + 1 \in 1..Len(q) /\ Tail(q)[i] = q[i + 1]
<1>1. Len(q) \in Nat /\ Len(q) # 0
  OBVIOUS
<1>2. /\ Head(q) \in Event /\ Tail(q) \in Seq(Event)
      /\ Len(Tail(q)) = Len(q) - 1
      /\ Head(q) = q[1]
      /\ \A i \in 1..Len(Tail(q)) : Tail(q)[i] = q[i + 1]
  BY HeadTailProperties
<1> QED
  BY <1>1, <1>2

MarkedStale(q) == [i \in 1..Len(q) |-> [q[i] EXCEPT !.stale = TRUE]]

LEMMA Marked ==
    ASSUME NEW q \in Seq(Event)
    PROVE  /\ MarkedStale(q) \in Seq(Event)
           /\ Len(MarkedStale(q)) = Len(q)
           /\ \A i \in 1..Len(q) : /\ MarkedStale(q)[i].stale
                                   /\ MarkedStale(q)[i].kind = q[i].kind
                                   /\ MarkedStale(q)[i].data = q[i].data
           /\ q # <<>> => /\ MarkedStale(q) # <<>>
                          /\ Head(MarkedStale(q)).kind = Head(q).kind
<1>1. Len(q) \in Nat
  OBVIOUS
<1>2. \A i \in 1..Len(q) : q[i] \in Event
  BY ElementOfSeq
<1>3. \A i \in 1..Len(q) : /\ MarkedStale(q)[i] \in Event
                            /\ MarkedStale(q)[i].stale
                            /\ MarkedStale(q)[i].kind = q[i].kind
                            /\ MarkedStale(q)[i].data = q[i].data
  BY <1>2, MarkedShape DEF MarkedStale
<1>4. MarkedStale(q) \in Seq(Event) /\ Len(MarkedStale(q)) = Len(q)
  BY <1>1, <1>3 DEF MarkedStale
<1>5. ASSUME q # <<>>
      PROVE  /\ MarkedStale(q) # <<>>
             /\ Head(MarkedStale(q)).kind = Head(q).kind
  <2>1. Head(q) = q[1] /\ 1 \in 1..Len(q)
    BY <1>5, Removed
  <2>2. MarkedStale(q) # <<>>
    BY <2>1, <1>1, <1>4
  <2>3. Head(MarkedStale(q)) = MarkedStale(q)[1]
    BY <2>2, <1>4, Removed
  <2> QED
    BY <2>1, <2>2, <2>3, <1>3
<1> QED
  BY <1>3, <1>4, <1>5

------------------------------------------------------------------------------
Inv == Typed /\ Fresh

\* The events of q are as true as the queue's.
TrueEvents(q) ==
    \A i \in 1..Len(q) : q[i].kind = "sync" /\ ~q[i].stale => q[i].data = Shown

\* When Teams' reactions change, everything fetched before becomes stale.
LEMMA TeamsBecomesFresh ==
    ASSUME Inv, NEW new \in SUBSET Reactions, NEW q \in Seq(Event), TrueEvents(q),
           TeamsBecomes(new, q)
    PROVE  /\ teams' \in SUBSET Reactions
           /\ poll' \in [Pollers -> Page]
           /\ queue' \in Seq(Event)
           /\ q # <<>> => queue' # <<>> /\ Head(queue').kind = Head(q).kind
           /\ Fresh'
<1>1. CASE new = teams
  BY <1>1 DEF TeamsBecomes, Inv, Typed, TypeOK, Page, Fresh, FreshPages,
              FreshEvents, TrueEvents, Shown
<1>2. CASE new # teams
  <2>1. /\ teams' = new
        /\ queue' = MarkedStale(q)
        /\ poll' = [p \in Pollers |-> [poll[p] EXCEPT !.stale = poll[p].pc # "idle"]]
    BY <1>2 DEF TeamsBecomes, MarkedStale
  <2>2. poll \in [Pollers -> Page]
    BY DEF Inv, Typed, TypeOK, Page
  <2>3. \A p \in Pollers : /\ poll'[p] \in Page
                           /\ poll'[p].pc # "idle" => poll'[p].stale
    BY <2>1, <2>2 DEF Page
  <2>4. FreshPages'
    BY <2>3 DEF FreshPages
  <2>5. FreshEvents'
    BY <2>1, Marked DEF FreshEvents
  <2>6. poll' \in [Pollers -> Page]
    BY <2>1, <2>3
  <2> QED
    BY <2>1, <2>4, <2>5, <2>6, Marked DEF Fresh
<1> QED
  BY <1>1, <1>2

\* A step that adds one event, true if it is a sync, to the queue, or none.
LEMMA QueueGrows ==
    ASSUME Inv, NEW e \in Event, e.kind = "sync" /\ ~e.stale => e.data = Shown,
           queue' = Append(queue, e) \/ queue' = queue, UNCHANGED teams
    PROVE  /\ queue' \in Seq(Event)
           /\ queue # <<>> => queue' # <<>> /\ Head(queue') = Head(queue)
           /\ FreshEvents'
<1>1. queue \in Seq(Event) /\ Len(queue) \in Nat /\ FreshEvents
  BY DEF Inv, Typed, Fresh
<1>2. Shown' = Shown
  BY DEF Shown
<1>3. CASE queue' = Append(queue, e)
  <2>1. \A i \in 1..Len(queue') : i \in 1..Len(queue) \/ i = Len(queue) + 1
    BY <1>1, <1>3, Appended
  <2> QED
    BY <1>1, <1>2, <1>3, <2>1, Appended DEF FreshEvents
<1>4. CASE queue' = queue
  BY <1>1, <1>2, <1>4 DEF FreshEvents
<1> QED
  BY <1>3, <1>4

\* The head of the queue is taken.
LEMMA QueueShrinks ==
    ASSUME Inv, queue # <<>>
    PROVE  /\ Head(queue) \in Event
           /\ Tail(queue) \in Seq(Event)
           /\ TrueEvents(Tail(queue))
           /\ Kind = "sync" /\ ~Head(queue).stale => Data = Shown
BY Removed DEF Inv, Typed, Fresh, FreshEvents, TrueEvents, Kind, Data

\* The events of a well-typed queue are well typed.
LEMMA TypedEvents ==
    ASSUME NEW q \in Seq(Event) PROVE \A i \in 1..Len(q) : q[i] \in Event
BY ElementOfSeq

------------------------------------------------------------------------------
PollerStep(p) ==
    \/ Fetch(p) \/ QueueMessage(p)
    \/ \E target \in MessageIDs : QueueReactionsFor(p, target)
    \/ RowsUnreadable(p)

\* Whichever id a sync is queued for, its target is one of the two.
LEMMA PollerSteps ==
    ASSUME Inv, NEW p \in Pollers,
           \/ Fetch(p) \/ QueueMessage(p)
           \/ QueueReactions(p) \/ QueueReactionsBlindly(p)
           \/ RowsUnreadable(p)
    PROVE  PollerStep(p)
<1>1. Target \in MessageIDs /\ "remote" \in MessageIDs
  BY TargetShape DEF Inv, Typed, TypeOK
<1> QED
  BY <1>1 DEF PollerStep, QueueReactions, QueueReactionsBlindly

\* A poller's steps.
LEMMA PollerInv ==
    ASSUME Inv, NEW p \in Pollers,
           PollerStep(p)
    PROVE  Inv'
<1> USE DEF messageVars, limits
<1>1. /\ queue \in Seq(Event) /\ poll \in [Pollers -> Page]
      /\ teams \in SUBSET Reactions /\ poll[p] \in Page
      /\ \A i \in 1..Len(queue) : queue[i] \in Event
  BY TypedEvents DEF Inv, Typed, TypeOK, Page
<1>2. UNCHANGED <<teams, rows, room, answered, onPage, mishap, changes, crashes, known, rowID>>
  BY DEF PollerStep, Fetch, QueueMessage, QueueReactionsFor, Synced, RowsUnreadable
<1>3. Shown' = Shown
  BY <1>2 DEF Shown
<1>4. SUFFICES /\ ingested' \in BOOLEAN /\ seen' \subseteq {"remote"}
               /\ poll' \in [Pollers -> Page] /\ FreshPages'
               /\ queue' \in Seq(Event) /\ FreshEvents'
               /\ queue # <<>> => queue' # <<>> /\ Head(queue') = Head(queue)
  BY <1>2, TypedEvents DEF Inv, Typed, TypeOK, Fresh, Page, Kind
<1>5. CASE Fetch(p)
  <2>1. poll'[p] = [pc |-> poll'[p].pc, page |-> teams, stale |-> FALSE]
    BY <1>1, <1>5 DEF Fetch
  <2> QED
    BY <1>1, <1>2, <1>3, <1>5, <2>1
       DEF Fetch, Inv, Typed, TypeOK, Fresh, FreshPages, FreshEvents, Page
<1>6. CASE QueueMessage(p)
  <2> DEFINE e == [kind |-> "message", data |-> {}, stale |-> poll[p].stale]
  <2>1. e \in Event /\ e.kind # "sync"
    BY <1>1, MessageShape DEF Page
  <2>2. queue' = Append(queue, e)
    BY <1>6 DEF QueueMessage
  <2>3. /\ queue' \in Seq(Event) /\ FreshEvents'
        /\ queue # <<>> => queue' # <<>> /\ Head(queue') = Head(queue)
    BY <2>1, <2>2, <1>2, QueueGrows
  <2>4. \A r \in Pollers : poll[r].stale = poll'[r].stale /\ poll[r].page = poll'[r].page
    BY <1>1, <1>6 DEF QueueMessage, Page
  <2>5. poll[p].pc = "message"
    BY <1>6 DEF QueueMessage
  <2>6. poll' \in [Pollers -> Page] /\ FreshPages'
    BY <1>1, <1>2, <1>6, <2>4, <2>5 DEF QueueMessage, Page, FreshPages, Inv, Fresh
  <2> QED
    BY <1>6, <2>3, <2>6 DEF QueueMessage, Inv, Typed, TypeOK
<1>7. ASSUME NEW target \in MessageIDs, QueueReactionsFor(p, target)
      PROVE  /\ ingested' \in BOOLEAN /\ seen' \subseteq {"remote"}
             /\ poll' \in [Pollers -> Page] /\ FreshPages'
             /\ queue' \in Seq(Event) /\ FreshEvents'
             /\ queue # <<>> => queue' # <<>> /\ Head(queue') = Head(queue)
  <2> DEFINE e == SyncEvent(p, target)
  <2>1. e \in Event /\ e.kind = "sync"
    BY <1>1, SyncShape
  <2>2. ~e.stale => e.data = Shown
    <3>1. e.stale = poll[p].stale /\ e.data = buildReactionSyncData(poll[p].page)
      BY <1>1, SyncShape
    <3>2. poll[p].pc = "react"
      BY <1>7 DEF QueueReactionsFor, Synced
    <3>3. ~poll[p].stale => poll[p].page = teams
      BY <3>2 DEF Inv, Fresh, FreshPages
    <3> HIDE DEF e
    <3> QED
      BY <3>1, <3>3 DEF buildReactionSyncData, Shown
  <2>3. queue' = Append(queue, e) \/ queue' = queue
    BY <1>7 DEF QueueReactionsFor, Synced
  <2>4. /\ queue' \in Seq(Event) /\ FreshEvents'
        /\ queue # <<>> => queue' # <<>> /\ Head(queue') = Head(queue)
    <3> HIDE DEF e
    <3> QED
      BY <2>1, <2>2, <2>3, <1>2, QueueGrows
  <2>5. poll' = [poll EXCEPT ![p] = Idle]
    BY <1>7 DEF QueueReactionsFor, Synced
  <2>6. poll' \in [Pollers -> Page] /\ FreshPages'
    BY <1>1, <1>2, <2>5 DEF Page, Idle, FreshPages, Inv, Fresh
  <2>7. ingested' \in BOOLEAN /\ seen' \subseteq {"remote"}
    BY <1>7 DEF QueueReactionsFor, Synced, Inv, Typed, TypeOK
  <2> QED
    BY <2>4, <2>6, <2>7
<1>8. CASE RowsUnreadable(p)
  <2>1. poll' = [poll EXCEPT ![p] = Idle]
    BY <1>8 DEF RowsUnreadable
  <2>2. poll' \in [Pollers -> Page] /\ FreshPages'
    BY <1>1, <1>2, <2>1 DEF Page, Idle, FreshPages, Inv, Fresh
  <2> QED
    BY <1>1, <1>3, <1>8, <2>2 DEF RowsUnreadable, Inv, Typed, TypeOK, Fresh, FreshEvents
<1> QED
  BY <1>5, <1>6, <1>7, <1>8 DEF PollerStep

\* bridgev2's steps that take the head of the queue and change nothing in Teams.
LEMMA HandlerInv ==
    ASSUME Inv, HandleMessage \/ HandleSync \/ HandlerIgnores \/ Record
    PROVE  Inv'
<1> USE DEF messageVars, limits, Pending
<1>1. queue # <<>>
  BY DEF HandleMessage, HandleSync, HandlerIgnores, Record, Inv, Typed
<1>2. /\ queue' = Tail(queue)
      /\ UNCHANGED <<teams, ingested, rowID, seen, poll, onPage, changes, crashes>>
  BY DEF HandleMessage, HandleSync, HandlerIgnores, Record
<1>3. answered' = FALSE
  BY DEF HandleMessage, HandleSync, HandlerIgnores, Record, Inv, Typed, TypeOK
<1>4. queue' \in Seq(Event) /\ Fresh'
  BY <1>1, <1>2, QueueShrinks
     DEF Fresh, FreshPages, FreshEvents, TrueEvents, Shown, Inv
<1>5. Head(queue) \in Event
  BY <1>1, QueueShrinks
<1>6. rows' \subseteq Sent /\ room' \subseteq Sent
  <2>1. rows \subseteq Sent /\ room \subseteq Sent
    BY DEF Inv, Typed, TypeOK
  <2>2. CASE HandleMessage \/ HandlerIgnores
    BY <2>1, <2>2 DEF HandleMessage, HandlerIgnores
  <2>3. CASE HandleSync
    <3>1. Data \in SUBSET Reactions
      <4>1. Kind = "sync"
        BY <2>3 DEF HandleSync
      <4> QED
        BY <4>1, <1>5, Shape DEF Data, Kind
    <3>2. Applies => \A r \in Data \ Shows(rows) : NewEvent(r) \in Sent
      BY <2>3, <3>1, NewEventIsNew DEF HandleSync
    <3> QED
      BY <2>1, <2>3, <3>2 DEF HandleSync
  <2>4. CASE Record
    <3>1. Kind \in {"add", "remove"}
      BY <2>4 DEF Record, Inv, Typed, TypeOK
    <3>2. Data \in Sent
      BY <3>1, <1>5, Shape DEF Data, Kind
    <3> QED
      BY <2>1, <2>4, <3>2 DEF Record, With
  <2> QED
    BY <2>2, <2>3, <2>4
<1>7. \A i \in 1..Len(queue') : queue'[i] \in Event
  BY <1>4, TypedEvents
<1>8. known' \in BOOLEAN /\ mishap' \in BOOLEAN
  BY DEF HandleMessage, HandleSync, HandlerIgnores, Record, Inv, Typed, TypeOK
<1> QED
  BY <1>2, <1>3, <1>4, <1>6, <1>7, <1>8 DEF Inv, Typed, TypeOK

\* The steps that may change what Teams has.
LEMMA TeamsInv ==
    ASSUME Inv, Request \/ RequestFails \/ TeamsUser
    PROVE  Inv'
<1> USE DEF messageVars, limits, Pending
<1> DEFINE Outcome(new, q) == /\ new \in SUBSET Reactions /\ q \in Seq(Event)
                              /\ TrueEvents(q) /\ TeamsBecomes(new, q)
                              /\ answered' => q # <<>> /\ Head(q).kind \in {"add", "remove"}
<1>1. queue \in Seq(Event) /\ TrueEvents(queue) /\ teams \in SUBSET Reactions
  BY DEF Inv, Typed, TypeOK, Fresh, FreshEvents, TrueEvents
<1>2. /\ UNCHANGED <<rows, room, ingested, known, rowID, seen, onPage, crashes>>
      /\ mishap' \in BOOLEAN /\ changes' \in Nat /\ answered' \in BOOLEAN
  <2>1. /\ mishap \in BOOLEAN /\ changes \in Nat /\ answered \in BOOLEAN
    BY DEF Inv, Typed, TypeOK
  <2>2. CASE Request
    BY <2>1, <2>2 DEF Request
  <2>3. CASE RequestFails
    BY <2>1, <2>3 DEF RequestFails
  <2>4. CASE TeamsUser
    BY <2>1, <2>4 DEF TeamsUser
  <2> QED
    BY <2>2, <2>3, <2>4
<1>3. \E new, q : Outcome(new, q)
  <2>1. ASSUME Requesting PROVE /\ queue # <<>> /\ ~answered
                               /\ Kind \in {"add", "remove"}
                               /\ With(teams, Data[1]) \in SUBSET Reactions
                               /\ Tail(queue) \in Seq(Event) /\ TrueEvents(Tail(queue))
    <3>1. queue # <<>> /\ ~answered /\ Kind \in {"add", "remove"}
      BY <2>1 DEF Requesting
    <3>2. Head(queue) \in Event /\ Tail(queue) \in Seq(Event) /\ TrueEvents(Tail(queue))
      BY <3>1, QueueShrinks
    <3>3. Data[1] \in Reactions
      BY <3>1, <3>2, Shape DEF Data, Kind
    <3> QED
      BY <3>1, <3>2, <3>3, <1>1 DEF With
  <2>2. CASE Request
    <3>1. Outcome(With(teams, Data[1]), queue)
      BY <2>2, <2>1, <1>1 DEF Request, Kind
    <3> QED
      BY <3>1
  <2>3. CASE RequestFails
    <3>1. Outcome(teams, Tail(queue)) \/ Outcome(With(teams, Data[1]), Tail(queue))
      BY <2>3, <2>1, <1>1 DEF RequestFails
    <3> QED
      BY <3>1
  <2>4. CASE TeamsUser
    <3>1. PICK r \in Reactions :
             TeamsBecomes(IF r \in teams THEN teams \ {r} ELSE teams \cup {r}, queue)
      BY <2>4 DEF TeamsUser
    <3>2. answered' => queue # <<>> /\ Head(queue).kind \in {"add", "remove"}
      BY <2>4 DEF TeamsUser, Inv, Typed, TypeOK, Kind
    <3>3. Outcome(IF r \in teams THEN teams \ {r} ELSE teams \cup {r}, queue)
      BY <3>1, <3>2, <1>1
    <3> QED
      BY <3>3
  <2> QED
    BY <2>2, <2>3, <2>4
<1>4. PICK new, q : Outcome(new, q)
  BY <1>3
<1>5. /\ teams' \in SUBSET Reactions
      /\ poll' \in [Pollers -> Page]
      /\ queue' \in Seq(Event)
      /\ q # <<>> => queue' # <<>> /\ Head(queue').kind = Head(q).kind
      /\ Fresh'
  BY <1>4, TeamsBecomesFresh
<1>6. \A i \in 1..Len(queue') : queue'[i] \in Event
  BY <1>5, TypedEvents
<1>7. answered' => queue' # <<>> /\ Head(queue').kind \in {"add", "remove"}
  BY <1>4, <1>5
<1>8. TypeOK'
  BY <1>2, <1>5, <1>6, <1>7 DEF Inv, Typed, TypeOK, Page, Kind
<1> QED
  BY <1>5, <1>7, <1>8 DEF Inv, Typed

\* The user's reaction or redaction joins the queue.
LEMMA MatrixUserQueues ==
    ASSUME Inv, MatrixUser
    PROVE  \E e \in Event : /\ e.kind # "sync" /\ queue' = Append(queue, e)
                           /\ room' \subseteq Sent
<1>1. room \subseteq Sent
  BY DEF Inv, Typed, TypeOK
<1>2. ASSUME NEW m \in Sent, NEW k \in {"add", "remove"},
             room' = room \ {m} \/ room' = room \cup {m},
             queue' = Append(queue, [kind |-> k, data |-> m, stale |-> FALSE])
      PROVE  \E e \in Event : /\ e.kind # "sync" /\ queue' = Append(queue, e)
                             /\ room' \subseteq Sent
  <2> DEFINE e == [kind |-> k, data |-> m, stale |-> FALSE]
  <2>1. e \in Event /\ e.kind # "sync"
    BY MatrixShape
  <2> QED
    BY <1>1, <1>2, <2>1
<1>3. ASSUME NEW r \in {Self} \X MappedKeys, Unused(r) # {} PROVE NewEvent(r) \in Sent
  BY <1>3, MappedKeysType, NewEventIsNew DEF Reactions, Users
<1> QED
  BY <1>1, <1>2, <1>3 DEF MatrixUser

\* The user reacts in the room, newer messages come, the process restarts.
LEMMA OtherInv ==
    ASSUME Inv, MatrixUser \/ PushOff \/ Crash
    PROVE  Inv'
<1> USE DEF messageVars, limits
<1>1. CASE MatrixUser
  <2>1. PICK e \in Event : /\ e.kind # "sync" /\ queue' = Append(queue, e)
                          /\ room' \subseteq Sent
    BY <1>1, MatrixUserQueues
  <2>2. UNCHANGED <<teams, rows, messageVars, poll, answered, onPage, mishap, crashes>>
        /\ changes' \in Nat
    BY <1>1 DEF MatrixUser, Inv, Typed, TypeOK
  <2>3. /\ queue' \in Seq(Event)
        /\ queue # <<>> => queue' # <<>> /\ Head(queue') = Head(queue)
        /\ FreshEvents'
    BY <2>1, <2>2, QueueGrows
  <2>4. \A i \in 1..Len(queue') : queue'[i] \in Event
    BY <2>3, TypedEvents
  <2>5. TypeOK' /\ Typed' /\ FreshPages'
    BY <2>1, <2>2, <2>3, <2>4
       DEF Inv, Typed, TypeOK, Kind, Fresh, FreshPages
  <2> QED
    BY <2>3, <2>5 DEF Inv, Fresh
<1>2. CASE PushOff
  BY <1>2 DEF PushOff, Inv, Typed, TypeOK, Fresh, FreshPages, FreshEvents, Shown, Kind
<1>3. CASE Crash
  <2>1. \A p \in Pollers : poll'[p] = Idle
    BY <1>3 DEF Crash
  <2>2. queue' = <<>> /\ queue' \in Seq(Event) /\ Len(queue') = 0
    BY <1>3 DEF Crash
  <2>3. Fresh'
    BY <2>1, <2>2 DEF Fresh, FreshPages, FreshEvents, Idle
  <2>4. poll' \in [Pollers -> Page]
    BY <1>3 DEF Crash, Idle, Page
  <2>5. mishap' \in BOOLEAN
    BY <1>3 DEF Crash, Inv, Typed, TypeOK
  <2>6. answered' = FALSE /\ crashes' \in Nat /\ seen' = {}
    BY <1>3 DEF Crash, Inv, Typed, TypeOK
  <2>7. \A i \in 1..Len(queue') : queue'[i] \in Event
    BY <2>2
  <2>8. TypeOK'
    BY <1>3, <2>4, <2>5, <2>6, <2>7 DEF Crash, Inv, Typed, TypeOK, Page
  <2> QED
    BY <2>2, <2>3, <2>6, <2>8 DEF Inv, Typed
<1> QED
  BY <1>1, <1>2, <1>3

LEMMA StepInv ==
    ASSUME Inv, [Next]_vars
    PROVE  Inv'
<1>1. CASE UNCHANGED vars
  BY <1>1 DEF vars, Inv, Typed, TypeOK, Fresh, FreshPages, FreshEvents, Shown, Kind
<1>2. CASE Next
  BY <1>2, PollerSteps, PollerInv, HandlerInv, TeamsInv, OtherInv DEF Next
<1> QED
  BY <1>1, <1>2

\* Types are kept, and what is not marked stale is what Teams has, by every
\* handler, poller, user and restart.
THEOREM InvHolds == Spec => []Inv
<1>1. ASSUME Init PROVE Inv
  <2>1. queue = <<>> /\ queue \in Seq(Event) /\ Len(queue) = 0
    BY <1>1 DEF Init
  <2>2. poll \in [Pollers -> Page] /\ \A p \in Pollers : poll[p].pc = "idle"
    BY <1>1 DEF Init, Idle, Page
  <2>3. \A i \in 1..Len(queue) : queue[i] \in Event
    BY <2>1
  <2>4. TypeOK
    BY <1>1, <2>2, <2>3 DEF Init, TypeOK, Page
  <2> QED
    BY <1>1, <2>1, <2>2, <2>4 DEF Init, Inv, Typed, Fresh, FreshPages, FreshEvents
<1>2. Inv /\ [Next]_vars => Inv'
  BY StepInv
<1> QED
  BY <1>1, <1>2, PTL DEF Spec

\* The variables keep their types; while a handler's request is answered and
\* its row not written, its event stays at the head of the portal queue.
THEOREM ReactionTypeCorrect == Spec => []TypeOK
BY InvHolds, PTL DEF Inv, Typed

\* A page of pollThread that still shows what Teams has never removes a
\* reaction that Teams has, neither its row nor its Matrix event.
THEOREM TruePagesUndoNothing == Spec => OnlyStalePagesUndo
<1> DEFINE Undoes == queue # <<>> /\ queue' = Tail(queue) /\ Kind = "sync" /\ ~Head(queue).stale
           Keeps == \A e \in Sent : e[1] \in Shown =>
                       (e \in rows => e \in rows') /\ (e \in room => e \in room')
<1>1. Inv /\ [Next]_vars => [Undoes => Keeps]_vars
  <2> SUFFICES ASSUME Inv, Next, Undoes PROVE Keeps
    BY DEF vars
  <2>1. CASE HandleSync
    <3>1. Data = Shown
      BY QueueShrinks
    <3> QED
      BY <2>1, <3>1 DEF HandleSync
  <2>2. CASE MatrixUser
    <3>1. PICK e \in Event : queue' = Append(queue, e)
      BY <2>2, MatrixUserQueues
    <3>2. queue \in Seq(Event)
      BY DEF Inv, Typed
    <3> QED
      BY <3>1, <3>2, Appended
  <2>3. CASE Record
    BY <2>3 DEF Record, Inv, Typed, TypeOK
  <2> QED
    BY <2>1, <2>2, <2>3
       DEF Next, messageVars, limits, Fetch, QueueMessage, QueueReactions,
           QueueReactionsBlindly, QueueReactionsFor, Synced, RowsUnreadable,
           HandleMessage, HandlerIgnores, Request, RequestFails, TeamsUser, PushOff, Crash
<1>2. [][Undoes => Keeps]_vars => OnlyStalePagesUndo
  BY DEF OnlyStalePagesUndo
<1> QED
  BY <1>1, <1>2, InvHolds, PTL DEF Spec

\* A reaction sync whose page still shows what Teams has, whatever the rows were,
\* leaves them as Teams has it if it names the row's id; one queued before an own
\* message's row was there names Teams' id and changes nothing (then the next page
\* has to settle the rows).
TruePagesSettle ==
    [][HandleSync /\ ~Head(queue).stale =>
          IF known /\ Head(queue).target = rowID
          THEN Shows(rows') = Shown
          ELSE UNCHANGED <<rows, room>>]_vars

THEOREM TruePagesSettleRows == Spec => TruePagesSettle
<1> DEFINE Settles == HandleSync /\ ~Head(queue).stale =>
                         IF known /\ Head(queue).target = rowID
                         THEN Shows(rows') = Shown
                         ELSE UNCHANGED <<rows, room>>
<1>1. Inv /\ [Next]_vars => [Settles]_vars
  <2>0. ASSUME HandleSync, ~Applies PROVE UNCHANGED <<rows, room>>
    BY <2>0 DEF HandleSync
  <2> SUFFICES ASSUME Inv, HandleSync, Applies, ~Head(queue).stale PROVE Shows(rows') = Shown
    BY <2>0 DEF vars, Applies
  <2> DEFINE gone    == {e \in rows : e[1] \notin Data}
             missing == Data \ Shows(rows)
             new     == {NewEvent(r) : r \in missing}
  <2>1. Data = Shown
    BY QueueShrinks DEF HandleSync
  <2>2. rows' = (rows \ gone) \cup new
    BY DEF HandleSync
  <2>3. Shows(rows \ gone) = Shows(rows) \cap Data
    BY DEF Shows
  <2>4. Shows(new) = missing
    <3>1. \A r \in missing : NewEvent(r)[1] = r
      BY DEF NewEvent
    <3> HIDE DEF missing
    <3> QED
      BY <3>1 DEF Shows
  <2>5. Shows(rows') = Shows(rows \ gone) \cup Shows(new)
    BY <2>2 DEF Shows
  <2> QED
    BY <2>1, <2>3, <2>4, <2>5
<1>2. [][Settles]_vars => TruePagesSettle
  BY DEF TruePagesSettle
<1> QED
  BY <1>1, <1>2, InvHolds, PTL DEF Spec

------------------------------------------------------------------------------
(* Rows and room.  bridgev2's rows lag behind the Matrix room by the events of *)
(* the user that are still queued, and by nothing else until a mishap.         *)

\* What is to be redacted is not shown, what is to be stored is not stored.
AheadOfRows ==
    room \cap Queued({"remove"}) = {} /\ rows \cap Queued({"add"}) = {}

\* A Matrix event is made before it is redacted, and both happen once.
InOrder(q) ==
    \A i, j \in 1..Len(q) :
       /\ i < j /\ q[i].data = q[j].data
       /\ q[i].kind \in {"add", "remove"} /\ q[j].kind \in {"add", "remove"}
       => q[i].kind = "add" /\ q[j].kind = "remove"

RoomInv == RoomIsRows /\ AheadOfRows /\ InOrder(queue)

LEMMA AboutAppended ==
    ASSUME NEW q \in Seq(Event), NEW e \in Event, NEW kinds
    PROVE  About(Append(q, e), kinds) =
              About(q, kinds) \cup (IF e.kind \in kinds THEN {e.data} ELSE {})
<1>1. Len(q) \in Nat
  OBVIOUS
<1>2. \A i \in 1..(Len(q) + 1) : i \in 1..Len(q) \/ i = Len(q) + 1
  BY <1>1
<1>3. 1..Len(q) \subseteq 1..(Len(q) + 1) /\ Len(q) + 1 \in 1..(Len(q) + 1)
  BY <1>1
<1> QED
  BY <1>2, <1>3, Appended DEF About

LEMMA AboutTail ==
    ASSUME NEW q \in Seq(Event), q # <<>>, NEW kinds
    PROVE  About(q, kinds) =
              About(Tail(q), kinds) \cup (IF Head(q).kind \in kinds THEN {Head(q).data} ELSE {})
<1>1. Len(q) \in Nat /\ Len(Tail(q)) = Len(q) - 1
  BY Removed
<1>2. \A i \in 1..Len(q) : i = 1 \/ (i - 1 \in 1..Len(Tail(q)) /\ i = (i - 1) + 1)
  BY <1>1
<1>3. About(q, kinds) \subseteq
         About(Tail(q), kinds) \cup (IF Head(q).kind \in kinds THEN {Head(q).data} ELSE {})
  <2> SUFFICES ASSUME NEW i \in 1..Len(q), q[i].kind \in kinds, i # 1
               PROVE  q[i].data \in About(Tail(q), kinds)
    BY Removed DEF About
  <2>1. i - 1 \in 1..Len(Tail(q)) /\ Tail(q)[i - 1] = q[i]
    BY <1>2, Removed
  <2> QED
    BY <2>1 DEF About
<1>4. About(Tail(q), kinds) \subseteq About(q, kinds)
  BY Removed DEF About
<1>5. Head(q).kind \in kinds => Head(q).data \in About(q, kinds)
  BY Removed DEF About
<1> QED
  BY <1>3, <1>4, <1>5

LEMMA AboutMarked ==
    ASSUME NEW q \in Seq(Event), NEW kinds
    PROVE  About(MarkedStale(q), kinds) = About(q, kinds)
BY Marked DEF About

\* A new event keeps the order if it is Teams' or the next about its own.
LEMMA OrderAppended ==
    ASSUME NEW q \in Seq(Event), InOrder(q), NEW e \in Event,
           e.kind = "add" => e.data \notin About(q, {"add", "remove"}),
           e.kind = "remove" => e.data \notin About(q, {"remove"})
    PROVE  InOrder(Append(q, e))
<1>1. Len(q) \in Nat /\ Len(Append(q, e)) = Len(q) + 1
  BY Appended
<1> SUFFICES ASSUME NEW i \in 1..(Len(q) + 1), NEW j \in 1..(Len(q) + 1), i < j,
                    Append(q, e)[i].data = Append(q, e)[j].data,
                    Append(q, e)[i].kind \in {"add", "remove"},
                    Append(q, e)[j].kind \in {"add", "remove"}
             PROVE  Append(q, e)[i].kind = "add" /\ Append(q, e)[j].kind = "remove"
  BY <1>1 DEF InOrder
<1>2. i \in 1..Len(q) /\ Append(q, e)[i] = q[i]
  BY <1>1, Appended
<1>3. CASE j \in 1..Len(q)
  BY <1>2, <1>3, Appended DEF InOrder
<1>4. CASE j = Len(q) + 1
  BY <1>2, <1>4, Appended DEF About
<1> QED
  BY <1>1, <1>3, <1>4

LEMMA OrderTail ==
    ASSUME NEW q \in Seq(Event), q # <<>>, InOrder(q)
    PROVE  /\ InOrder(Tail(q))
           /\ Head(q).kind \in {"add", "remove"} => Head(q).data \notin About(Tail(q), {"add"})
           /\ Head(q).kind = "remove" => Head(q).data \notin About(Tail(q), {"remove"})
<1>1. Len(q) \in Nat /\ Len(Tail(q)) = Len(q) - 1
  BY Removed
<1>2. \A i \in 1..Len(Tail(q)) : i \in Nat /\ 1 < i + 1
  BY <1>1
<1>3. InOrder(Tail(q))
  <2>1. \A i, j \in 1..Len(Tail(q)) : i < j => i + 1 < j + 1
    BY <1>1
  <2> QED
    BY <2>1, Removed DEF InOrder
<1>4. ASSUME NEW i \in 1..Len(Tail(q)), Tail(q)[i].data = Head(q).data,
             Tail(q)[i].kind \in {"add", "remove"}, Head(q).kind \in {"add", "remove"}
      PROVE  Head(q).kind = "add" /\ Tail(q)[i].kind = "remove"
  BY <1>2, <1>4, Removed DEF InOrder
<1> QED
  BY <1>3, <1>4 DEF About

LEMMA OrderMarked ==
    ASSUME NEW q \in Seq(Event), InOrder(q)
    PROVE  InOrder(MarkedStale(q))
BY Marked DEF InOrder

\* Steps that leave the user's queued events, the rows and the room alone.
LEMMA RoomUntouched ==
    ASSUME RoomInv, InOrder(queue'), UNCHANGED <<rows, room, mishap>>,
           \A kinds \in SUBSET {"add", "remove"} : Queued(kinds)' = Queued(kinds)
    PROVE  RoomInv'
BY DEF RoomInv, RoomIsRows, AheadOfRows

\* A poller's steps.
LEMMA PollerRoom ==
    ASSUME Inv, RoomInv, NEW p \in Pollers,
           PollerStep(p)
    PROVE  RoomInv'
<1>1. UNCHANGED <<rows, room, mishap>>
  BY DEF PollerStep, Fetch, QueueMessage, QueueReactionsFor, Synced, RowsUnreadable, limits
<1>2. queue \in Seq(Event) /\ InOrder(queue) /\ poll[p] \in Page
  BY DEF Inv, Typed, TypeOK, Page, RoomInv
<1>3. \/ queue' = queue
      \/ \E e \in Event : e.kind \in {"message", "sync"} /\ queue' = Append(queue, e)
  <2>1. CASE QueueMessage(p)
    <3> DEFINE e == [kind |-> "message", data |-> {}, stale |-> poll[p].stale]
    <3>1. e \in Event /\ e.kind = "message"
      BY <1>2, MessageShape DEF Page
    <3> QED
      BY <2>1, <3>1 DEF QueueMessage
  <2>2. ASSUME NEW target \in MessageIDs, QueueReactionsFor(p, target)
        PROVE  \/ queue' = queue
               \/ \E e \in Event : e.kind \in {"message", "sync"} /\ queue' = Append(queue, e)
    <3> DEFINE e == SyncEvent(p, target)
    <3>1. e \in Event /\ e.kind = "sync"
      BY <1>2, SyncShape
    <3>2. queue' = Append(queue, e) \/ queue' = queue
      BY <2>2 DEF QueueReactionsFor, Synced
    <3> HIDE DEF e
    <3> QED
      BY <3>1, <3>2
  <2> QED
    BY <2>1, <2>2 DEF PollerStep, Fetch, RowsUnreadable
<1>4. CASE queue' = queue
  BY <1>1, <1>2, <1>4, RoomUntouched DEF Queued
<1>5. ASSUME NEW e \in Event, e.kind \in {"message", "sync"}, queue' = Append(queue, e)
      PROVE  RoomInv'
  <2>1. \A kinds \in SUBSET {"add", "remove"} : About(queue', kinds) = About(queue, kinds)
    <3> SUFFICES ASSUME NEW kinds \in SUBSET {"add", "remove"}
                 PROVE  About(Append(queue, e), kinds) = About(queue, kinds)
      BY <1>5
    <3>1. e.kind \notin kinds
      BY <1>5
    <3>2. About(Append(queue, e), kinds)
             = About(queue, kinds) \cup (IF e.kind \in kinds THEN {e.data} ELSE {})
      BY <1>2, AboutAppended
    <3> QED
      BY <3>1, <3>2
  <2>2. InOrder(queue')
    BY <1>2, <1>5, OrderAppended
  <2> QED
    BY <1>1, <2>1, <2>2, RoomUntouched DEF Queued
<1> QED
  BY <1>3, <1>4, <1>5

\* The head of the queue goes.
LEMMA HeadTaken ==
    ASSUME Inv, RoomInv, queue # <<>>, queue' = Tail(queue)
    PROVE  /\ InOrder(queue')
           /\ Kind \notin {"add", "remove"} =>
                 Queued({"add"})' = Queued({"add"}) /\ Queued({"remove"})' = Queued({"remove"})
           /\ Kind = "add" =>
                 /\ Queued({"add"}) = Queued({"add"})' \cup {Data}
                 /\ Queued({"remove"})' = Queued({"remove"})
                 /\ Data \notin Queued({"add"})'
           /\ Kind = "remove" =>
                 /\ Queued({"add"})' = Queued({"add"})
                 /\ Queued({"remove"}) = Queued({"remove"})' \cup {Data}
                 /\ Data \notin Queued({"add"})' \cup Queued({"remove"})'
<1>1. queue \in Seq(Event) /\ InOrder(queue)
  BY DEF Inv, Typed, RoomInv
<1>2. InOrder(queue')
  BY <1>1, OrderTail
<1>3. /\ Queued({"add"}) = Queued({"add"})' \cup (IF Kind = "add" THEN {Data} ELSE {})
      /\ Queued({"remove"}) = Queued({"remove"})' \cup (IF Kind = "remove" THEN {Data} ELSE {})
  BY <1>1, AboutTail DEF Queued, Kind, Data
<1>4. /\ Kind \in {"add", "remove"} => Data \notin Queued({"add"})'
      /\ Kind = "remove" => Data \notin Queued({"remove"})'
  BY <1>1, OrderTail DEF Queued, Kind, Data
<1> QED
  BY <1>2, <1>3, <1>4

\* The user's steps in the room: what is queued is what the room is ahead by.
LEMMA MatrixRoom ==
    ASSUME Inv, RoomInv, MatrixUser
    PROVE  RoomInv'
<1>1. queue \in Seq(Event) /\ InOrder(queue) /\ room \subseteq Sent
  BY DEF Inv, Typed, TypeOK, RoomInv
<1>2. UNCHANGED <<rows, mishap>>
  BY DEF MatrixUser
<1>3. Queued({"add", "remove"}) = Queued({"add"}) \cup Queued({"remove"})
  BY DEF Queued, About
<1>4. ASSUME NEW e \in Event, queue' = Append(queue, e)
      PROVE  /\ Queued({"add"})' =
                   Queued({"add"}) \cup (IF e.kind = "add" THEN {e.data} ELSE {})
             /\ Queued({"remove"})' =
                   Queued({"remove"}) \cup (IF e.kind = "remove" THEN {e.data} ELSE {})
  <2>1. \A kinds : About(Append(queue, e), kinds) =
                      About(queue, kinds) \cup (IF e.kind \in kinds THEN {e.data} ELSE {})
    BY <1>1, AboutAppended
  <2> QED
    BY <1>4, <2>1 DEF Queued
<1>5. ASSUME NEW m \in room, room' = room \ {m},
             queue' = Append(queue, [kind |-> "remove", data |-> m, stale |-> FALSE])
      PROVE  RoomInv'
  <2> DEFINE e == [kind |-> "remove", data |-> m, stale |-> FALSE]
  <2>1. e \in Event /\ e.kind = "remove" /\ e.data = m
    BY <1>1, MatrixShape
  <2> HIDE DEF e
  <2>2. Queued({"add"})' = Queued({"add"}) /\ Queued({"remove"})' = Queued({"remove"}) \cup {m}
    BY <1>4, <1>5, <2>1 DEF e
  <2>3. m \notin Queued({"remove"})
    BY DEF RoomInv, AheadOfRows
  <2>4. InOrder(queue')
    BY <1>1, <1>5, <2>1, <2>3, OrderAppended DEF e, Queued
  <2> QED
    BY <1>2, <1>5, <2>2, <2>3, <2>4 DEF RoomInv, RoomIsRows, AheadOfRows
<1>6. ASSUME NEW r \in {Self} \X MappedKeys, Unused(r) # {},
             room' = room \cup {NewEvent(r)},
             queue' = Append(queue, [kind |-> "add", data |-> NewEvent(r), stale |-> FALSE])
      PROVE  RoomInv'
  <2> DEFINE m == NewEvent(r)
             e == [kind |-> "add", data |-> m, stale |-> FALSE]
  <2>1. m \in Sent /\ m \notin room \cup rows \cup Queued({"add", "remove"})
    BY <1>6, MappedKeysType, NewEventIsNew DEF Reactions, Users
  <2>2. room' = room \cup {m} /\ queue' = Append(queue, e)
    BY <1>6
  <2> HIDE DEF m
  <2>3. e \in Event /\ e.kind = "add" /\ e.data = m
    BY <2>1, MatrixShape
  <2> HIDE DEF e
  <2>4. Queued({"add"})' = Queued({"add"}) \cup {m} /\ Queued({"remove"})' = Queued({"remove"})
    BY <1>4, <2>2, <2>3
  <2>5. InOrder(queue')
    BY <1>1, <2>1, <2>2, <2>3, OrderAppended DEF Queued
  <2> QED
    BY <1>2, <1>3, <2>1, <2>2, <2>4, <2>5 DEF RoomInv, RoomIsRows, AheadOfRows
<1> QED
  BY <1>5, <1>6 DEF MatrixUser

\* bridgev2's steps.
LEMMA HandlerRoom ==
    ASSUME Inv, RoomInv, HandleMessage \/ HandleSync \/ HandlerIgnores \/ Record
    PROVE  RoomInv'
<1> USE DEF limits, Pending
<1>1. queue # <<>> /\ queue' = Tail(queue)
  BY DEF HandleMessage, HandleSync, HandlerIgnores, Record, Inv, Typed
<1> USE <1>1, HeadTaken DEF RoomInv, RoomIsRows, AheadOfRows
<1>2. CASE HandleMessage
  BY <1>2 DEF HandleMessage
<1>3. CASE HandleSync
  <2>1. Queued({"add"})' = Queued({"add"}) /\ Queued({"remove"})' = Queued({"remove"})
    BY <1>3 DEF HandleSync
  <2>2. CASE Applies
    <3> DEFINE gone == {e \in rows : e[1] \notin Data}
               new  == {NewEvent(r) : r \in Data \ Shows(rows)}
    <3>1. /\ rows' = (rows \ gone) \cup new /\ room' = (room \ gone) \cup new
          /\ UNCHANGED mishap
      BY <1>3, <2>2 DEF HandleSync
    <3>2. Data \in SUBSET Reactions
      BY <1>3, QueueShrinks, Shape DEF HandleSync, Data, Kind
    <3>3. new \cap (rows \cup room \cup Queued({"add", "remove"})) = {}
      <4>1. \A r \in Data \ Shows(rows) : r \in Reactions /\ Unused(r) # {}
        BY <1>3, <2>2, <3>2 DEF HandleSync
      <4> QED
        BY <4>1, NewEventIsNew
    <3>4. new \cap (Queued({"add"}) \cup Queued({"remove"})) = {}
      BY <3>3 DEF Queued, About
    <3> HIDE DEF gone, new
    <3>5. gone \subseteq rows
      BY DEF gone
    <3> QED
      BY <2>1, <3>1, <3>4, <3>5
  <2>3. CASE ~Applies
    BY <1>3, <2>1, <2>3 DEF HandleSync
  <2> QED
    BY <2>2, <2>3
<1>4. CASE HandlerIgnores
  <2>1. UNCHANGED <<rows, room>>
    BY <1>4 DEF HandlerIgnores
  <2>2. CASE Kind = "add" /\ mishap'
    BY <2>1, <2>2
  <2>3. CASE Kind = "remove" /\ Data \notin rows /\ mishap' = mishap
    BY <2>1, <2>3
  <2> QED
    BY <1>4, <2>2, <2>3 DEF HandlerIgnores
<1>5. CASE Record
  <2>1. Kind \in {"add", "remove"}
    BY <1>5 DEF Record, Inv, Typed, TypeOK
  <2>2. UNCHANGED <<room, mishap>> /\ rows' = With(rows, Data)
    BY <1>5 DEF Record
  <2>3. CASE Kind = "add"
    BY <2>2, <2>3 DEF With
  <2>4. CASE Kind = "remove"
    BY <2>2, <2>4 DEF With
  <2> QED
    BY <2>1, <2>3, <2>4
<1> QED
  BY <1>2, <1>3, <1>4, <1>5
\* Changes in Teams: the requests of the handlers and the users there.
LEMMA TeamsRoom ==
    ASSUME Inv, RoomInv, Request \/ RequestFails \/ TeamsUser
    PROVE  RoomInv'
<1> USE DEF limits, Pending
<1>1. queue \in Seq(Event) /\ InOrder(queue)
  BY DEF Inv, Typed, RoomInv
<1>2. ASSUME NEW new, NEW q \in Seq(Event), InOrder(q), TeamsBecomes(new, q)
      PROVE  /\ InOrder(queue')
             /\ \A kinds \in SUBSET {"add", "remove"} : Queued(kinds)' = About(q, kinds)
  <2>1. queue' = q \/ queue' = MarkedStale(q)
    BY <1>2 DEF TeamsBecomes, MarkedStale
  <2>2. \A kinds \in SUBSET {"add", "remove"} : About(MarkedStale(q), kinds) = About(q, kinds)
    BY <1>2, AboutMarked
  <2>3. InOrder(MarkedStale(q))
    BY <1>2, OrderMarked
  <2> QED
    BY <1>2, <2>1, <2>2, <2>3 DEF Queued
<1>3. CASE Request \/ TeamsUser
  <2>1. UNCHANGED <<rows, room, mishap>> /\ \E new : TeamsBecomes(new, queue)
    BY <1>3 DEF Request, TeamsUser
  <2>2. InOrder(queue') /\ \A kinds \in SUBSET {"add", "remove"} : Queued(kinds)' = Queued(kinds)
    BY <1>1, <1>2, <2>1 DEF Queued
  <2> QED
    BY <2>1, <2>2, RoomUntouched
<1>4. CASE RequestFails
  <2>1. /\ UNCHANGED <<rows, room>> /\ mishap' = TRUE /\ queue # <<>>
        /\ \E new : TeamsBecomes(new, Tail(queue))
    BY <1>4 DEF RequestFails, Requesting
  <2>2. Tail(queue) \in Seq(Event) /\ InOrder(Tail(queue))
    BY <1>1, <2>1, Removed, OrderTail
  <2>3. /\ About(Tail(queue), {"add"}) \subseteq Queued({"add"})
        /\ About(Tail(queue), {"remove"}) \subseteq Queued({"remove"})
    BY <1>1, <2>1, AboutTail DEF Queued
  <2>4. /\ InOrder(queue')
        /\ Queued({"add"})' \subseteq Queued({"add"})
        /\ Queued({"remove"})' \subseteq Queued({"remove"})
    BY <1>2, <2>1, <2>2, <2>3
  <2> QED
    BY <2>1, <2>4 DEF RoomInv, RoomIsRows, AheadOfRows
<1> QED
  BY <1>3, <1>4

\* A restart loses the user's queued events; that is a mishap if there are any.
LEMMA CrashRoom ==
    ASSUME Inv, RoomInv, Crash
    PROVE  RoomInv'
<1>1. UNCHANGED <<rows, room>> /\ queue' = <<>>
  BY DEF Crash
<1>2. Queued({"add"})' = {} /\ Queued({"remove"})' = {} /\ InOrder(queue')
  BY <1>1 DEF Queued, About, InOrder
<1>3. ~mishap' => ~mishap /\ Queued({"add"}) = {} /\ Queued({"remove"}) = {}
  BY DEF Crash, Queued, About
<1> QED
  BY <1>1, <1>2, <1>3 DEF RoomInv, RoomIsRows, AheadOfRows

\* The room shows what bridgev2 has rows for, but for the user's reactions and
\* redactions that the portal queue still holds, until a request fails, dies
\* with the process or is refused as a duplicate: pages, syncs and changes in
\* Teams, in whatever order, never make the two part.
THEOREM RoomFollowsRows == Spec => []RoomIsRows
<1>1. ASSUME Init PROVE RoomInv
  <2>1. Len(queue) = 0 /\ rows = {} /\ room = {}
    BY <1>1 DEF Init
  <2> QED
    BY <2>1 DEF RoomInv, RoomIsRows, AheadOfRows, InOrder, Queued, About
<1>2. Inv /\ RoomInv /\ [Next]_vars => RoomInv'
  <2> SUFFICES ASSUME Inv, RoomInv, [Next]_vars PROVE RoomInv'
    OBVIOUS
  <2>1. CASE UNCHANGED vars \/ PushOff
    <3>1. UNCHANGED <<rows, room, mishap, queue>>
      BY <2>1 DEF vars, PushOff
    <3> QED
      BY <3>1, RoomUntouched DEF RoomInv, Queued
  <2> QED
    BY <2>1, PollerSteps, PollerRoom, MatrixRoom, HandlerRoom, TeamsRoom, CrashRoom DEF Next
<1>3. RoomInv => RoomIsRows
  BY DEF RoomInv
<1> QED
  BY <1>1, <1>2, <1>3, InvHolds, PTL DEF Spec
==============================================================================
