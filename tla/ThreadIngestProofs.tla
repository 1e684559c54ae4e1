-------------------------- MODULE ThreadIngestProofs --------------------------
(* Proofs about ThreadIngest for any number of pollers and messages, any page *)
(* size, any number of crashes, rejected events and failed cursor writes; at  *)
(* the end, that without faults ThreadIngest implements MessageRelay.         *)
EXTENDS ThreadIngest, TLAPS

------------------------------------------------------------------------------
(* Elements of a sequence.                                                    *)

LEMMA ElementsAppend ==
    ASSUME NEW S, NEW s \in Seq(S), NEW e \in S
    PROVE  Elements(Append(s, e)) = Elements(s) \cup {e}
<1> DEFINE a == Append(s, e)
<1>1. a \in Seq(S) /\ Len(a) = Len(s) + 1 /\ a[Len(s) + 1] = e
  OBVIOUS
<1>2. \A k \in 1..Len(s) : a[k] = s[k]
  OBVIOUS
<1>3. DOMAIN a = 1..(Len(s) + 1) /\ DOMAIN s = 1..Len(s) /\ Len(s) \in Nat
  BY <1>1
<1>4. Elements(a) \subseteq Elements(s) \cup {e}
  BY <1>1, <1>2, <1>3 DEF Elements
<1>5. Elements(s) \subseteq Elements(a)
  BY <1>1, <1>2, <1>3 DEF Elements
<1>6. e \in Elements(a)
  BY <1>1, <1>3 DEF Elements
<1> QED
  BY <1>4, <1>5, <1>6

LEMMA ElementsHeadTail ==
    ASSUME NEW S, NEW s \in Seq(S), s # <<>>
    PROVE  /\ Elements(s) = {Head(s)} \cup Elements(Tail(s))
           /\ Head(s) \in S
           /\ Tail(s) \in Seq(S)
<1>1. Len(s) \in Nat /\ Len(s) # 0 /\ Head(s) = s[1]
  OBVIOUS
<1>2. Tail(s) \in Seq(S) /\ Len(Tail(s)) = Len(s) - 1
  OBVIOUS
<1>3. \A k \in 1..(Len(s) - 1) : Tail(s)[k] = s[k + 1]
  OBVIOUS
<1>4. DOMAIN s = 1..Len(s) /\ DOMAIN Tail(s) = 1..(Len(s) - 1)
  BY <1>2
<1>5. Elements(Tail(s)) \subseteq Elements(s)
  BY <1>1, <1>3, <1>4 DEF Elements
<1>6. Head(s) \in Elements(s) /\ Head(s) \in S
  BY <1>1, <1>4 DEF Elements
<1>7. ASSUME NEW x \in Elements(s), x # Head(s) PROVE x \in Elements(Tail(s))
  <2>1. PICK k \in 1..Len(s) : x = s[k]
    BY <1>4 DEF Elements
  <2>2. k - 1 \in 1..(Len(s) - 1)
    BY <1>1, <1>7, <2>1
  <2>3. Tail(s)[k - 1] = x
    BY <1>3, <2>1, <2>2
  <2> QED
    BY <1>4, <2>2, <2>3 DEF Elements
<1> QED
  BY <1>2, <1>5, <1>6, <1>7

LEMMA TailShifts ==
    ASSUME NEW S, NEW s \in Seq(S), s # <<>>
    PROVE  /\ DOMAIN s = 1..Len(s) /\ Len(s) \in Nat \ {0}
           /\ DOMAIN Tail(s) = 1..(Len(s) - 1)
           /\ \A k \in 1..(Len(s) - 1) : Tail(s)[k] = s[k + 1]
<1>1. Tail(s) \in Seq(S) /\ Len(Tail(s)) = Len(s) - 1
  OBVIOUS
<1>2. DOMAIN s = 1..Len(s) /\ DOMAIN Tail(s) = 1..(Len(s) - 1)
  BY <1>1
<1>3. \A k \in 1..(Len(s) - 1) : Tail(s)[k] = s[k + 1]
  OBVIOUS
<1>4. Len(s) \in Nat \ {0}
  OBVIOUS
<1> QED
  BY <1>2, <1>3, <1>4

LEMMA ElementsOfSeq ==
    ASSUME NEW S, NEW s \in Seq(S)
    PROVE  Elements(s) \subseteq S
BY DEF Elements

LEMMA ElementsEmpty == Elements(<<>>) = {}
BY DEF Elements

------------------------------------------------------------------------------
(* Type correctness.                                                          *)

LEMMA InitTypeOK == Init => TypeOK
<1> SUFFICES ASSUME Init PROVE TypeOK
  OBVIOUS
<1>1. log \in Seq(Message) /\ queue \in Seq(Nat) /\ bridged \in Seq(Nat)
  BY DEF Init
<1>2. /\ pc \in [Pollers -> {"idle", "fetch", "ingest"}]
      /\ last \in [Pollers -> Nat] /\ hi \in [Pollers -> Nat]
      /\ next \in [Pollers -> Nat] /\ maxSeq \in [Pollers -> Nat]
  BY DEF Init
<1>3. /\ echoed \subseteq Nat /\ gap \subseteq Nat /\ dropped \subseteq Nat
      /\ pending \subseteq ClientIDs /\ inFlight \subseteq ClientIDs
  BY DEF Init
<1>4. discovered \in BOOLEAN /\ cursor \in Nat /\ crashes \in Nat /\ rejects \in Nat
  BY DEF Init
<1>5. out \in [ClientIDs -> {"new", "sending", "accepted", "sent", "failed",
                            "unsupported", "orphaned"}]
  BY DEF Init
<1> QED
  BY <1>1, <1>2, <1>3, <1>4, <1>5 DEF TypeOK

LEMMA StepTypeOK == TypeOK /\ [Next]_vars => TypeOK'
<1> SUFFICES ASSUME TypeOK, [Next]_vars PROVE TypeOK'
  OBVIOUS
<1> USE PageAssumption, BoundAssumption, CidAssumption, SenderAssumption
<1> USE DEF TypeOK, teamsVars, pollVars, rowVars, sendVars, roomVars, faultVars
<1>1. CASE PostRemote
  BY <1>1 DEF PostRemote, Message, Senders
<1>2. CASE Discover
  BY <1>2 DEF Discover
<1>3. ASSUME NEW p \in Pollers, Poll(p) PROVE TypeOK'
  <2>1. CASE ReadRow(p)
    BY <2>1 DEF ReadRow
  <2>2. CASE FetchPage(p)
    <3>1. Len(log) \in Nat /\ PageStart \in Nat
      BY DEF PageStart
    <3>2. gap' \subseteq Nat
      <4>1. DOMAIN log \subseteq Nat
        OBVIOUS
      <4>2. gap' \subseteq gap \cup DOMAIN log
        BY <2>2 DEF FetchPage
      <4> QED
        BY <4>1, <4>2
    <3>3. /\ hi' \in [Pollers -> Nat] /\ next' \in [Pollers -> Nat]
          /\ pc' \in [Pollers -> {"idle", "fetch", "ingest"}]
      BY <2>2, <3>1 DEF FetchPage
    <3> QED
      BY <2>2, <3>2, <3>3 DEF FetchPage
  <2>3. CASE FetchFails(p)
    BY <2>3 DEF FetchFails, Return
  <2>4. CASE SkipMessage(p)
    BY <2>4 DEF SkipMessage
  <2>5. CASE SkipSystemMessage(p)
    BY <2>5 DEF SkipSystemMessage
  <2>6. CASE IngestMessage(p)
    <3>1. queue' \in Seq(Nat)
      BY <2>6 DEF IngestMessage
    <3>2. maxSeq' \in [Pollers -> Nat] /\ next' \in [Pollers -> Nat]
      BY <2>6 DEF IngestMessage
    <3> QED
      BY <2>6, <3>1, <3>2 DEF IngestMessage
  <2>7. CASE SaveCursor(p)
    BY <2>7 DEF SaveCursor, Return
  <2>8. CASE SaveCursorFails(p)
    BY <2>8 DEF SaveCursorFails, Return
  <2> QED
    BY <1>3, <2>1, <2>2, <2>3, <2>4, <2>5, <2>6, <2>7, <2>8 DEF Poll
<1>4. CASE Portal
  <2> SUFFICES ASSUME queue # <<>> PROVE TypeOK'
    BY <1>4 DEF Portal, ConfirmPending, IgnoreKnown, SendToMatrix, MatrixRejects
  <2>1. Head(queue) \in Nat /\ Tail(queue) \in Seq(Nat)
    OBVIOUS
  <2>2. CASE ConfirmPending
    <3>1. echoed' \subseteq Nat /\ pending' \subseteq ClientIDs
      BY <2>1, <2>2 DEF ConfirmPending
    <3>2. bridged' \in Seq(Nat) /\ queue' \in Seq(Nat)
      BY <2>1, <2>2 DEF ConfirmPending
    <3> QED
      BY <2>2, <3>1, <3>2 DEF ConfirmPending
  <2>3. CASE IgnoreKnown
    BY <2>1, <2>3 DEF IgnoreKnown
  <2>4. CASE SendToMatrix
    BY <2>1, <2>4 DEF SendToMatrix
  <2>5. CASE MatrixRejects
    <3>1. dropped' \subseteq Nat
      BY <2>1, <2>5 DEF MatrixRejects
    <3> QED
      BY <2>1, <2>5, <3>1 DEF MatrixRejects
  <2> QED
    BY <1>4, <2>2, <2>3, <2>4, <2>5 DEF Portal
<1>5. ASSUME NEW c \in ClientIDs, HandleMatrixMessage(c) PROVE TypeOK'
  <2>1. CASE StartSend(c)
    BY <2>1 DEF StartSend
  <2>2. CASE RejectUnsupported(c)
    BY <2>2 DEF RejectUnsupported
  <2>3. CASE TeamsAccepts(c)
    <3>1. [from |-> "self", cid |-> c] \in Message
      BY DEF Message, Senders
    <3> QED
      BY <2>3, <3>1 DEF TeamsAccepts
  <2>4. CASE SendReturns(c)
    BY <2>4 DEF SendReturns
  <2>5. CASE SendFails(c)
    BY <2>5 DEF SendFails
  <2> QED
    BY <1>5, <2>1, <2>2, <2>3, <2>4, <2>5 DEF HandleMatrixMessage
<1>6. CASE Crash
  <2>1. Elements(queue) \subseteq Nat
    BY ElementsOfSeq
  <2>2. dropped' \subseteq Nat
    <3>1. dropped' = dropped \cup Elements(queue)
      BY <1>6 DEF Crash
    <3> QED
      BY <2>1, <3>1
  <2>5. queue' \in Seq(Nat) /\ pending' \subseteq ClientIDs
    BY <1>6 DEF Crash
  <2>3. /\ pc' \in [Pollers -> {"idle", "fetch", "ingest"}]
        /\ last' \in [Pollers -> Nat] /\ hi' \in [Pollers -> Nat]
        /\ next' \in [Pollers -> Nat] /\ maxSeq' \in [Pollers -> Nat]
    BY <1>6 DEF Crash
  <2>4. out' \in [ClientIDs -> {"new", "sending", "accepted", "sent", "failed",
                               "unsupported", "orphaned"}]
    BY <1>6 DEF Crash
  <2> QED
    BY <1>6, <2>2, <2>3, <2>4, <2>5 DEF Crash
<1>7. CASE UNCHANGED vars
  BY <1>7 DEF vars
<1> QED
  BY <1>1, <1>2, <1>3, <1>4, <1>5, <1>6, <1>7 DEF Next

\* Every variable keeps its type.
THEOREM TypeCorrect == Spec => []TypeOK
BY InitTypeOK, StepTypeOK, PTL DEF Spec

------------------------------------------------------------------------------
(* Nothing is skipped.  NoMessageSkipped speaks of the persisted cursor only; *)
(* it is preserved because every poller's own cursor and position are covered *)
(* in the same way: whatever it may write later has been accounted for.       *)

Covered(n) ==
    \A m \in DOMAIN log : Bridgeable(log[m]) /\ m <= n => m \in Accounted

\* Cursors and positions lie inside the thread.
InsideThread ==
    /\ cursor <= Len(log)
    /\ \A p \in Pollers :
         /\ last[p] <= Len(log)
         /\ hi[p] <= Len(log)
         /\ 1 <= next[p] /\ next[p] <= Len(log) + 1
         /\ maxSeq[p] < next[p]

PollersCovered == \A p \in Pollers : Covered(last[p]) /\ Covered(next[p] - 1)

SkipInv == TypeOK /\ InsideThread /\ PollersCovered /\ Covered(cursor)

LogGrows ==
    /\ Len(log) <= Len(log')
    /\ \A m \in 1..Len(log) : log'[m] = log[m]

LEMMA StepLogGrows == TypeOK /\ [Next]_vars => LogGrows
<1> SUFFICES ASSUME TypeOK, [Next]_vars PROVE LogGrows
  OBVIOUS
<1>1. log \in Seq(Message)
  BY DEF TypeOK
<1>2. CASE PostRemote
  BY <1>1, <1>2, SenderAssumption DEF PostRemote, LogGrows
<1>3. ASSUME NEW c \in ClientIDs, TeamsAccepts(c) PROVE LogGrows
  BY <1>1, <1>3 DEF TeamsAccepts, LogGrows
<1>4. CASE log' = log
  BY <1>1, <1>4 DEF LogGrows
<1>5. Next => PostRemote \/ (\E c \in ClientIDs : TeamsAccepts(c)) \/ log' = log
  BY DEF Next, Poll, Portal, HandleMatrixMessage, Discover, ReadRow, FetchPage,
         FetchFails, SkipMessage, SkipSystemMessage, IngestMessage, SaveCursor,
         SaveCursorFails, ConfirmPending, IgnoreKnown, SendToMatrix,
         MatrixRejects, StartSend, RejectUnsupported, SendReturns, SendFails,
         Crash, teamsVars
<1> QED
  BY <1>2, <1>3, <1>4, <1>5 DEF vars

\* Once accounted for, a message stays accounted for: the portal moves it from
\* the queue to the room or to the lost ones, a crash moves the whole queue.
LEMMA StepAccounted == TypeOK /\ [Next]_vars => Accounted \subseteq Accounted'
<1> SUFFICES ASSUME TypeOK, [Next]_vars PROVE Accounted \subseteq Accounted'
  OBVIOUS
<1> USE DEF Accounted, Known
<1>1. queue \in Seq(Nat) /\ bridged \in Seq(Nat)
  BY DEF TypeOK
<1>2. ASSUME NEW p \in Pollers, IngestMessage(p) PROVE Accounted \subseteq Accounted'
  <2>1. next[p] \in Nat
    BY DEF TypeOK
  <2>2. Elements(queue') = Elements(queue) \cup {next[p]}
    <3>1. Elements(Append(queue, next[p])) = Elements(queue) \cup {next[p]}
      BY <1>1, <2>1, ElementsAppend
    <3> QED
      BY <1>2, <3>1 DEF IngestMessage
  <2> QED
    BY <1>2, <2>2 DEF IngestMessage, roomVars, faultVars
<1>3. ASSUME NEW p \in Pollers, FetchPage(p) PROVE Accounted \subseteq Accounted'
  BY <1>3 DEF FetchPage, roomVars, faultVars
<1>4. CASE Portal
  <2>1. queue # <<>> /\ queue' = Tail(queue)
    BY <1>4 DEF Portal, ConfirmPending, IgnoreKnown, SendToMatrix, MatrixRejects
  <2>2. /\ Elements(queue) = {Head(queue)} \cup Elements(queue')
        /\ Head(queue) \in Nat
    BY <1>1, <2>1, ElementsHeadTail
  <2>3. Elements(Append(bridged, Head(queue))) = Elements(bridged) \cup {Head(queue)}
    BY <1>1, <2>2, ElementsAppend
  <2>4. CASE ConfirmPending
    BY <2>2, <2>3, <2>4 DEF ConfirmPending, faultVars
  <2>5. CASE IgnoreKnown
    BY <2>2, <2>5 DEF IgnoreKnown, roomVars, faultVars
  <2>6. CASE SendToMatrix
    BY <2>2, <2>3, <2>6 DEF SendToMatrix, faultVars
  <2>7. CASE MatrixRejects
    BY <2>2, <2>7 DEF MatrixRejects, roomVars
  <2> QED
    BY <1>4, <2>4, <2>5, <2>6, <2>7 DEF Portal
<1>5. CASE Crash
  BY <1>5 DEF Crash, roomVars
<1>6. CASE UNCHANGED <<bridged, queue, gap, dropped>>
  BY <1>6
<1>7. \/ \E p \in Pollers : IngestMessage(p) \/ FetchPage(p)
      \/ Portal \/ Crash
      \/ UNCHANGED <<bridged, queue, gap, dropped>>
  BY DEF Next, vars, Poll, HandleMatrixMessage, PostRemote, Discover, ReadRow,
         FetchFails, SkipMessage, SkipSystemMessage, SaveCursor, SaveCursorFails,
         StartSend, RejectUnsupported, TeamsAccepts, SendReturns, SendFails,
         roomVars, faultVars
<1> QED
  BY <1>2, <1>3, <1>4, <1>5, <1>6, <1>7

\* A covered position stays covered: a step may only add messages beyond it.
LEMMA StepCovered ==
    TypeOK /\ [Next]_vars =>
      \A n \in Nat :
        n <= Len(log) /\ Covered(n) =>
          \A m \in DOMAIN log' : Bridgeable(log'[m]) /\ m <= n => m \in Accounted'
<1> SUFFICES ASSUME TypeOK, [Next]_vars, NEW n \in Nat, n <= Len(log), Covered(n),
                    NEW m \in DOMAIN log', Bridgeable(log'[m]), m <= n
             PROVE  m \in Accounted'
  OBVIOUS
<1>1. TypeOK' /\ LogGrows /\ Accounted \subseteq Accounted'
  BY StepTypeOK, StepLogGrows, StepAccounted
<1>2. log \in Seq(Message) /\ log' \in Seq(Message)
  BY <1>1 DEF TypeOK
<1>3. m \in 1..Len(log) /\ m \in DOMAIN log
  BY <1>2
<1>4. log'[m] = log[m]
  BY <1>1, <1>3 DEF LogGrows
<1>5. m \in Accounted
  BY <1>3, <1>4 DEF Covered
<1> QED
  BY <1>1, <1>5

LEMMA InitSkipInv == Init => SkipInv
<1> SUFFICES ASSUME Init PROVE SkipInv
  OBVIOUS
<1>1. Len(log) = 0 /\ DOMAIN log = {}
  BY DEF Init
<1>2. InsideThread
  BY <1>1 DEF Init, InsideThread
<1> QED
  BY <1>1, <1>2, InitTypeOK DEF SkipInv, PollersCovered, Covered, Init

LEMMA StepSkipInv == SkipInv /\ [Next]_vars => SkipInv'
<1> SUFFICES ASSUME SkipInv, [Next]_vars PROVE SkipInv'
  OBVIOUS
<1> USE PageAssumption
<1>1. TypeOK /\ TypeOK' /\ LogGrows /\ Accounted \subseteq Accounted'
  BY StepTypeOK, StepLogGrows, StepAccounted DEF SkipInv
<1>2. /\ log \in Seq(Message) /\ log' \in Seq(Message)
      /\ Len(log) \in Nat /\ Len(log') \in Nat /\ Len(log) <= Len(log')
      /\ cursor \in Nat
      /\ \A p \in Pollers : /\ last[p] \in Nat /\ hi[p] \in Nat
                            /\ next[p] \in Nat /\ maxSeq[p] \in Nat
  BY <1>1 DEF TypeOK, LogGrows
<1>3. \A n \in Nat : n <= Len(log) /\ Covered(n) =>
         \A m \in DOMAIN log' : Bridgeable(log'[m]) /\ m <= n => m \in Accounted'
  BY <1>1, StepCovered
<1>4. \A m \in DOMAIN log' : m >= 1
  BY <1>2
<1>5. CASE UNCHANGED <<cursor, pollVars>>
  <2>1. InsideThread'
    BY <1>2, <1>5 DEF SkipInv, InsideThread, pollVars
  <2>2. Covered(cursor)'
    BY <1>2, <1>3, <1>5 DEF SkipInv, InsideThread, Covered
  <2>3. PollersCovered'
    <3> SUFFICES ASSUME NEW p \in Pollers
                 PROVE  Covered(last[p])' /\ Covered(next[p] - 1)'
      BY DEF PollersCovered
    <3>1. last'[p] = last[p] /\ next'[p] = next[p]
      BY <1>5 DEF pollVars
    <3>2. /\ last[p] <= Len(log) /\ next[p] - 1 \in Nat /\ next[p] - 1 <= Len(log)
      BY <1>2 DEF SkipInv, InsideThread
    <3>3. Covered(last[p]) /\ Covered(next[p] - 1)
      BY DEF SkipInv, PollersCovered
    <3> QED
      BY <1>2, <1>3, <3>1, <3>2, <3>3 DEF Covered
  <2> QED
    BY <1>1, <2>1, <2>2, <2>3 DEF SkipInv
<1>6. CASE Discover
  <2>1. UNCHANGED pollVars /\ (cursor' = cursor \/ cursor' = 0)
    BY <1>6 DEF Discover
  <2>2. CASE cursor' = cursor
    BY <1>5, <2>1, <2>2
  <2>3. CASE cursor' = 0
    <3>1. InsideThread'
      BY <1>2, <2>1, <2>3 DEF SkipInv, InsideThread, pollVars
    <3>2. Covered(cursor)'
      BY <1>2, <1>4, <2>3 DEF Covered
    <3>3. PollersCovered'
      <4> SUFFICES ASSUME NEW p \in Pollers
                   PROVE  Covered(last[p])' /\ Covered(next[p] - 1)'
        BY DEF PollersCovered
      <4>1. last'[p] = last[p] /\ next'[p] = next[p]
        BY <2>1 DEF pollVars
      <4>2. /\ last[p] <= Len(log) /\ next[p] - 1 \in Nat /\ next[p] - 1 <= Len(log)
        BY <1>2 DEF SkipInv, InsideThread
      <4>3. Covered(last[p]) /\ Covered(next[p] - 1)
        BY DEF SkipInv, PollersCovered
      <4> QED
        BY <1>2, <1>3, <4>1, <4>2, <4>3 DEF Covered
    <3> QED
      BY <1>1, <3>1, <3>2, <3>3 DEF SkipInv
  <2> QED
    BY <2>1, <2>2, <2>3
<1>7. CASE Crash
  <2>1. /\ cursor' = cursor
        /\ \A p \in Pollers : last'[p] = 0 /\ hi'[p] = 0 /\ next'[p] = 1 /\ maxSeq'[p] = 0
    BY <1>7 DEF Crash, rowVars
  <2>2. InsideThread'
    BY <1>2, <2>1 DEF SkipInv, InsideThread
  <2>3. Covered(cursor)'
    BY <1>2, <1>3, <2>1 DEF SkipInv, InsideThread, Covered
  <2>4. PollersCovered'
    BY <1>2, <1>4, <2>1 DEF PollersCovered, Covered
  <2> QED
    BY <1>1, <2>2, <2>3, <2>4 DEF SkipInv
<1>8. ASSUME NEW p \in Pollers, Poll(p) PROVE SkipInv'
  <2>1. log' = log
    BY <1>8 DEF Poll, ReadRow, FetchPage, FetchFails, SkipMessage, IngestMessage,
               SkipSystemMessage, SaveCursor, SaveCursorFails, teamsVars
  \* It is enough to look at the poller that moved and at the cursor.
  <2>2. ASSUME cursor' <= Len(log), Covered(cursor)',
               last'[p] <= Len(log), hi'[p] <= Len(log),
               1 <= next'[p], next'[p] <= Len(log) + 1, maxSeq'[p] < next'[p],
               Covered(last[p])', Covered(next[p] - 1)',
               \A q \in Pollers : q # p => /\ last'[q] = last[q] /\ hi'[q] = hi[q]
                                          /\ next'[q] = next[q] /\ maxSeq'[q] = maxSeq[q]
        PROVE  SkipInv'
    <3>1. InsideThread'
      BY <2>1, <2>2 DEF SkipInv, InsideThread
    <3>2. PollersCovered'
      <4> SUFFICES ASSUME NEW q \in Pollers, q # p
                   PROVE  Covered(last[q])' /\ Covered(next[q] - 1)'
        BY <2>2 DEF PollersCovered
      <4>1. last'[q] = last[q] /\ next'[q] = next[q]
        BY <2>2
      <4>2. /\ last[q] <= Len(log) /\ next[q] - 1 \in Nat /\ next[q] - 1 <= Len(log)
        BY <1>2 DEF SkipInv, InsideThread
      <4>3. Covered(last[q]) /\ Covered(next[q] - 1)
        BY DEF SkipInv, PollersCovered
      <4> QED
        BY <1>2, <1>3, <4>1, <4>2, <4>3 DEF Covered
    <3> QED
      BY <1>1, <2>2, <3>1, <3>2 DEF SkipInv
  <2>3. /\ cursor <= Len(log) /\ last[p] <= Len(log) /\ hi[p] <= Len(log)
        /\ 1 <= next[p] /\ next[p] <= Len(log) + 1 /\ maxSeq[p] < next[p]
        /\ next[p] - 1 \in Nat
    BY <1>2 DEF SkipInv, InsideThread
  <2>4. /\ \A m \in DOMAIN log : Bridgeable(log[m]) /\ m <= cursor => m \in Accounted'
        /\ \A m \in DOMAIN log : Bridgeable(log[m]) /\ m <= last[p] => m \in Accounted'
        /\ \A m \in DOMAIN log : Bridgeable(log[m]) /\ m <= next[p] - 1 => m \in Accounted'
    BY <1>1 DEF SkipInv, PollersCovered, Covered
  <2>5. CASE ReadRow(p)
    <3>1. /\ cursor' = cursor /\ hi' = hi /\ next' = next /\ maxSeq' = maxSeq
          /\ last'[p] = cursor /\ \A q \in Pollers : q # p => last'[q] = last[q]
      BY <1>1, <2>5 DEF ReadRow, TypeOK, rowVars
    <3> QED
      BY <2>1, <2>2, <2>3, <2>4, <3>1 DEF Covered
  <2>6. CASE FetchPage(p)
    <3>1. /\ cursor' = cursor /\ last' = last
          /\ hi'[p] = Len(log) /\ next'[p] = PageStart /\ maxSeq'[p] = 0
          /\ \A q \in Pollers : q # p => /\ hi'[q] = hi[q] /\ next'[q] = next[q]
                                         /\ maxSeq'[q] = maxSeq[q]
      BY <1>1, <2>6 DEF FetchPage, TypeOK, rowVars
    <3>2. PageStart \in Nat /\ 1 <= PageStart /\ PageStart <= Len(log) + 1
      BY <1>2 DEF PageStart
    <3>3. \A m \in DOMAIN log : Bridgeable(log[m]) /\ m <= PageStart - 1
                                  => m \in Accounted'
      <4> SUFFICES ASSUME NEW m \in DOMAIN log, Bridgeable(log[m]), m <= PageStart - 1,
                          ~(m <= last[p])
                   PROVE  m \in Accounted'
        BY <2>4
      <4>1. m \in gap'
        BY <1>2, <2>6, <3>2 DEF FetchPage
      <4> QED
        BY <4>1 DEF Accounted
    <3>4. Covered(cursor)' /\ Covered(last[p])'
      BY <2>1, <2>4, <3>1 DEF Covered
    <3>5. Covered(next[p] - 1)'
      BY <2>1, <3>1, <3>3 DEF Covered
    <3> QED
      BY <1>2, <2>1, <2>2, <2>3, <3>1, <3>2, <3>4, <3>5
  <2>7. CASE SkipMessage(p)
    <3>1. /\ cursor' = cursor /\ last' = last /\ hi' = hi /\ maxSeq' = maxSeq
          /\ next'[p] = next[p] + 1
          /\ \A q \in Pollers : q # p => next'[q] = next[q]
      BY <1>1, <2>7 DEF SkipMessage, TypeOK, rowVars
    <3>2. next[p] <= hi[p] /\ (log[next[p]].from = "blank" \/ next[p] <= last[p])
      BY <2>7 DEF SkipMessage
    <3>3. \A m \in DOMAIN log : Bridgeable(log[m]) /\ m <= next[p] => m \in Accounted'
      <4> SUFFICES ASSUME NEW m \in DOMAIN log, Bridgeable(log[m]), m = next[p]
                   PROVE  m \in Accounted'
        BY <1>2, <2>3, <2>4
      <4> QED
        BY <2>4, <3>2 DEF Bridgeable
    <3> QED
      <4>1. Covered(cursor)' /\ Covered(last[p])'
        BY <2>1, <2>4, <3>1 DEF Covered
      <4>2. Covered(next[p] - 1)'
        BY <1>2, <2>1, <3>1, <3>3 DEF Covered
      <4> QED
        BY <1>2, <2>1, <2>2, <2>3, <3>1, <3>2, <4>1, <4>2
  <2>8. CASE SkipSystemMessage(p)
    <3>1. /\ cursor' = cursor /\ last' = last /\ hi' = hi
          /\ next'[p] = next[p] + 1 /\ maxSeq'[p] = next[p]
          /\ \A q \in Pollers : q # p => next'[q] = next[q] /\ maxSeq'[q] = maxSeq[q]
      BY <1>1, <2>8 DEF SkipSystemMessage, TypeOK, rowVars
    <3>2. next[p] <= hi[p] /\ log[next[p]].from = "system"
      BY <2>8 DEF SkipSystemMessage
    <3>3. \A m \in DOMAIN log : Bridgeable(log[m]) /\ m <= next[p] => m \in Accounted'
      <4> SUFFICES ASSUME NEW m \in DOMAIN log, Bridgeable(log[m]), m = next[p]
                   PROVE  m \in Accounted'
        BY <1>2, <2>3, <2>4
      <4> QED
        BY <3>2 DEF Bridgeable
    <3> QED
      <4>1. Covered(cursor)' /\ Covered(last[p])'
        BY <2>1, <2>4, <3>1 DEF Covered
      <4>2. Covered(next[p] - 1)'
        BY <1>2, <2>1, <3>1, <3>3 DEF Covered
      <4> QED
        BY <1>2, <2>1, <2>2, <2>3, <3>1, <3>2, <4>1, <4>2
  <2>9. CASE IngestMessage(p)
    <3>1. /\ cursor' = cursor /\ last' = last /\ hi' = hi
          /\ next'[p] = next[p] + 1 /\ maxSeq'[p] = next[p]
          /\ \A q \in Pollers : q # p => next'[q] = next[q] /\ maxSeq'[q] = maxSeq[q]
      BY <1>1, <2>9 DEF IngestMessage, TypeOK, rowVars
    <3>2. next[p] <= hi[p] /\ queue' = Append(queue, next[p])
      BY <2>9 DEF IngestMessage
    <3>3. next[p] \in Accounted'
      <4>1. queue \in Seq(Nat) /\ next[p] \in Nat
        BY <1>1, <1>2 DEF TypeOK
      <4>2. Elements(queue') = Elements(queue) \cup {next[p]}
        BY <3>2, <4>1, ElementsAppend
      <4> QED
        BY <4>2 DEF Accounted
    <3>4. \A m \in DOMAIN log : Bridgeable(log[m]) /\ m <= next[p] => m \in Accounted'
      <4> SUFFICES ASSUME NEW m \in DOMAIN log, Bridgeable(log[m]), m = next[p]
                   PROVE  m \in Accounted'
        BY <1>2, <2>3, <2>4
      <4> QED
        BY <3>3
    <3> QED
      <4>1. Covered(cursor)' /\ Covered(last[p])'
        BY <2>1, <2>4, <3>1 DEF Covered
      <4>2. Covered(next[p] - 1)'
        BY <1>2, <2>1, <3>1, <3>4 DEF Covered
      <4> QED
        BY <1>2, <2>1, <2>2, <2>3, <3>1, <3>2, <4>1, <4>2
  <2>10. ASSUME Return(p), cursor' = cursor \/ cursor' = maxSeq[p] PROVE SkipInv'
    <3>1. /\ last'[p] = 0 /\ hi'[p] = 0 /\ next'[p] = 1 /\ maxSeq'[p] = 0
          /\ \A q \in Pollers : q # p => /\ last'[q] = last[q] /\ hi'[q] = hi[q]
                                         /\ next'[q] = next[q] /\ maxSeq'[q] = maxSeq[q]
      BY <1>1, <2>10 DEF Return, TypeOK
    \* The cursor may become maxSeq, which lies below next: covered.
    <3>2. cursor' <= Len(log) /\ Covered(cursor)'
      <4>1. CASE cursor' = cursor
        BY <2>1, <2>3, <2>4, <4>1 DEF Covered
      <4>2. CASE cursor' = maxSeq[p]
        <5>1. maxSeq[p] <= next[p] - 1 /\ maxSeq[p] <= Len(log)
          BY <1>2, <2>3
        <5>2. \A m \in DOMAIN log : m \in Nat
          BY <1>2
        <5> QED
          BY <1>2, <2>1, <2>3, <2>4, <4>2, <5>1, <5>2 DEF Covered
      <4> QED
        BY <2>10, <4>1, <4>2
    <3>3. Covered(last[p])' /\ Covered(next[p] - 1)'
      BY <1>2, <1>4, <3>1 DEF Covered
    <3> QED
      BY <1>2, <2>2, <3>1, <3>2, <3>3
  <2>11. CASE FetchFails(p)
    BY <2>10, <2>11 DEF FetchFails, rowVars
  <2>12. CASE SaveCursor(p)
    BY <2>10, <2>12 DEF SaveCursor
  <2>13. CASE SaveCursorFails(p)
    BY <2>10, <2>13 DEF SaveCursorFails, rowVars
  <2> QED
    BY <1>8, <2>5, <2>6, <2>7, <2>8, <2>9, <2>11, <2>12, <2>13 DEF Poll
<1>9. \/ UNCHANGED <<cursor, pollVars>> \/ Discover \/ Crash
      \/ \E p \in Pollers : Poll(p)
  BY DEF Next, vars, pollVars, rowVars, PostRemote, Portal, ConfirmPending,
         IgnoreKnown, SendToMatrix, MatrixRejects, HandleMatrixMessage,
         StartSend, RejectUnsupported, TeamsAccepts, SendReturns, SendFails
<1> QED
  BY <1>5, <1>6, <1>7, <1>8, <1>9

\* The cursor never passes a person's message that is neither bridged, queued,
\* pushed off a page nor lost with the queue: for any number of overlapping
\* polls, crashes, rejected events and failed cursor writes.
THEOREM NothingSkipped == Spec => []NoMessageSkipped
<1>1. Init => SkipInv
  BY InitSkipInv
<1>2. SkipInv /\ [Next]_vars => SkipInv'
  BY StepSkipInv
<1>3. SkipInv => NoMessageSkipped
  BY DEF SkipInv, Covered, NoMessageSkipped
<1> QED
  BY <1>1, <1>2, <1>3, PTL DEF Spec

------------------------------------------------------------------------------
(* Echoes.  A message that came back unconfirmed must belong to a send that   *)
(* failed or was orphaned; for that, a send in progress is always pending     *)
(* until its echo is bridged, and each client id names one message at most.   *)

InThread == Elements(queue) \subseteq DOMAIN log /\ Known \subseteq DOMAIN log

OneEcho ==
    \A m, n \in DOMAIN log : log[m].cid = log[n].cid /\ log[m].cid # NoCid => m = n

InFlightUnseen ==
    \A c \in inFlight : /\ \A m \in DOMAIN log : log[m].cid # c
                        /\ out[c] \in {"sending", "failed", "orphaned"}

SendingPending == \A c \in ClientIDs : out[c] = "sending" => c \in pending

AwaitingEcho ==
    \A m \in DOMAIN log : log[m].cid # NoCid =>
        /\ out[log[m].cid] \in {"accepted", "sent", "failed", "orphaned"}
        /\ out[log[m].cid] \in {"accepted", "sent"} => log[m].cid \in pending \/ m \in Known

EchoInv == /\ InThread /\ OneEcho /\ InFlightUnseen /\ SendingPending
           /\ AwaitingEcho /\ NoEchoDuplicate

LEMMA InitEchoInv == Init => EchoInv
<1> SUFFICES ASSUME Init PROVE EchoInv
  OBVIOUS
<1>1. DOMAIN log = {} /\ Elements(queue) = {} /\ Known = {} /\ inFlight = {}
  BY ElementsEmpty DEF Init, Known
<1>2. SendingPending
  BY DEF Init, SendingPending
<1> QED
  BY <1>1, <1>2 DEF EchoInv, InThread, OneEcho, InFlightUnseen, AwaitingEcho,
                    NoEchoDuplicate

LEMMA StepEchoInv == SkipInv /\ EchoInv /\ [Next]_vars => EchoInv'
<1> SUFFICES ASSUME SkipInv, EchoInv, [Next]_vars PROVE EchoInv'
  OBVIOUS
<1> USE CidAssumption
<1>1. TypeOK /\ TypeOK' /\ LogGrows
  BY StepTypeOK, StepLogGrows DEF SkipInv
<1>2. /\ log \in Seq(Message) /\ log' \in Seq(Message)
      /\ Len(log) \in Nat /\ Len(log') \in Nat
      /\ DOMAIN log = 1..Len(log) /\ DOMAIN log' = 1..Len(log')
      /\ DOMAIN log \subseteq DOMAIN log'
      /\ \A m \in DOMAIN log : log'[m] = log[m]
  <2>1. log \in Seq(Message) /\ log' \in Seq(Message)
    BY <1>1 DEF TypeOK
  <2>2. /\ Len(log) \in Nat /\ Len(log') \in Nat
        /\ DOMAIN log = 1..Len(log) /\ DOMAIN log' = 1..Len(log')
    BY <2>1
  <2> QED
    BY <1>1, <2>1, <2>2 DEF LogGrows
<1>3. \A m \in DOMAIN log : log[m].cid \in ClientIDs \cup {NoCid}
  <2>1. \A m \in DOMAIN log : log[m] \in Message
    BY <1>2
  <2> QED
    BY <2>1 DEF Message
\* Steps that touch neither the sends nor the message table.
<1>4. ASSUME UNCHANGED <<log, out, pending, inFlight, bridged, echoed>>,
             Elements(queue') \subseteq DOMAIN log
      PROVE  EchoInv'
  BY <1>4 DEF EchoInv, InThread, OneEcho, InFlightUnseen, SendingPending,
              AwaitingEcho, NoEchoDuplicate, Known
<1>5. ASSUME NEW p \in Pollers, IngestMessage(p) PROVE EchoInv'
  <2>1. queue \in Seq(Nat) /\ next[p] \in Nat
    BY <1>1 DEF TypeOK
  <2>2. Elements(queue') = Elements(queue) \cup {next[p]}
    BY <1>5, <2>1, ElementsAppend DEF IngestMessage
  <2>3. next[p] \in DOMAIN log
    <3>1. 1 <= next[p] /\ next[p] <= hi[p] /\ hi[p] <= Len(log)
      BY <1>5 DEF IngestMessage, SkipInv, InsideThread
    <3>2. hi[p] \in Nat
      BY <1>1 DEF TypeOK
    <3> QED
      BY <1>2, <2>1, <3>1, <3>2
  <2> QED
    BY <1>4, <1>5, <2>2, <2>3 DEF IngestMessage, EchoInv, InThread, teamsVars,
                                  roomVars, sendVars
<1>6. CASE Portal
  <2>1. queue # <<>> /\ queue' = Tail(queue) /\ log' = log /\ inFlight' = inFlight
        /\ out' = out
    BY <1>6 DEF Portal, ConfirmPending, IgnoreKnown, SendToMatrix, MatrixRejects,
               teamsVars, sendVars
  <2>2. queue \in Seq(Nat) /\ bridged \in Seq(Nat)
    BY <1>1 DEF TypeOK
  <2>3. /\ Elements(queue) = {Head(queue)} \cup Elements(queue')
        /\ Head(queue) \in Nat
    BY <2>1, <2>2, ElementsHeadTail
  <2>4. Head(queue) \in DOMAIN log /\ Elements(queue') \subseteq DOMAIN log
    BY <2>3 DEF EchoInv, InThread
  <2>5. Elements(Append(bridged, Head(queue))) = Known \cup {Head(queue)}
    BY <2>2, <2>3, ElementsAppend DEF Known
  <2>6. CASE IgnoreKnown \/ MatrixRejects
    BY <1>4, <2>1, <2>4, <2>6 DEF IgnoreKnown, MatrixRejects, roomVars, sendVars
  <2>7. CASE ConfirmPending
    <3>1. /\ Known' = Known \cup {Head(queue)}
          /\ echoed' = echoed \cup {Head(queue)}
          /\ pending' = pending \ {log[Head(queue)].cid}
          /\ log[Head(queue)].cid \in pending
      BY <2>5, <2>7 DEF ConfirmPending, Known
    <3>2. log[Head(queue)].cid # NoCid
      BY <1>1, <3>1 DEF TypeOK
    <3>3. AwaitingEcho'
      BY <2>1, <2>4, <3>1, <3>2 DEF EchoInv, AwaitingEcho, OneEcho
    <3>4. SendingPending'
      <4>1. out[log[Head(queue)].cid] # "sending"
        BY <2>4, <3>2 DEF EchoInv, AwaitingEcho
      <4> QED
        BY <2>1, <3>1, <4>1 DEF EchoInv, SendingPending
    <3>5. NoEchoDuplicate'
      BY <2>1, <3>1 DEF EchoInv, NoEchoDuplicate
    <3>6. InThread' /\ OneEcho' /\ InFlightUnseen'
      BY <2>1, <2>4, <3>1 DEF EchoInv, InThread, OneEcho, InFlightUnseen
    <3> QED
      BY <3>3, <3>4, <3>5, <3>6 DEF EchoInv
  <2>8. CASE SendToMatrix
    <3>1. /\ Known' = Known \cup {Head(queue)}
          /\ echoed' = echoed /\ pending' = pending
          /\ log[Head(queue)].cid \notin pending
          /\ Head(queue) \notin Known
      BY <2>5, <2>8 DEF SendToMatrix, Known, sendVars
    \* An unconfirmed echo: its send is neither in progress nor successful.
    <3>2. log[Head(queue)].cid # NoCid =>
            out[log[Head(queue)].cid] \in {"failed", "orphaned"}
      BY <2>4, <3>1 DEF EchoInv, AwaitingEcho
    <3>3. NoEchoDuplicate'
      BY <2>1, <3>1, <3>2 DEF EchoInv, NoEchoDuplicate
    <3>4. AwaitingEcho' /\ SendingPending'
      BY <2>1, <3>1 DEF EchoInv, AwaitingEcho, SendingPending
    <3>5. InThread' /\ OneEcho' /\ InFlightUnseen'
      BY <2>1, <2>4, <3>1 DEF EchoInv, InThread, OneEcho, InFlightUnseen
    <3> QED
      BY <3>3, <3>4, <3>5 DEF EchoInv
  <2> QED
    BY <1>6, <2>6, <2>7, <2>8 DEF Portal
<1>7. CASE PostRemote
  <2>1. /\ Len(log') = Len(log) + 1 /\ log'[Len(log) + 1].cid = NoCid
        /\ UNCHANGED <<queue, out, pending, inFlight, bridged, echoed>>
    BY <1>2, <1>7 DEF PostRemote, roomVars, sendVars
  <2>2. \A m \in DOMAIN log' : m \in DOMAIN log \/ log'[m].cid = NoCid
    BY <1>2, <2>1
  <2>3. NoCid \notin inFlight
    BY <1>1 DEF TypeOK
  <2>4. InThread' /\ SendingPending'
    BY <1>2, <2>1 DEF EchoInv, InThread, SendingPending, Known
  <2>5. OneEcho' /\ AwaitingEcho'
    BY <1>2, <2>1, <2>2 DEF EchoInv, OneEcho, AwaitingEcho, Known
  <2>6. InFlightUnseen'
    BY <1>2, <2>1, <2>2, <2>3 DEF EchoInv, InFlightUnseen
  <2>7. NoEchoDuplicate'
    BY <1>2, <2>1 DEF EchoInv, NoEchoDuplicate, InThread, Known
  <2> QED
    BY <2>4, <2>5, <2>6, <2>7 DEF EchoInv
<1>8. ASSUME NEW c \in ClientIDs, HandleMatrixMessage(c) PROVE EchoInv'
  <2>1. UNCHANGED <<queue, bridged, echoed>> /\ Known' = Known
    BY <1>8 DEF HandleMatrixMessage, StartSend, RejectUnsupported, TeamsAccepts,
               SendReturns, SendFails, roomVars, Known
  <2>2. c # NoCid
    OBVIOUS
  <2>3. CASE StartSend(c) \/ RejectUnsupported(c)
    <3>1. /\ log' = log /\ out[c] = "new" /\ pending' = pending \cup {c}
          /\ out'[c] \in {"sending", "unsupported"}
          /\ inFlight' = inFlight \/ (inFlight' = inFlight \cup {c} /\ out'[c] = "sending")
          /\ \A d \in ClientIDs : d # c => out'[d] = out[d]
      BY <1>1, <2>3 DEF StartSend, RejectUnsupported, TypeOK, teamsVars
    <3>2. \A m \in DOMAIN log : log[m].cid # c
      BY <2>2, <3>1 DEF EchoInv, AwaitingEcho
    <3>3. c \notin inFlight
      BY <3>1 DEF EchoInv, InFlightUnseen
    <3>4. InThread' /\ OneEcho' /\ SendingPending'
      BY <2>1, <3>1 DEF EchoInv, InThread, OneEcho, SendingPending
    <3>5. AwaitingEcho'
      BY <1>3, <2>1, <3>1, <3>2 DEF EchoInv, AwaitingEcho
    <3>6. InFlightUnseen'
      <4>1. ASSUME NEW d \in inFlight
            PROVE  /\ \A m \in DOMAIN log' : log'[m].cid # d
                   /\ out'[d] \in {"sending", "failed", "orphaned"}
        <5>1. d \in ClientIDs /\ d # c
          BY <1>1, <3>3 DEF TypeOK
        <5> QED
          BY <3>1, <5>1 DEF EchoInv, InFlightUnseen
      <4> QED
        BY <3>1, <3>2, <4>1 DEF InFlightUnseen
    <3>7. NoEchoDuplicate'
      BY <1>3, <2>1, <3>1, <3>2 DEF EchoInv, InThread, NoEchoDuplicate
    <3> QED
      BY <3>4, <3>5, <3>6, <3>7 DEF EchoInv
  <2>4. CASE TeamsAccepts(c)
    <3>1. /\ c \in inFlight /\ inFlight' = inFlight \ {c} /\ pending' = pending
          /\ Len(log') = Len(log) + 1 /\ log'[Len(log) + 1].cid = c
          /\ out'[c] = IF out[c] = "sending" THEN "accepted" ELSE out[c]
          /\ \A d \in ClientIDs : d # c => out'[d] = out[d]
      BY <1>1, <1>2, <2>4 DEF TeamsAccepts, TypeOK
    <3>2. /\ \A m \in DOMAIN log : log[m].cid # c
          /\ out[c] \in {"sending", "failed", "orphaned"}
          /\ out[c] = "sending" => c \in pending
      BY <3>1 DEF EchoInv, InFlightUnseen, SendingPending
    <3>3. \A m \in DOMAIN log' : m \in DOMAIN log \/ m = Len(log) + 1
      BY <1>2, <3>1
    <3>4. InThread'
      BY <1>2, <2>1 DEF EchoInv, InThread
    <3>5. OneEcho'
      BY <1>2, <3>1, <3>2, <3>3 DEF EchoInv, OneEcho
    <3>6. SendingPending'
      BY <3>1 DEF EchoInv, SendingPending
    <3>7. InFlightUnseen'
      <4> SUFFICES ASSUME NEW d \in inFlight, d # c
                   PROVE  /\ \A m \in DOMAIN log' : log'[m].cid # d
                          /\ out'[d] \in {"sending", "failed", "orphaned"}
        BY <3>1 DEF InFlightUnseen
      <4>1. d \in ClientIDs
        BY <1>1 DEF TypeOK
      <4>2. /\ \A m \in DOMAIN log : log[m].cid # d
            /\ out[d] \in {"sending", "failed", "orphaned"}
        BY DEF EchoInv, InFlightUnseen
      <4> QED
        BY <1>2, <3>1, <3>3, <4>1, <4>2
    <3>8. AwaitingEcho'
      BY <1>2, <1>3, <2>1, <3>1, <3>2, <3>3 DEF EchoInv, AwaitingEcho
    <3>9. NoEchoDuplicate'
      BY <1>2, <1>3, <2>1, <3>1, <3>2 DEF EchoInv, InThread, NoEchoDuplicate
    <3> QED
      BY <3>4, <3>5, <3>6, <3>7, <3>8, <3>9 DEF EchoInv
  <2>5. CASE SendReturns(c)
    <3>1. /\ log' = log /\ pending' = pending /\ inFlight' = inFlight
          /\ out[c] = "accepted" /\ out'[c] = "sent"
          /\ \A d \in ClientIDs : d # c => out'[d] = out[d]
      BY <1>1, <2>5 DEF SendReturns, TypeOK, teamsVars
    <3>2. InThread' /\ OneEcho' /\ SendingPending'
      BY <2>1, <3>1 DEF EchoInv, InThread, OneEcho, SendingPending
    <3>3. AwaitingEcho'
      BY <1>3, <2>1, <3>1 DEF EchoInv, AwaitingEcho
    <3>4. InFlightUnseen'
      BY <1>1, <3>1 DEF EchoInv, InFlightUnseen, TypeOK
    <3>5. NoEchoDuplicate'
      BY <1>3, <2>1, <3>1 DEF EchoInv, InThread, NoEchoDuplicate
    <3> QED
      BY <3>2, <3>3, <3>4, <3>5 DEF EchoInv
  <2>6. CASE SendFails(c)
    <3>1. /\ log' = log /\ pending' = pending \ {c} /\ inFlight' \subseteq inFlight
          /\ out'[c] = "failed"
          /\ \A d \in ClientIDs : d # c => out'[d] = out[d]
      BY <1>1, <2>6 DEF SendFails, TypeOK, teamsVars
    <3>2. InThread' /\ OneEcho' /\ SendingPending'
      BY <2>1, <3>1 DEF EchoInv, InThread, OneEcho, SendingPending
    <3>3. AwaitingEcho'
      BY <1>3, <2>1, <3>1 DEF EchoInv, AwaitingEcho
    <3>4. InFlightUnseen'
      BY <1>1, <3>1 DEF EchoInv, InFlightUnseen, TypeOK
    <3>5. NoEchoDuplicate'
      BY <1>3, <2>1, <3>1 DEF EchoInv, InThread, NoEchoDuplicate
    <3> QED
      BY <3>2, <3>3, <3>4, <3>5 DEF EchoInv
  <2> QED
    BY <1>8, <2>3, <2>4, <2>5, <2>6 DEF HandleMatrixMessage
<1>9. CASE Crash
  <2>1. /\ queue' = <<>> /\ log' = log /\ bridged' = bridged /\ echoed' = echoed
        /\ Known' = Known /\ pending' = {} /\ inFlight' = inFlight
        /\ \A c \in ClientIDs :
             out'[c] = IF c \in pending \/ out[c] \in {"sending", "accepted"}
                       THEN "orphaned" ELSE out[c]
    BY <1>9 DEF Crash, teamsVars, roomVars, Known
  <2>2. InThread' /\ OneEcho'
    BY <2>1, ElementsEmpty DEF EchoInv, InThread, OneEcho
  <2>3. SendingPending'
    BY <2>1 DEF SendingPending
  <2>4. InFlightUnseen'
    BY <1>1, <2>1 DEF EchoInv, InFlightUnseen, TypeOK
  <2>5. AwaitingEcho'
    BY <1>3, <2>1 DEF EchoInv, AwaitingEcho
  <2>6. NoEchoDuplicate'
    BY <1>3, <2>1 DEF EchoInv, InThread, NoEchoDuplicate
  <2> QED
    BY <2>2, <2>3, <2>4, <2>5, <2>6 DEF EchoInv
<1>10. CASE UNCHANGED <<log, out, pending, inFlight, bridged, echoed, queue>>
  BY <1>4, <1>10 DEF EchoInv, InThread
<1>11. \/ UNCHANGED <<log, out, pending, inFlight, bridged, echoed, queue>>
       \/ \E p \in Pollers : IngestMessage(p)
       \/ Portal \/ PostRemote \/ Crash
       \/ \E c \in ClientIDs : HandleMatrixMessage(c)
  BY DEF Next, vars, Poll, Discover, ReadRow, FetchPage, FetchFails, SkipMessage,
         SkipSystemMessage, SaveCursor, SaveCursorFails, teamsVars, roomVars, sendVars
<1> QED
  BY <1>5, <1>6, <1>7, <1>8, <1>9, <1>10, <1>11

\* A message sent from Matrix comes back as a new message only if its send was
\* reported as failed or a crash erased its pending entry, for any number of
\* sends and any order of poll, echo and response.
THEOREM EchoesConfirmed == Spec => []NoEchoDuplicate
<1>1. Init => SkipInv /\ EchoInv
  BY InitSkipInv, InitEchoInv
<1>2. SkipInv /\ EchoInv /\ [Next]_vars => (SkipInv /\ EchoInv)'
  BY StepSkipInv, StepEchoInv
<1>3. EchoInv => NoEchoDuplicate
  BY DEF EchoInv
<1> QED
  BY <1>1, <1>2, <1>3, PTL DEF Spec

------------------------------------------------------------------------------
(* Order.  A poller queues a message only if everything before it is bridged, *)
(* queued before, or given up: lost in a crash below every cursor that is or  *)
(* may yet be read or written.                                                *)

\* Lost in a crash and never to be queued again.
GivenUp(m) ==
    /\ m \in dropped /\ m \notin Elements(queue) /\ m <= cursor
    /\ \A p \in Pollers : pc[p] # "idle" => m <= last[p]

Over(m) == m \in Known \/ GivenUp(m)

\* Everything up to n is over or queued.
Settled(n) ==
    \A m \in DOMAIN log : Bridgeable(log[m]) /\ m <= n => Over(m) \/ m \in Elements(queue)

PollersSettled ==
    /\ Settled(cursor)
    /\ \A p \in Pollers : /\ pc[p] # "idle" => Settled(last[p])
                          /\ pc[p] = "ingest" => Settled(next[p] - 1)

\* Whatever comes before a bridged message is over ...
RoomClosed ==
    \A b \in Known : \A m \in DOMAIN log : Bridgeable(log[m]) /\ m < b => Over(m)

\* ... and what comes before a queued one is over or queued before it.
QueueClosed ==
    \A k \in DOMAIN queue :
        /\ Bridgeable(log[queue[k]])
        /\ \A m \in DOMAIN log :
             Bridgeable(log[m]) /\ m < queue[k] => Over(m) \/ \E j \in 1..(k - 1) : queue[j] = m

Ordered == \A j, k \in DOMAIN bridged : j < k => bridged[j] < bridged[k]

\* Nothing is polled before the row exists; what a poller may write lies above
\* what it read; what is bridged is no longer pending.
PollBasics ==
    /\ ~discovered => cursor = 0 /\ \A p \in Pollers : pc[p] = "idle"
    /\ \A p \in Pollers : pc[p] = "ingest" /\ maxSeq[p] # 0 => last[p] < maxSeq[p]
    /\ \A m \in Known : log[m].cid \notin pending

Undisturbed == gap = {} /\ rejects = 0

OrderInv ==
    /\ PollBasics
    /\ Undisturbed => PollersSettled /\ RoomClosed /\ QueueClosed /\ Ordered

LEMMA InitOrderInv == Init => OrderInv
<1> SUFFICES ASSUME Init PROVE OrderInv
  OBVIOUS
<1>1. DOMAIN log = {} /\ DOMAIN queue = {} /\ DOMAIN bridged = {} /\ Known = {}
  BY ElementsEmpty DEF Init, Known
<1> QED
  BY <1>1 DEF Init, OrderInv, PollBasics, PollersSettled, Settled, RoomClosed,
        QueueClosed, Ordered

LEMMA StepPollBasics == SkipInv /\ EchoInv /\ PollBasics /\ [Next]_vars => PollBasics'
<1> SUFFICES ASSUME SkipInv, EchoInv, PollBasics, [Next]_vars PROVE PollBasics'
  OBVIOUS
<1>1. TypeOK /\ TypeOK' /\ LogGrows
  BY StepTypeOK, StepLogGrows DEF SkipInv
<1>2. ~discovered' => cursor' = 0 /\ \A p \in Pollers : pc'[p] = "idle"
  BY <1>1 DEF PollBasics, TypeOK, Next, vars, rowVars, pollVars, PostRemote, Discover,
        Poll, ReadRow, FetchPage, FetchFails, SkipMessage, SkipSystemMessage,
        IngestMessage, SaveCursor, SaveCursorFails, Return, Portal, ConfirmPending,
        IgnoreKnown, SendToMatrix, MatrixRejects, HandleMatrixMessage, StartSend,
        RejectUnsupported, TeamsAccepts, SendReturns, SendFails, Crash
<1>3. \A p \in Pollers : pc'[p] = "ingest" /\ maxSeq'[p] # 0 => last'[p] < maxSeq'[p]
  <2>1. CASE UNCHANGED pollVars
    BY <2>1 DEF pollVars, PollBasics
  <2>2. CASE Crash
    BY <2>2 DEF Crash
  <2>3. ASSUME NEW p \in Pollers, Poll(p)
        PROVE  \A q \in Pollers : pc'[q] = "ingest" /\ maxSeq'[q] # 0
                                    => last'[q] < maxSeq'[q]
    BY <1>1, <2>3 DEF TypeOK, PollBasics, Poll, ReadRow, FetchPage, FetchFails,
          SkipMessage, SkipSystemMessage, IngestMessage, SaveCursor,
          SaveCursorFails, Return
  <2> QED
    BY <2>1, <2>2, <2>3 DEF Next, vars, pollVars, PostRemote, Discover, Portal,
          ConfirmPending, IgnoreKnown, SendToMatrix, MatrixRejects,
          HandleMatrixMessage, StartSend, RejectUnsupported, TeamsAccepts,
          SendReturns, SendFails
<1>4. \A m \in Known' : log'[m].cid \notin pending'
  <2>1. \A m \in Known : m \in 1..Len(log) /\ log'[m] = log[m]
    <3>1. DOMAIN log = 1..Len(log)
      BY <1>1 DEF TypeOK
    <3> QED
      BY <1>1, <3>1 DEF EchoInv, InThread, LogGrows
  <2>2. CASE Known' = Known /\ pending' \subseteq pending
    BY <2>1, <2>2 DEF PollBasics
  <2>3. ASSUME NEW c \in ClientIDs, StartSend(c) \/ RejectUnsupported(c)
        PROVE  \A m \in Known' : log'[m].cid \notin pending'
    <3>1. /\ Known' = Known /\ pending' = pending \cup {c} /\ out[c] = "new" /\ c # NoCid
      BY <2>3, CidAssumption DEF StartSend, RejectUnsupported, roomVars, Known
    <3>2. \A m \in Known : log[m].cid # c
      BY <3>1 DEF EchoInv, InThread, AwaitingEcho
    <3> QED
      BY <2>1, <3>1, <3>2 DEF PollBasics
  <2>4. CASE ConfirmPending \/ SendToMatrix
    <3>1. queue \in Seq(Nat) /\ bridged \in Seq(Nat) /\ queue # <<>>
      BY <1>1, <2>4 DEF TypeOK, ConfirmPending, SendToMatrix
    <3>2. Known' = Known \cup {Head(queue)} /\ log' = log
      <4>1. Head(queue) \in Nat
        BY <3>1, ElementsHeadTail
      <4>2. Elements(Append(bridged, Head(queue))) = Elements(bridged) \cup {Head(queue)}
        BY <3>1, <4>1, ElementsAppend
      <4> QED
        BY <2>4, <4>2 DEF ConfirmPending, SendToMatrix, Known, teamsVars
    <3>3. pending' \subseteq pending /\ log[Head(queue)].cid \notin pending'
      BY <2>4 DEF ConfirmPending, SendToMatrix, sendVars
    <3> QED
      BY <3>2, <3>3 DEF PollBasics
  <2>5. \/ Known' = Known /\ pending' \subseteq pending
        \/ \E c \in ClientIDs : StartSend(c) \/ RejectUnsupported(c)
        \/ ConfirmPending \/ SendToMatrix
    BY DEF Next, vars, roomVars, sendVars, Known, PostRemote, Discover,
          Poll, ReadRow, FetchPage, FetchFails, SkipMessage, SkipSystemMessage,
          IngestMessage, SaveCursor, SaveCursorFails, Portal, IgnoreKnown,
          MatrixRejects, HandleMatrixMessage, TeamsAccepts, SendReturns,
          SendFails, Crash
  <2> QED
    BY <2>2, <2>3, <2>4, <2>5
<1> QED
  BY <1>2, <1>3, <1>4 DEF PollBasics

\* A message once given up stays so: cursors read or written later lie above it.
LEMMA StepGivenUp ==
    ASSUME TypeOK, PollBasics, [Next]_vars, NEW m \in Nat, GivenUp(m)
    PROVE  GivenUp(m)'
<1>1. TypeOK'
  BY StepTypeOK
<1>2. m \in dropped /\ m \notin Elements(queue) /\ m <= cursor
  BY DEF GivenUp
<1>3. ASSUME NEW p \in Pollers, IngestMessage(p) PROVE GivenUp(m)'
  <2> queue \in Seq(Nat) /\ next[p] \in Nat /\ last[p] \in Nat
    BY DEF TypeOK
  <2>1. Elements(queue') = Elements(queue) \cup {next[p]}
    BY <1>3, ElementsAppend DEF IngestMessage
  <2>2. m # next[p]
    <3>1. pc[p] = "ingest" /\ last[p] < next[p]
      BY <1>3 DEF IngestMessage
    <3>2. m <= last[p]
      BY <3>1 DEF GivenUp
    <3> QED
      BY <3>1, <3>2
  <2> QED
    BY <1>3, <2>1, <2>2 DEF IngestMessage, GivenUp, faultVars, rowVars
<1>4. ASSUME NEW p \in Pollers, Poll(p), ~IngestMessage(p) PROVE GivenUp(m)'
  <2>1. m <= cursor'
    BY <1>2, <1>4
       DEF TypeOK, GivenUp, PollBasics, Poll, rowVars, ReadRow, FetchPage, FetchFails,
           SkipMessage, SkipSystemMessage, SaveCursor, SaveCursorFails
  <2>2. \A q \in Pollers : pc'[q] # "idle" => m <= last'[q]
    BY <1>4
       DEF TypeOK, GivenUp, Poll, ReadRow, FetchPage, FetchFails, SkipMessage,
           SkipSystemMessage, SaveCursor, SaveCursorFails, Return
  <2>3. queue' = queue /\ dropped' = dropped
    BY <1>4
       DEF Poll, ReadRow, FetchPage, FetchFails, SkipMessage, SkipSystemMessage,
           SaveCursor, SaveCursorFails, faultVars
  <2> QED
    BY <1>2, <2>1, <2>2, <2>3 DEF GivenUp
<1>5. CASE Portal
  <2>1. /\ queue # <<>> /\ queue' = Tail(queue) /\ dropped \subseteq dropped'
        /\ cursor' = cursor /\ pc' = pc /\ last' = last
    BY <1>5 DEF Portal, ConfirmPending, IgnoreKnown, SendToMatrix, MatrixRejects,
          rowVars, pollVars, faultVars
  <2>2. Elements(queue') \subseteq Elements(queue)
    BY <2>1, ElementsHeadTail DEF TypeOK
  <2> QED
    BY <1>2, <2>1, <2>2 DEF GivenUp
<1>6. CASE Crash
  BY <1>2, <1>6, ElementsEmpty DEF Crash, GivenUp, rowVars
<1>7. CASE Discover
  BY <1>7 DEF Discover, GivenUp, PollBasics, pollVars, faultVars
<1>8. CASE UNCHANGED <<dropped, queue, cursor, pc, last>>
  BY <1>8 DEF GivenUp
<1>9. \/ \E p \in Pollers : Poll(p)
      \/ Portal \/ Crash \/ Discover \/ UNCHANGED <<dropped, queue, cursor, pc, last>>
  BY DEF Next, vars, PostRemote, HandleMatrixMessage, StartSend, RejectUnsupported,
        TeamsAccepts, SendReturns, SendFails, rowVars, pollVars, faultVars
<1> QED
  BY <1>3, <1>4, <1>5, <1>6, <1>7, <1>8, <1>9

LEMMA StepUndisturbed == TypeOK /\ [Next]_vars /\ Undisturbed' => Undisturbed
<1> SUFFICES ASSUME TypeOK, [Next]_vars, Undisturbed' PROVE Undisturbed
  OBVIOUS
<1>1. gap \subseteq gap'
  BY DEF Next, vars, PostRemote, Discover, Poll, ReadRow, FetchPage, FetchFails,
        SkipMessage, SkipSystemMessage, IngestMessage, SaveCursor, SaveCursorFails,
        Portal, ConfirmPending, IgnoreKnown, SendToMatrix, MatrixRejects,
        HandleMatrixMessage, StartSend, RejectUnsupported, TeamsAccepts,
        SendReturns, SendFails, Crash
<1>2. rejects' = rejects \/ (rejects' = rejects + 1 /\ rejects \in Nat)
  BY DEF Next, vars, faultVars, TypeOK, PostRemote, Discover, Poll, ReadRow,
        FetchPage, FetchFails, SkipMessage, SkipSystemMessage, IngestMessage,
        SaveCursor, SaveCursorFails, Portal, ConfirmPending, IgnoreKnown,
        SendToMatrix, MatrixRejects, HandleMatrixMessage, StartSend,
        RejectUnsupported, TeamsAccepts, SendReturns, SendFails, Crash
<1> QED
  BY <1>1, <1>2 DEF Undisturbed

\* What the portal handles next is a person's message, with all before it over.
LEMMA HeadIsNext ==
    ASSUME SkipInv, EchoInv, QueueClosed, Portal
    PROVE  /\ queue # <<>> /\ queue' = Tail(queue) /\ log' = log
           /\ Head(queue) = queue[1] /\ Head(queue) \in Nat
           /\ Head(queue) \in Elements(queue) /\ Head(queue) \in DOMAIN log
           /\ Bridgeable(log[Head(queue)])
           /\ \A m \in DOMAIN log : Bridgeable(log[m]) /\ m < Head(queue) => Over(m)
<1>1. InThread /\ queue \in Seq(Nat)
  BY DEF SkipInv, EchoInv, TypeOK
<1>2. queue # <<>> /\ queue' = Tail(queue) /\ log' = log
  BY DEF Portal, ConfirmPending, IgnoreKnown, SendToMatrix, MatrixRejects, teamsVars
<1>3. Head(queue) = queue[1] /\ 1 \in DOMAIN queue
  BY <1>1, <1>2
<1>4. Head(queue) \in Nat /\ Head(queue) \in Elements(queue)
  BY <1>1, <1>2, ElementsHeadTail
<1>5. \A j \in 1..(1 - 1) : FALSE
  OBVIOUS
<1> QED
  BY <1>1, <1>2, <1>3, <1>4, <1>5 DEF QueueClosed, InThread

\* A step bridges nothing, or the head of the queue, above all bridged so far:
\* were there one above the head, the head would be over.
LEMMA BridgedGrows ==
    ASSUME SkipInv, EchoInv, PollBasics, RoomClosed, QueueClosed, [Next]_vars
    PROVE  \/ bridged' = bridged
           \/ /\ Portal /\ bridged' = Append(bridged, Head(queue))
              /\ \A b \in Known : b < Head(queue)
<1>1. \/ bridged' = bridged
      \/ /\ Portal /\ Head(queue) \notin Known
         /\ bridged' = Append(bridged, Head(queue))
  <2>1. CASE ConfirmPending
    BY <2>1 DEF ConfirmPending, Portal, PollBasics
  <2>2. CASE SendToMatrix
    BY <2>2 DEF SendToMatrix, Portal
  <2>3. CASE ~ConfirmPending /\ ~SendToMatrix
    BY <2>3 DEF Next, vars, roomVars, PostRemote, Discover, Poll,
          ReadRow, FetchPage, FetchFails, SkipMessage, SkipSystemMessage,
          IngestMessage, SaveCursor, SaveCursorFails, Portal, IgnoreKnown,
          MatrixRejects, HandleMatrixMessage, StartSend, RejectUnsupported,
          TeamsAccepts, SendReturns, SendFails, Crash
  <2> QED
    BY <2>1, <2>2, <2>3
<1>2. ASSUME Portal, Head(queue) \notin Known, NEW b \in Known PROVE b < Head(queue)
  <2>1. DOMAIN log = 1..Len(log) /\ Known \subseteq DOMAIN log
    BY DEF SkipInv, TypeOK, EchoInv, InThread
  <2>2. b \in Nat /\ b # Head(queue)
    BY <1>2, <2>1
  <2>3. ~Over(Head(queue))
    BY <1>2, HeadIsNext DEF Over, GivenUp
  <2>4. ~(Head(queue) < b)
    BY <1>2, <2>3, HeadIsNext DEF RoomClosed
  <2> QED
    BY <1>2, <2>2, <2>4, HeadIsNext
<1> QED
  BY <1>1, <1>2

\* The order is preserved while no message is pushed off a page or rejected.
LEMMA StepOrderly ==
    ASSUME SkipInv, EchoInv, PollBasics, [Next]_vars, Undisturbed, Undisturbed',
           PollersSettled, RoomClosed, QueueClosed, Ordered
    PROVE  (PollersSettled /\ RoomClosed /\ QueueClosed /\ Ordered)'
<1> DEFINE Now(n) == \A m \in DOMAIN log' : Bridgeable(log'[m]) /\ m <= n
                                             => Over(m)' \/ m \in Elements(queue')
<1>1. TypeOK /\ TypeOK' /\ LogGrows /\ InThread /\ InsideThread
  BY StepTypeOK, StepLogGrows DEF SkipInv, EchoInv
<1>2. /\ DOMAIN log = 1..Len(log) /\ DOMAIN log' = 1..Len(log') /\ Len(log) \in Nat
      /\ queue \in Seq(Nat) /\ bridged \in Seq(Nat)
      /\ \A m \in DOMAIN log : log'[m] = log[m]
  <2>1. log \in Seq(Message) /\ log' \in Seq(Message)
    BY <1>1 DEF TypeOK
  <2>2. DOMAIN log = 1..Len(log) /\ DOMAIN log' = 1..Len(log') /\ Len(log) \in Nat
    BY <2>1
  <2> QED
    BY <1>1, <2>2 DEF LogGrows, TypeOK
<1>3. \A n \in Nat : n <= Len(log) =>
         \A m \in DOMAIN log' : m <= n => m \in DOMAIN log /\ log'[m] = log[m]
  BY <1>2
<1>4. Known \subseteq Known' /\ \A m \in Nat : Over(m) => Over(m)'
  <2>1. Known \subseteq Known'
    <3>1. CASE Portal
      <4>1. queue # <<>>
        BY <3>1 DEF Portal, ConfirmPending, IgnoreKnown, SendToMatrix, MatrixRejects
      <4>2. Head(queue) \in Nat
        BY <1>2, <4>1, ElementsHeadTail
      <4>3. Elements(bridged) \subseteq Elements(Append(bridged, Head(queue)))
        BY <1>2, <4>2, ElementsAppend
      <4> QED
        BY <3>1, <4>3 DEF Portal, ConfirmPending, IgnoreKnown, SendToMatrix,
              MatrixRejects, Known, roomVars
    <3>2. CASE ~Portal
      BY <3>2 DEF Known, Next, vars, roomVars, PostRemote, Discover, Poll,
            ReadRow, FetchPage, FetchFails, SkipMessage, SkipSystemMessage,
            IngestMessage, SaveCursor, SaveCursorFails, HandleMatrixMessage,
            StartSend, RejectUnsupported, TeamsAccepts, SendReturns, SendFails, Crash
    <3> QED
      BY <3>1, <3>2
  <2> QED
    BY <1>1, <2>1, StepGivenUp DEF Over
<1>5. \A n \in Nat : n <= Len(log) /\ Settled(n) /\ ~Crash => Now(n)
  <2> SUFFICES ASSUME ~Crash, NEW m \in Nat, Over(m) \/ m \in Elements(queue)
               PROVE  Over(m)' \/ m \in Elements(queue')
    BY <1>2, <1>3 DEF Settled
  <2>1. CASE Over(m)
    BY <1>4, <2>1
  <2>2. ASSUME m \in Elements(queue), Portal PROVE Over(m)' \/ m \in Elements(queue')
    <3>1. queue # <<>> /\ queue' = Tail(queue)
      BY <2>2 DEF Portal, ConfirmPending, IgnoreKnown, SendToMatrix, MatrixRejects
    <3>2. Elements(queue) = {Head(queue)} \cup Elements(queue') /\ Head(queue) \in Nat
      BY <1>2, <3>1, ElementsHeadTail
    <3>3. Elements(Append(bridged, Head(queue))) = Known \cup {Head(queue)}
      BY <1>2, <3>2, ElementsAppend DEF Known
    <3>4. Head(queue) \in Known'
      <4>1. ~MatrixRejects
        BY <1>1 DEF Undisturbed, MatrixRejects, TypeOK
      <4>2. CASE ConfirmPending \/ SendToMatrix
        BY <3>3, <4>2 DEF ConfirmPending, SendToMatrix, Known
      <4>3. CASE IgnoreKnown
        BY <1>4, <4>3 DEF IgnoreKnown
      <4> QED
        BY <2>2, <4>1, <4>2, <4>3 DEF Portal
    <3> QED
      BY <2>2, <3>2, <3>4 DEF Over
  <2>3. ASSUME m \in Elements(queue), NEW p \in Pollers, IngestMessage(p)
        PROVE  m \in Elements(queue')
    <3>1. next[p] \in Nat
      BY <1>1 DEF TypeOK
    <3>2. Elements(Append(queue, next[p])) = Elements(queue) \cup {next[p]}
      BY <1>2, <3>1, ElementsAppend
    <3> QED
      BY <2>3, <3>2 DEF IngestMessage
  <2>4. ~Portal /\ (\A p \in Pollers : ~IngestMessage(p)) => queue' = queue
    BY DEF Next, vars, PostRemote, Discover, Poll,
          ReadRow, FetchPage, FetchFails, SkipMessage, SkipSystemMessage,
          SaveCursor, SaveCursorFails, HandleMatrixMessage,
          StartSend, RejectUnsupported, TeamsAccepts, SendReturns, SendFails
  <2> QED
    BY <2>1, <2>2, <2>3, <2>4
<1>6. /\ cursor \in Nat /\ cursor <= Len(log)
      /\ \A p \in Pollers :
           /\ last[p] \in Nat /\ last[p] <= Len(log) /\ maxSeq[p] \in Nat
           /\ next[p] \in Nat /\ 1 <= next[p] /\ next[p] <= Len(log) + 1
           /\ hi[p] \in Nat /\ hi[p] <= Len(log) /\ maxSeq[p] < next[p]
  BY <1>1 DEF TypeOK, InsideThread
<1>7. \A n \in Nat : Now(n) => \A k \in Nat : k <= n => Now(k)
  BY <1>2
<1>8. ~Crash => PollersSettled'
  <2> SUFFICES ASSUME ~Crash PROVE PollersSettled'
    OBVIOUS
  <2>1. /\ Now(cursor)
        /\ \A p \in Pollers : /\ pc[p] # "idle" => Now(last[p])
                              /\ pc[p] = "ingest" => Now(next[p] - 1) /\ Now(maxSeq[p])
    <3>1. Now(cursor) /\ \A p \in Pollers : pc[p] # "idle" => Now(last[p])
      BY <1>5, <1>6 DEF PollersSettled
    <3>2. ASSUME NEW p \in Pollers, pc[p] = "ingest" PROVE Now(next[p] - 1) /\ Now(maxSeq[p])
      <4>1. next[p] - 1 \in Nat /\ maxSeq[p] <= next[p] - 1 /\ next[p] - 1 <= Len(log)
        BY <1>2, <1>6
      <4>2. Now(next[p] - 1)
        BY <1>5, <3>2, <4>1 DEF PollersSettled
      <4> QED
        BY <1>6, <1>7, <4>1, <4>2
    <3> QED
      BY <3>1, <3>2
  <2> HIDE DEF Now
  <2>2. Now(cursor')
    <3>1. cursor' = cursor \/ \E p \in Pollers : pc[p] = "ingest" /\ cursor' = maxSeq[p]
      BY DEF PollBasics, Next, vars, rowVars, PostRemote, Discover, Poll, ReadRow,
            FetchPage, FetchFails, SkipMessage, SkipSystemMessage, IngestMessage,
            SaveCursor, SaveCursorFails, Portal, ConfirmPending, IgnoreKnown,
            SendToMatrix, MatrixRejects, HandleMatrixMessage, StartSend,
            RejectUnsupported, TeamsAccepts, SendReturns, SendFails
    <3> QED
      BY <2>1, <3>1
  <2>3. ASSUME NEW q \in Pollers, pc'[q] = pc[q], last'[q] = last[q], next'[q] = next[q]
        PROVE  /\ pc'[q] # "idle" => Now(last'[q])
               /\ pc'[q] = "ingest" => Now(next'[q] - 1)
    BY <2>1, <2>3
  <2>4. ASSUME NEW p \in Pollers, Poll(p), NEW q \in Pollers, q # p
        PROVE  pc'[q] = pc[q] /\ last'[q] = last[q] /\ next'[q] = next[q]
    BY <1>1, <2>4 DEF TypeOK, Poll, ReadRow, FetchPage, FetchFails, SkipMessage,
          SkipSystemMessage, IngestMessage, SaveCursor, SaveCursorFails, Return
  <2>5. ASSUME NEW p \in Pollers, Poll(p)
        PROVE  /\ pc'[p] # "idle" => Now(last'[p])
               /\ pc'[p] = "ingest" => Now(next'[p] - 1)
    <3>1. CASE ReadRow(p)
      BY <1>1, <2>1, <3>1 DEF ReadRow, TypeOK
    <3>2. CASE FetchPage(p)
      <4>1. /\ pc[p] = "fetch" /\ last'[p] = last[p] /\ next'[p] = PageStart
            /\ log' = log /\ gap' = {}
            /\ \A m \in DOMAIN log : last[p] < m /\ m < PageStart => m \in gap'
        BY <1>1, <3>2 DEF FetchPage, TypeOK, teamsVars, Undisturbed
      <4>2. ASSUME NEW m \in DOMAIN log, m <= PageStart - 1 PROVE m <= last[p]
        <5>1. m \in Nat /\ PageStart \in Nat /\ last[p] \in Nat /\ m < PageStart
          BY <1>2, <1>6, <4>1, <4>2, PageAssumption DEF PageStart
        <5>2. ~(last[p] < m)
          BY <4>1, <5>1
        <5> QED
          BY <5>1, <5>2
      <4>3. Now(last[p]) => Now(PageStart - 1)
        BY <4>1, <4>2 DEF Now
      <4> QED
        BY <2>1, <4>1, <4>3
    <3>3. CASE FetchFails(p) \/ SaveCursor(p) \/ SaveCursorFails(p)
      BY <1>1, <3>3 DEF FetchFails, SaveCursor, SaveCursorFails, Return, TypeOK
    <3>4. CASE SkipMessage(p) \/ SkipSystemMessage(p) \/ IngestMessage(p)
      <4>1. /\ pc[p] = "ingest" /\ pc'[p] = "ingest" /\ last'[p] = last[p]
            /\ next'[p] = next[p] + 1 /\ log' = log
        BY <1>1, <3>4 DEF SkipMessage, SkipSystemMessage, IngestMessage, TypeOK, teamsVars
      <4>2. \/ ~Bridgeable(log[next[p]]) \/ next[p] <= last[p]
            \/ next[p] \in Elements(queue')
        <5>1. IngestMessage(p) => next[p] \in Elements(queue')
          <6>1. next[p] \in Nat
            BY <1>6
          <6>2. Elements(Append(queue, next[p])) = Elements(queue) \cup {next[p]}
            BY <1>2, <6>1, ElementsAppend
          <6> QED
            BY <6>2 DEF IngestMessage
        <5> QED
          BY <3>4, <5>1 DEF SkipMessage, SkipSystemMessage, Bridgeable
      <4>3. \A m \in DOMAIN log : m <= next[p] => m <= next[p] - 1 \/ m = next[p]
        BY <1>2, <1>6
      <4>4. Now(last[p]) /\ Now(next[p] - 1) => Now(next[p])
        BY <4>1, <4>2, <4>3 DEF Now
      <4>5. next'[p] - 1 = next[p]
        BY <1>6, <4>1
      <4> QED
        BY <2>1, <4>1, <4>4, <4>5
    <3> QED
      BY <2>5, <3>1, <3>2, <3>3, <3>4 DEF Poll
  <2>6. (\A p \in Pollers : ~Poll(p)) => UNCHANGED <<pc, last, next>>
    BY DEF Next, vars, pollVars, PostRemote, Discover, Portal, ConfirmPending,
          IgnoreKnown, SendToMatrix, MatrixRejects, HandleMatrixMessage, StartSend,
          RejectUnsupported, TeamsAccepts, SendReturns, SendFails
  <2>7. \A q \in Pollers : /\ pc'[q] # "idle" => Now(last'[q])
                           /\ pc'[q] = "ingest" => Now(next'[q] - 1)
    BY <2>3, <2>4, <2>5, <2>6
  <2> QED
    BY <2>2, <2>7 DEF PollersSettled, Settled, Now
\* A crash gives up what was queued below the cursor.
<1>9. Crash => PollersSettled'
  <2> SUFFICES ASSUME Crash PROVE PollersSettled'
    OBVIOUS
  <2>1. /\ \A p \in Pollers : pc'[p] = "idle"
        /\ cursor' = cursor /\ queue' = <<>> /\ log' = log
        /\ dropped' = dropped \cup Elements(queue)
    BY DEF Crash, rowVars, teamsVars
  <2>2. \A m \in Elements(queue) : m <= cursor => GivenUp(m)'
    BY <2>1, ElementsEmpty DEF GivenUp
  <2>3. Settled(cursor)'
    BY <1>2, <1>4, <2>1, <2>2 DEF PollersSettled, Settled, Over
  <2> QED
    BY <2>1, <2>3 DEF PollersSettled
<1> HIDE DEF Now
<1>10. Portal =>
         /\ queue # <<>> /\ queue' = Tail(queue) /\ log' = log
         /\ Head(queue) = queue[1] /\ Head(queue) \in Nat
         /\ Bridgeable(log[Head(queue)])
         /\ \A m \in DOMAIN log : Bridgeable(log[m]) /\ m < Head(queue) => Over(m)
  BY HeadIsNext
<1>11. \/ bridged' = bridged
       \/ /\ Portal /\ bridged' = Append(bridged, Head(queue))
          /\ \A b \in Known : b < Head(queue)
  BY BridgedGrows
<1>12. \A m \in DOMAIN log : Over(m) => Over(m)'
  BY <1>2, <1>4
<1>13. RoomClosed'
  <2>1. ASSUME NEW b \in Known, NEW m \in DOMAIN log', Bridgeable(log'[m]), m < b
        PROVE  Over(m)'
    BY <1>1, <1>2, <1>3, <1>4, <2>1 DEF RoomClosed, InThread
  <2>2. CASE bridged' = bridged
    BY <2>1, <2>2 DEF RoomClosed, Known
  <2>3. CASE Portal /\ bridged' = Append(bridged, Head(queue))
    <3>1. Known' = Known \cup {Head(queue)}
      BY <1>2, <1>10, <2>3, ElementsAppend DEF Known
    <3>2. \A m \in DOMAIN log' : Bridgeable(log'[m]) /\ m < Head(queue) => Over(m)'
      BY <1>2, <1>4, <1>10, <2>3
    <3> QED
      BY <2>1, <3>1, <3>2 DEF RoomClosed
  <2> QED
    BY <1>11, <2>2, <2>3
<1>14. Ordered'
  <2>1. CASE bridged' = bridged
    BY <2>1 DEF Ordered
  <2>2. CASE /\ Portal /\ bridged' = Append(bridged, Head(queue))
             /\ \A b \in Known : b < Head(queue)
    <3>1. /\ DOMAIN bridged = 1..Len(bridged) /\ DOMAIN bridged' = 1..(Len(bridged) + 1)
          /\ Len(bridged) \in Nat /\ bridged'[Len(bridged) + 1] = Head(queue)
          /\ \A k \in 1..Len(bridged) : bridged'[k] = bridged[k]
      BY <1>2, <1>10, <2>2
    <3>2. \A k \in DOMAIN bridged : bridged[k] \in Known
      BY DEF Known, Elements
    <3>3. ASSUME NEW j \in DOMAIN bridged', NEW k \in DOMAIN bridged', j < k
          PROVE  bridged'[j] < bridged'[k]
      <4>1. j \in 1..Len(bridged) /\ (k \in 1..Len(bridged) \/ k = Len(bridged) + 1)
        BY <3>1, <3>3
      <4> QED
        BY <2>2, <3>1, <3>2, <3>3, <4>1 DEF Ordered
    <3> QED
      BY <3>3 DEF Ordered
  <2> QED
    BY <1>11, <2>1, <2>2
<1>15. QueueClosed'
  <2>1. CASE Portal
    <3>1. Head(queue) \in Known'
      <4>1. Portal /\ bridged' = Append(bridged, Head(queue)) => Head(queue) \in Known'
        BY <1>2, <1>10, ElementsAppend DEF Known
      <4>2. bridged' # Append(bridged, Head(queue)) => IgnoreKnown
        <5>1. ~MatrixRejects
          BY <1>1 DEF Undisturbed, MatrixRejects, TypeOK
        <5> QED
          BY <2>1, <5>1 DEF Portal, ConfirmPending, SendToMatrix
      <4> QED
        BY <1>4, <2>1, <4>1, <4>2 DEF IgnoreKnown
    <3>2. /\ DOMAIN queue = 1..Len(queue) /\ DOMAIN queue' = 1..(Len(queue) - 1)
          /\ Len(queue) \in Nat \ {0}
          /\ \A k \in 1..(Len(queue) - 1) : queue'[k] = queue[k + 1]
      BY <1>2, <1>10, <2>1, TailShifts
    <3>3. ASSUME NEW k \in DOMAIN queue', NEW m \in DOMAIN log, Bridgeable(log[m]),
                 m < queue'[k]
          PROVE  Over(m)' \/ \E j \in 1..(k - 1) : queue'[j] = m
      <4>1. k + 1 \in DOMAIN queue /\ queue'[k] = queue[k + 1]
        BY <3>2
      <4>2. Over(m) \/ \E j \in 1..k : queue[j] = m
        <5>1. k \in Nat /\ k + 1 - 1 = k
          BY <3>2
        <5>2. PICK i \in DOMAIN queue : i = k + 1
          BY <4>1
        <5>3. Over(m) \/ \E j \in 1..(i - 1) : queue[j] = m
          BY <3>3, <4>1, <5>2 DEF QueueClosed
        <5> QED
          BY <5>1, <5>2, <5>3
      <4>3. ASSUME NEW j \in 1..k, queue[j] = m, j # 1
            PROVE  j - 1 \in 1..(k - 1) /\ queue'[j - 1] = m
        BY <3>2, <4>3
      <4>4. queue[1] = m => Over(m)'
        BY <1>10, <2>1, <3>1 DEF Over
      <4> QED
        BY <1>12, <4>2, <4>3, <4>4
    <3>4. \A k \in DOMAIN queue' : Bridgeable(log[queue'[k]])
      BY <3>2 DEF QueueClosed
    <3> QED
      BY <1>10, <2>1, <3>3, <3>4 DEF QueueClosed
  <2>2. ASSUME NEW p \in Pollers, IngestMessage(p) PROVE QueueClosed'
    <3>1. /\ pc[p] = "ingest" /\ Bridgeable(log[next[p]]) /\ queue' = Append(queue, next[p])
          /\ log' = log /\ next[p] \in Nat
      BY <1>6, <2>2 DEF IngestMessage, teamsVars
    <3>2. /\ DOMAIN queue = 1..Len(queue) /\ DOMAIN queue' = 1..(Len(queue) + 1)
          /\ Len(queue) \in Nat /\ queue'[Len(queue) + 1] = next[p]
          /\ \A k \in 1..Len(queue) : queue'[k] = queue[k]
      BY <1>2, <3>1
    <3>3. ASSUME NEW m \in DOMAIN log, Bridgeable(log[m]), m < next[p]
          PROVE  Over(m)' \/ \E j \in 1..Len(queue) : queue'[j] = m
      <4>1. m <= next[p] - 1 /\ Settled(next[p] - 1)
        BY <1>2, <3>1, <3>3 DEF PollersSettled
      <4>2. Over(m) \/ m \in Elements(queue)
        BY <3>3, <4>1 DEF Settled
      <4> QED
        BY <1>12, <3>2, <4>2 DEF Elements
    <3>4. ASSUME NEW k \in 1..Len(queue), NEW m \in DOMAIN log, Bridgeable(log[m]),
                 m < queue[k]
          PROVE  Over(m)' \/ \E j \in 1..(k - 1) : queue'[j] = m
      <4>1. Over(m) \/ \E j \in 1..(k - 1) : queue[j] = m
        BY <3>2, <3>4 DEF QueueClosed
      <4>2. \A j \in 1..(k - 1) : queue'[j] = queue[j]
        BY <3>2
      <4> QED
        BY <1>12, <4>1, <4>2
    <3>5. ASSUME NEW k \in DOMAIN queue'
          PROVE  /\ Bridgeable(log[queue'[k]])
                 /\ \A m \in DOMAIN log : Bridgeable(log[m]) /\ m < queue'[k]
                       => Over(m)' \/ \E j \in 1..(k - 1) : queue'[j] = m
      <4>1. CASE k \in 1..Len(queue)
        BY <3>2, <3>4, <4>1 DEF QueueClosed
      <4>2. CASE k = Len(queue) + 1
        <5>1. k - 1 = Len(queue) /\ queue'[k] = next[p]
          BY <3>2, <4>2
        <5> QED
          BY <3>1, <3>3, <5>1
      <4> QED
        BY <3>2, <4>1, <4>2
    <3> QED
      BY <3>1, <3>5 DEF QueueClosed
  <2>3. CASE queue' = <<>>
    BY <2>3 DEF QueueClosed
  <2>4. CASE queue' = queue
    <3>1. \A k \in DOMAIN queue : queue[k] \in DOMAIN log
      BY <1>1 DEF InThread, Elements
    <3>2. ASSUME NEW k \in DOMAIN queue, NEW m \in DOMAIN log', Bridgeable(log'[m]),
                 m < queue[k]
          PROVE  Over(m)' \/ \E j \in 1..(k - 1) : queue[j] = m
      <4>1. queue[k] \in Nat /\ queue[k] <= Len(log)
        BY <1>2, <3>1
      <4>2. m \in DOMAIN log /\ m \in Nat /\ log'[m] = log[m]
        BY <1>2, <1>3, <3>2, <4>1
      <4> QED
        BY <1>12, <3>2, <4>2 DEF QueueClosed
    <3> QED
      BY <1>2, <2>4, <3>1, <3>2 DEF QueueClosed
  <2>5. Portal \/ (\E p \in Pollers : IngestMessage(p)) \/ queue' = <<>> \/ queue' = queue
    BY DEF Next, vars, PostRemote, Discover, Poll, ReadRow, FetchPage, FetchFails,
          SkipMessage, SkipSystemMessage, SaveCursor, SaveCursorFails,
          HandleMatrixMessage, StartSend, RejectUnsupported, TeamsAccepts,
          SendReturns, SendFails, Crash
  <2> QED
    BY <2>1, <2>2, <2>3, <2>4, <2>5
<1> QED
  BY <1>8, <1>9, <1>13, <1>14, <1>15

LEMMA StepOrderInv == SkipInv /\ EchoInv /\ OrderInv /\ [Next]_vars => OrderInv'
<1> SUFFICES ASSUME SkipInv, EchoInv, OrderInv, [Next]_vars PROVE OrderInv'
  OBVIOUS
<1>1. PollBasics'
  BY StepPollBasics DEF OrderInv
<1>2. Undisturbed' => Undisturbed
  BY StepUndisturbed DEF SkipInv
<1>3. Undisturbed' => (PollersSettled /\ RoomClosed /\ QueueClosed /\ Ordered)'
  BY <1>2, StepOrderly DEF OrderInv
<1> QED
  BY <1>1, <1>3 DEF OrderInv

\* While no message was pushed off a page and Matrix rejected none, messages
\* enter the room in sequence order and never twice: for any number of pollers
\* that overlap, failed cursor writes, cursors that go back, and crashes.
THEOREM MessagesInOrder == Spec => []BridgedInOrder
<1>1. Init => SkipInv /\ EchoInv /\ OrderInv
  BY InitSkipInv, InitEchoInv, InitOrderInv
<1>2. SkipInv /\ EchoInv /\ OrderInv /\ [Next]_vars => (SkipInv /\ EchoInv /\ OrderInv)'
  BY StepSkipInv, StepEchoInv, StepOrderInv
<1>3. OrderInv => BridgedInOrder
  BY DEF OrderInv, Undisturbed, Ordered, BridgedInOrder
<1> QED
  BY <1>1, <1>2, <1>3, PTL DEF Spec

\* The cursor goes back only when a poll writes what it met above a row that
\* another poll has overtaken: the basics of polling are enough.
THEOREM CursorMovesBack == Spec => OnlyStalePollsMoveBack
<1> DEFINE Basics == SkipInv /\ EchoInv /\ PollBasics
           Stale == cursor' < cursor =>
                       \E p \in Pollers : pc[p] = "ingest" /\ last[p] < cursor'
<1>1. Init => Basics
  BY InitSkipInv, InitEchoInv, InitOrderInv DEF OrderInv
<1>2. Basics /\ [Next]_vars => Basics'
  BY StepSkipInv, StepEchoInv, StepPollBasics
<1>3. Basics /\ [Next]_vars => [Stale]_vars
  <2> SUFFICES ASSUME Basics, [Next]_vars PROVE Stale
    OBVIOUS
  <2>1. \/ cursor' = cursor
        \/ \E p \in Pollers : SaveCursor(p) /\ maxSeq[p] # 0
    BY DEF PollBasics, Next, vars, rowVars, PostRemote, Discover, Poll, ReadRow,
          FetchPage, FetchFails, SkipMessage, SkipSystemMessage, IngestMessage,
          SaveCursor, SaveCursorFails, Portal, ConfirmPending, IgnoreKnown,
          SendToMatrix, MatrixRejects, HandleMatrixMessage, StartSend,
          RejectUnsupported, TeamsAccepts, SendReturns, SendFails, Crash
  <2>2. cursor' = cursor => Stale
    BY DEF SkipInv, TypeOK
  <2>3. ASSUME NEW p \in Pollers, SaveCursor(p), maxSeq[p] # 0
        PROVE  pc[p] = "ingest" /\ last[p] < cursor'
    BY <2>3 DEF SaveCursor, PollBasics
  <2> QED
    BY <2>1, <2>2, <2>3
<1> QED
  BY <1>1, <1>2, <1>3, PTL DEF Spec, OnlyStalePollsMoveBack

------------------------------------------------------------------------------
(* Without faults.  When a page holds the whole thread, the process does not  *)
(* crash and Matrix takes every event, all that is over is bridged, so every  *)
(* step of the bridge is a step of MessageRelay or leaves log and room alone. *)
NoFaults == MaxMsgs <= PageSize /\ MaxCrashes = 0 /\ MaxRejects = 0

RelayInv ==
    /\ SkipInv /\ EchoInv /\ OrderInv
    /\ Len(log) <= MaxMsgs
    /\ gap = {} /\ dropped = {} /\ rejects = 0 /\ crashes = 0

LEMMA InitRelayInv == Init => RelayInv
<1>1. Init => Len(log) = 0 /\ gap = {} /\ dropped = {} /\ rejects = 0 /\ crashes = 0
  BY DEF Init
<1> QED
  BY <1>1, InitSkipInv, InitEchoInv, InitOrderInv, BoundAssumption DEF RelayInv

LEMMA StepIsRelayStep ==
    ASSUME RelayInv, [Next]_vars
    PROVE  [Relay!Next]_(Relay!vars)
<1>1. /\ TypeOK /\ bridged \in Seq(Nat) /\ DOMAIN bridged = 1..Len(bridged)
      /\ Len(bridged) \in Nat /\ DOMAIN log = 1..Len(log)
      /\ SkipInv /\ EchoInv /\ PollBasics /\ RoomClosed /\ QueueClosed /\ Ordered
  <2>1. SkipInv /\ EchoInv /\ PollBasics /\ RoomClosed /\ QueueClosed /\ Ordered
    BY DEF RelayInv, OrderInv, Undisturbed
  <2>2. TypeOK /\ bridged \in Seq(Nat) /\ log \in Seq(Message)
    BY <2>1 DEF SkipInv, TypeOK
  <2> QED
    BY <2>1, <2>2
<1>2. CASE PostRemote
  <2>1. /\ Len(log) < MaxMsgs /\ bridged' = bridged
        /\ \E m \in Message : log' = Append(log, m)
    BY <1>2, SenderAssumption DEF PostRemote, Message, Senders, roomVars
  <2>2. Relay!Post
    BY <2>1 DEF Relay!Post, Relay!Message, Relay!Senders, Message, Senders
  <2> QED
    BY <2>2 DEF Relay!Next
<1>3. ASSUME NEW c \in ClientIDs, TeamsAccepts(c) PROVE Relay!Next
  <2>1. /\ Len(log) < MaxMsgs /\ bridged' = bridged
        /\ \E m \in Message : log' = Append(log, m)
    BY <1>3 DEF TeamsAccepts, Message, Senders, roomVars
  <2>2. Relay!Post
    BY <2>1 DEF Relay!Post, Relay!Message, Relay!Senders, Message, Senders
  <2> QED
    BY <2>2 DEF Relay!Next
<1>4. CASE Portal /\ bridged' = Append(bridged, Head(queue))
                  /\ \A b \in Known : b < Head(queue)
  <2> DEFINE h == Head(queue)
  <2>1. /\ log' = log /\ h \in Nat /\ h \in DOMAIN log /\ Bridgeable(log[h])
        /\ \A m \in DOMAIN log : Bridgeable(log[m]) /\ m < h => m \in Known
    <3>1. \A m : ~GivenUp(m)
      BY DEF RelayInv, GivenUp
    <3> QED
      BY <1>1, <1>4, <3>1, HeadIsNext DEF Over
  <2> HIDE DEF h
  <2>2. h > Relay!LastRelayed
    <3>1. bridged # <<>> => bridged[Len(bridged)] \in Known
      <4>1. bridged # <<>> => Len(bridged) \in DOMAIN bridged
        BY <1>1
      <4> QED
        BY <4>1 DEF Known, Elements
    <3>2. h # 0
      BY <1>1, <2>1
    <3> QED
      BY <1>1, <1>4, <2>1, <3>1, <3>2 DEF Relay!LastRelayed, h, InThread, EchoInv
  \* A message between the last one and the head would be bridged out of order.
  <2>3. ASSUME NEW k \in DOMAIN log, k > Relay!LastRelayed, k < h, Bridgeable(log[k])
        PROVE  FALSE
    <3>1. PICK j \in DOMAIN bridged : bridged[j] = k
      BY <2>1, <2>3 DEF Known, Elements
    <3>2. bridged # <<>> /\ j \in 1..Len(bridged) /\ Len(bridged) \in DOMAIN bridged
      BY <1>1, <3>1
    <3>3. k > bridged[Len(bridged)]
      BY <2>3, <3>2 DEF Relay!LastRelayed
    <3>4. j = Len(bridged) \/ bridged[j] < bridged[Len(bridged)]
      BY <1>1, <3>2 DEF Ordered
    <3>5. k \in Nat /\ bridged[Len(bridged)] \in Nat
      BY <1>1, <3>2
    <3> QED
      BY <3>1, <3>3, <3>4, <3>5
  <2>4. Relay!Relay
    BY <1>4, <2>1, <2>2, <2>3 DEF Relay!Relay, Relay!Bridgeable, Bridgeable, h
  <2> QED
    BY <2>4 DEF Relay!Next
<1>5. CASE log' = log /\ bridged' = bridged
  BY <1>5 DEF Relay!vars
<1>6. \/ PostRemote \/ \E c \in ClientIDs : TeamsAccepts(c)
      \/ log' = log
  BY DEF Next, vars, teamsVars, Discover, Poll, ReadRow, FetchPage, FetchFails,
        SkipMessage, SkipSystemMessage, IngestMessage, SaveCursor, SaveCursorFails,
        Portal, ConfirmPending, IgnoreKnown, SendToMatrix, MatrixRejects,
        HandleMatrixMessage, StartSend, RejectUnsupported, SendReturns, SendFails, Crash
<1> QED
  BY <1>1, <1>2, <1>3, <1>4, <1>5, <1>6, BridgedGrows

LEMMA StepRelayInv ==
    ASSUME NoFaults, RelayInv, [Next]_vars
    PROVE  RelayInv'
<1>1. SkipInv' /\ EchoInv' /\ OrderInv'
  BY StepSkipInv, StepEchoInv, StepOrderInv DEF RelayInv
<1>2. log \in Seq(Message) /\ Len(log) \in Nat /\ Len(log) <= MaxMsgs /\ TypeOK
  BY DEF RelayInv, SkipInv, TypeOK
<1>3. Len(log') <= MaxMsgs
  <2>1. log' = log \/ (Len(log) < MaxMsgs /\ \E m \in Message : log' = Append(log, m))
    BY StepIsRelayStep
       DEF Relay!Next, Relay!Post, Relay!Relay, Relay!vars, Relay!Message,
           Relay!Senders, Message, Senders
  <2>2. ASSUME NEW m \in Message, log' = Append(log, m) PROVE Len(log') = Len(log) + 1
    BY <1>2, <2>2
  <2> QED
    BY <1>2, <2>1, <2>2, BoundAssumption
<1>4. ~Crash /\ ~MatrixRejects
  BY DEF NoFaults, RelayInv, Crash, MatrixRejects
\* The page begins at the first message, so none is older.
<1>5. ASSUME NEW p \in Pollers, FetchPage(p) PROVE gap' = gap
  <2>1. PageStart = 1
    BY <1>2, PageAssumption, BoundAssumption DEF PageStart, NoFaults
  <2>2. \A m \in DOMAIN log : ~(m < 1)
    BY <1>2
  <2> QED
    BY <1>5, <2>1, <2>2 DEF FetchPage
<1>6. gap' = gap
  BY <1>4, <1>5
     DEF Next, vars, PostRemote, Discover, Poll, ReadRow,
         FetchFails, SkipMessage, SkipSystemMessage, IngestMessage, SaveCursor,
         SaveCursorFails, Portal, ConfirmPending, IgnoreKnown, SendToMatrix,
         HandleMatrixMessage, StartSend, RejectUnsupported, TeamsAccepts,
         SendReturns, SendFails
<1>7. dropped' = dropped /\ rejects' = rejects /\ crashes' = crashes
  BY <1>4
     DEF Next, vars, faultVars, PostRemote, Discover, Poll, ReadRow, FetchPage,
         FetchFails, SkipMessage, SkipSystemMessage, IngestMessage, SaveCursor,
         SaveCursorFails, Portal, ConfirmPending, IgnoreKnown, SendToMatrix,
         HandleMatrixMessage, StartSend, RejectUnsupported, TeamsAccepts,
         SendReturns, SendFails
<1> QED
  BY <1>1, <1>3, <1>6, <1>7 DEF RelayInv

\* ThreadIngest implements MessageRelay: with overlapping polls, stale cursors
\* and failed writes, each message a person posts is relayed once, and next is
\* always the oldest one not relayed yet (that it is relayed at last is liveness).
THEOREM RelaysStepByStep ==
    ASSUME NoFaults
    PROVE  Spec => Relay!Init /\ [][Relay!Next]_(Relay!vars)
<1>1. Init => RelayInv /\ Relay!Init
  BY InitRelayInv DEF Init, Relay!Init
<1>2. RelayInv /\ [Next]_vars => RelayInv' /\ [Relay!Next]_(Relay!vars)
  BY StepRelayInv, StepIsRelayStep
<1> QED
  BY <1>1, <1>2, PTL DEF Spec
==============================================================================
