------------------------- MODULE AttachmentSendProofs -------------------------
(* Proofs about sends for any number of them, any files, clock and limits.    *)
(* The generator's guarantees carry over because every step of a send is a    *)
(* step of the generator or leaves it alone.  PendingExact needs them: a send *)
(* that fails removes its own id from the pending ones, which must not be     *)
(* another's, and a new id must not be one a failed send had.  That a message *)
(* links its sender's whole file follows from what sessions and items hold.   *)
(*                                                                            *)
(* The generator comes first, for any number of goroutines, any clock and any *)
(* number of calls.  UniqueIDs is not inductive by itself: a swap could       *)
(* return an id another goroutine already holds unless every id issued is at  *)
(* most the counter and every candidate about to be swapped in lies above the *)
(* counter value it was computed from.                                        *)
EXTENDS AttachmentSend, SequenceTheorems, TLAPS

\* Every id handed out so far is at most the shared counter.
CounterBound ==
    \A t \in Threads : \A i \in issued[t] : i <= sendMessageCounter

\* A candidate waiting for its swap exceeds the value it was computed from.
CandidateAbove ==
    \A t \in Threads : idPc[t] = "cas" => prev[t] < now[t]

IInv == IdTypeOK /\ CounterBound /\ CandidateAbove /\ UniqueIDs

LEMMA InitIInv == IdInit => IInv
BY DEF IdInit, IInv, IdTypeOK, CounterBound, CandidateAbove, UniqueIDs

LEMMA StepIInv == IInv /\ [IdNext]_idVars => IInv'
<1> SUFFICES ASSUME IInv, [IdNext]_idVars PROVE IInv'
  OBVIOUS
<1> USE ClockAssumption, CallsAssumption DEF IInv
<1>1. ASSUME NEW t \in Threads, ReadClock(t) PROVE IInv'
  BY <1>1 DEF ReadClock, IdTypeOK, CounterBound, CandidateAbove, UniqueIDs
<1>2. ASSUME NEW t \in Threads, LoadCounter(t) PROVE IInv'
  BY <1>2 DEF LoadCounter, IdTypeOK, CounterBound, CandidateAbove, UniqueIDs
<1>3. ASSUME NEW t \in Threads, SwapAndReturn(t) PROVE IInv'
  <2>1. sendMessageCounter < now[t]
    BY <1>3 DEF SwapAndReturn, CandidateAbove
  <2>2. IdTypeOK'
    BY <1>3 DEF SwapAndReturn, IdTypeOK
  <2>3. CounterBound'
    <3> SUFFICES ASSUME NEW u \in Threads, NEW i \in issued'[u]
                 PROVE  i <= sendMessageCounter'
      BY DEF CounterBound
    <3>1. i \in issued[u] \/ i = now[t]
      BY <1>3 DEF SwapAndReturn, IdTypeOK
    <3> QED
      BY <1>3, <2>1, <3>1 DEF SwapAndReturn, IdTypeOK, CounterBound
  <2>4. CandidateAbove'
    BY <1>3 DEF SwapAndReturn, IdTypeOK, CandidateAbove
  <2>5. UniqueIDs'
    \* now[t] is above the counter, hence above every id issued so far.
    <3>1. \A u \in Threads : now[t] \notin issued[u]
      BY <2>1 DEF IdTypeOK, CounterBound
    <3> QED
      BY <1>3, <3>1 DEF SwapAndReturn, IdTypeOK, UniqueIDs
  <2> QED
    BY <2>2, <2>3, <2>4, <2>5
<1>4. ASSUME NEW t \in Threads, SwapLost(t) PROVE IInv'
  BY <1>4 DEF SwapLost, IdTypeOK, CounterBound, CandidateAbove, UniqueIDs
<1>5. CASE UNCHANGED idVars
  BY <1>5 DEF idVars, IdTypeOK, CounterBound, CandidateAbove, UniqueIDs
<1> QED
  BY <1>1, <1>2, <1>3, <1>4, <1>5 DEF IdNext, IdStep

\* The inductive invariant holds in every reachable state.
THEOREM Invariance == IdSpec => []IInv
<1>1. IdInit => IInv
  BY InitIInv
<1>2. IInv /\ [IdNext]_idVars => IInv'
  BY StepIInv
<1> QED
  BY <1>1, <1>2, PTL DEF IdSpec

\* No two goroutines are ever given the same clientmessageid, whatever the
\* clock does: the compare-and-swap loop alone guarantees it.
THEOREM UniqueIDsHolds == IdSpec => []UniqueIDs
<1>1. IInv => UniqueIDs
  BY DEF IInv
<1> QED
  BY <1>1, Invariance, PTL

\* Each call returns an id above every id returned before it, whoever called.
THEOREM FreshIDsHolds == IdSpec => FreshIDs
<1> DEFINE Above == \A t \in Threads :
                       idPc[t] = "cas" /\ idPc'[t] = "idle" =>
                         /\ now[t] \in issued'[t]
                         /\ \A u \in Threads : \A j \in issued[u] : j < now[t]
<1>1. IInv /\ [IdNext]_idVars => [Above]_idVars
  <2> SUFFICES ASSUME IInv, IdNext, NEW t \in Threads,
                      idPc[t] = "cas", idPc'[t] = "idle"
               PROVE  /\ now[t] \in issued'[t]
                      /\ \A u \in Threads : \A j \in issued[u] : j < now[t]
    OBVIOUS
  <2>1. SwapAndReturn(t)
    <3>1. PICK s \in Threads : ReadClock(s) \/ IdStep(s)
      BY DEF IdNext
    <3>2. s = t
      BY <3>1 DEF ReadClock, IdStep, LoadCounter, SwapAndReturn, SwapLost, IInv, IdTypeOK
    <3> QED
      BY <3>1, <3>2 DEF ReadClock, IdStep, LoadCounter, SwapLost, IInv, IdTypeOK
  <2>2. sendMessageCounter < now[t] /\ now[t] \in issued'[t]
    BY <2>1 DEF SwapAndReturn, IInv, IdTypeOK, CandidateAbove
  <2> QED
    BY <2>2 DEF IInv, IdTypeOK, CounterBound
<1> QED
  BY <1>1, Invariance, PTL DEF IdSpec, FreshIDs

------------------------------------------------------------------------------
\* Every step of a send is a step of the generator or leaves it alone.
LEMMA SendStepIsIdStep == [Next]_vars => [IdNext]_idVars
<1> SUFFICES ASSUME Next PROVE [IdNext]_idVars
  BY DEF vars
<1>1. PICK s \in Threads : StartTyping(s) \/ Typing(s) \/ Receive(s) \/ Step(s)
  BY DEF Next, Senders
<1>2. StartTyping(s) \/ Typing(s) \/ Receive(s) \/ Generate(s) \/ Generated(s) => IdNext
  BY DEF StartTyping, Typing, Receive, Generate, Generated, IdNext, IdStep
<1>3. CASE Step(s) /\ ~Generate(s) /\ ~Generated(s)
  BY <1>3
     DEF Step, client, Downloaded, NotSendable, Unsupported, Unserved, Refused,
        PutReturns, PutLost, SessionReturns, ChunkTaken, ChunkOutOfPlace,
        RangeMisnamed, ChunkCompletes, ChunkLost, DetailReturns, LinkReturns,
        LinkLost, PostReturns, PostLost, idVars
<1> QED
  BY <1>1, <1>2, <1>3

\* Sends generate their ids by the rules of ClientMessageID.
THEOREM SendsUseGenerator == Spec => IdSpec
<1>1. Init => IdInit
  BY DEF Init
<1> QED
  BY <1>1, SendStepIsIdStep, PTL DEF Spec, IdSpec

\* No two sends are given the same clientmessageid.
THEOREM SendsUniqueIDs == Spec => []UniqueIDs
BY SendsUseGenerator, UniqueIDsHolds, PTL

\* Each send's id is above every id given out before it, to whichever send.
THEOREM SendsFreshIDs == Spec => FreshIDs
BY SendsUseGenerator, FreshIDsHolds, PTL

------------------------------------------------------------------------------
Before == {"idle", "typing", "generate"}
Places == Before \cup Requests \cup {"download", "unsupported", "sent", "failed"}

SendTypes ==
    /\ pc \in [Threads -> Places]
    /\ txn \in [Threads -> Nat]
    /\ clientID \in [Threads -> Nat]

\* A send has an id of its own from "generate" on, and posts under it.
OwnID ==
    \A s \in Threads :
        /\ pc[s] \in Before => txn[s] = 0
        /\ pc[s] \notin Before => txn[s] \in issued[s] /\ txn[s] # 0
        /\ pc[s] \in Requests => clientID[s] = txn[s]

NoZeroPosted == \A m \in chat : m.id # 0

SendInv == IInv /\ SendTypes /\ OwnID /\ NoZeroPosted /\ PendingExact

\* What any step past "generate" does to the place of s and to its id.
Moves(s) ==
    \/ /\ \E n \in Places \ (Before \cup {"failed"}) :
            /\ n \in Requests => pc[s] \in Requests
            /\ pc' = [pc EXCEPT ![s] = n]
       /\ pending' = pending
    \/ /\ pc' = [pc EXCEPT ![s] = "failed"]
       /\ pending' = pending \ {txn[s]}

LEMMA MoveKeepsSendInv ==
    ASSUME SendInv, IInv', NEW s \in Threads, pc[s] \notin Before, pc[s] # "failed",
           Moves(s), txn' = txn, clientID' = clientID, issued' = issued,
           \A m \in chat' \ chat : m.id = clientID[s] /\ pc[s] \in Requests
    PROVE  SendInv'
<1> USE DEF SendInv
<1>1. SendTypes'
  BY DEF SendTypes, Moves, Places
<1>2. OwnID'
  BY DEF SendTypes, OwnID, Moves, Before, Requests
<1>3. \A m \in chat' : m.id # 0 /\ \E u \in Threads : txn[u] = m.id
  BY DEF OwnID, NoZeroPosted, PendingExact, Senders, Before, Requests
<1>4. \A u \in Threads : u # s /\ txn[u] # 0 => txn[u] # txn[s]
  BY DEF OwnID, IInv, UniqueIDs, Before
<1>5. \A u \in Threads : txn[u] # 0 => (txn[u] \in pending' <=> pc'[u] # "failed")
  BY <1>4 DEF SendTypes, Moves, PendingExact, Senders
<1> QED
  BY <1>1, <1>2, <1>3, <1>5 DEF NoZeroPosted, PendingExact, Senders

\* A typing notice touches its goroutine's place and the generator alone, and no
\* id is taken back.
LEMMA TypingIsIdle ==
    ASSUME NEW s \in Threads, StartTyping(s) \/ Typing(s), issued \in [Threads -> SUBSET Nat]
    PROVE  /\ pc[s] \in {"idle", "typing"}
           /\ pc' = pc \/ \E n \in {"idle", "typing"} : pc' = [pc EXCEPT ![s] = n]
           /\ UNCHANGED <<size, txn, clientID, pending, start, item, service>>
           /\ \A u \in Threads : issued[u] \subseteq issued'[u]
BY DEF StartTyping, Typing, ReadClock, LoadCounter, SwapAndReturn, SwapLost, service

LEMMA StepSendInv == SendInv /\ [Next]_vars => SendInv'
<1> SUFFICES ASSUME SendInv, [Next]_vars PROVE SendInv'
  OBVIOUS
<1> USE DEF SendInv
<1>1. IInv'
  BY SendStepIsIdStep, StepIInv
<1>2. CASE UNCHANGED vars
  BY <1>1, <1>2 DEF vars, idVars, SendTypes, OwnID, NoZeroPosted, PendingExact
<1>3. ASSUME NEW s \in Threads, Receive(s) PROVE SendInv'
  BY <1>1, <1>3 DEF Receive, ReadClock, service, SendTypes, OwnID, NoZeroPosted,
        PendingExact, Places, Before, Requests, Senders
<1>4. ASSUME NEW s \in Threads, Generate(s) PROVE SendInv'
  BY <1>1, <1>4 DEF Generate, LoadCounter, SwapLost, service, SendTypes, OwnID,
        NoZeroPosted, PendingExact, Senders
<1>5. ASSUME NEW s \in Threads, Generated(s) PROVE SendInv'
  <2> DEFINE id == now[s]
  <2>1. id \in Nat /\ sendMessageCounter \in Nat /\ sendMessageCounter < id
    BY <1>5 DEF Generated, SwapAndReturn, IInv, IdTypeOK, CandidateAbove
  <2>2. \A u \in Threads : txn[u] # id
    BY <2>1 DEF OwnID, IInv, CounterBound, SendTypes, IdTypeOK
  <2>3. /\ txn' = [txn EXCEPT ![s] = id] /\ pending' = pending \cup {id}
        /\ pc' = [pc EXCEPT ![s] = "download"] /\ pc[s] = "generate"
        /\ issued' = [issued EXCEPT ![s] = @ \cup {id}]
        /\ clientID' = clientID /\ chat' = chat
    BY <1>5 DEF Generated, SwapAndReturn, service
  <2>4. SendTypes'
    BY <2>1, <2>3 DEF SendTypes, Places
  <2>5. OwnID'
    BY <2>1, <2>3 DEF OwnID, SendTypes, Before, Requests, IInv, IdTypeOK
  <2>6. \A u \in Threads : txn'[u] # 0 => (txn'[u] \in pending' <=> pc'[u] # "failed")
    BY <2>2, <2>3 DEF SendTypes, PendingExact, Senders
  <2>7. \A m \in chat : \E u \in Threads : txn'[u] = m.id
    \* The send of m is another one: s has no id yet, and m has.
    BY <2>3 DEF SendTypes, OwnID, NoZeroPosted, PendingExact, Senders, Before
  <2> QED
    BY <1>1, <2>3, <2>4, <2>5, <2>6, <2>7 DEF NoZeroPosted, PendingExact, Senders
<1>6. ASSUME NEW s \in Threads, Downloaded(s) PROVE SendInv'
  <2> DEFINE next == IF size[s] > SmallLimit THEN "session" ELSE "put"
  <2>1. /\ pc[s] = "download" /\ pc' = [pc EXCEPT ![s] = next] /\ pending' = pending
        /\ clientID' = [clientID EXCEPT ![s] = txn[s]]
        /\ txn' = txn /\ issued' = issued /\ chat' = chat
    BY <1>6 DEF Downloaded, Goto, service, idVars
  <2>2. next \in Requests
    BY DEF Requests
  <2> HIDE DEF next
  <2> QED
    BY <1>1, <2>1, <2>2 DEF SendTypes, OwnID, NoZeroPosted, PendingExact, Senders,
          Places, Before, Requests
<1>7. ASSUME NEW s \in Threads, Step(s), ~Generate(s), ~Generated(s), ~Downloaded(s)
      PROVE  SendInv'
  <2>1. pc[s] \in Requests \cup {"download"}
    BY <1>7
       DEF Step, NotSendable, Unsupported, Unserved, Refused, PutReturns,
           PutLost,
          SessionReturns, ChunkTaken, Keeps, ChunkOutOfPlace, RangeMisnamed,
          ChunkCompletes, ChunkLost, DetailReturns, LinkReturns, LinkLost,
          PostReturns, PostLost, Requests
  <2>2. Moves(s)
    <3>1. ASSUME NEW n \in Requests \cup {"sent"}, Goto(s, n), pc[s] \in Requests
          PROVE  Moves(s)
      BY <3>1 DEF Goto, Moves, Places, Before, Requests
    <3>2. Fail(s) => Moves(s)
      BY DEF Fail, Moves
    <3>3. Retry(s) /\ pc[s] \in Requests => Moves(s)
      <4>1. ASSUME pc' = pc, pending' = pending, pc[s] \in Requests PROVE Moves(s)
        <5>1. pc' = [pc EXCEPT ![s] = pc[s]]
          BY <4>1 DEF SendTypes
        <5>2. pc[s] \in Places \ (Before \cup {"failed"})
          BY <4>1 DEF Places, Before, Requests
        <5> QED
          BY <4>1, <5>1, <5>2 DEF Moves
      <4> QED
        BY <4>1, <3>2 DEF Retry
    <3>4. ASSUME NEW n, ContinueAt(s, n), pc[s] \in Requests PROVE Moves(s)
      BY <3>1, <3>2, <3>4 DEF ContinueAt, Requests
    <3>5. Unsupported(s) => Moves(s)
      BY DEF Unsupported, Goto, Moves, Places, Before, Requests
    <3>6. UploadReturns(s) /\ pc[s] \in Requests => Moves(s)
      BY <3>1 DEF UploadReturns, Requests
    <3>7. CASE NotSendable(s) \/ Unserved(s) \/ Refused(s)
      BY <3>7, <3>2, <3>3 DEF NotSendable, Unserved, Refused
    <3>8. CASE PutReturns(s) \/ PutLost(s) \/ SessionReturns(s) \/ DetailReturns(s)
      BY <3>8, <3>1, <3>3, <3>6 DEF PutReturns, PutLost, SessionReturns,
            DetailReturns, Requests
    <3>9. CASE ChunkTaken(s) \/ ChunkOutOfPlace(s) \/ RangeMisnamed(s)
      BY <3>9, <3>4
         DEF ChunkTaken, Keeps, ChunkOutOfPlace, RangeMisnamed, Requests
    <3>10. CASE ChunkCompletes(s) \/ ChunkLost(s)
      BY <3>10, <3>3, <3>6 DEF ChunkCompletes, ChunkLost, Keeps, Requests
    <3>11. CASE LinkReturns(s) \/ LinkLost(s) \/ PostReturns(s) \/ PostLost(s)
      BY <3>11, <3>1, <3>3
         DEF LinkReturns, LinkLost, PostReturns, PostLost, Requests
    <3> QED
      BY <1>7, <3>5, <3>7, <3>8, <3>9, <3>10, <3>11 DEF Step
  <2>3. txn' = txn /\ clientID' = clientID /\ issued' = issued
    BY <1>7
       DEF Step, NotSendable, Unsupported, Unserved, Refused, PutReturns,
           PutLost,
          SessionReturns, ChunkTaken, ChunkOutOfPlace, RangeMisnamed, ChunkCompletes,
          ChunkLost, DetailReturns, LinkReturns, LinkLost, PostReturns, PostLost,
          client, idVars
  <2>4. \A m \in chat' \ chat : m.id = clientID[s] /\ pc[s] \in Requests
    BY <1>7
       DEF Step, NotSendable, Unsupported, Unserved, Refused, PutReturns,
           PutLost,
          SessionReturns, ChunkTaken, ChunkOutOfPlace, RangeMisnamed, ChunkCompletes,
          ChunkLost, DetailReturns, LinkReturns, LinkLost, PostReturns, PostLost,
          Post, service, Requests
  <2>5. pc[s] \notin Before /\ pc[s] # "failed"
    BY <2>1 DEF Requests, Before
  <2> QED
    BY <1>1, <2>2, <2>3, <2>4, <2>5, MoveKeepsSendInv
<1>8. ASSUME NEW s \in Threads, StartTyping(s) \/ Typing(s) PROVE SendInv'
  <2>1. issued \in [Threads -> SUBSET Nat] /\ pc \in [Threads -> Places]
    BY DEF IInv, IdTypeOK, SendTypes
  <2>2. /\ pc[s] \in {"idle", "typing"}
        /\ pc' = pc \/ \E n \in {"idle", "typing"} : pc' = [pc EXCEPT ![s] = n]
        /\ UNCHANGED <<txn, clientID, pending, chat>>
        /\ \A u \in Threads : issued[u] \subseteq issued'[u]
    BY <1>8, <2>1, TypingIsIdle DEF service
  <2>3. \A u \in Threads : \/ pc'[u] = pc[u]
                           \/ pc[u] \in {"idle", "typing"} /\ pc'[u] \in {"idle", "typing"}
    BY <2>1, <2>2
  <2>4. SendTypes'
    BY <2>1, <2>2 DEF SendTypes, Places, Before
  <2>5. OwnID'
    BY <2>2, <2>3 DEF OwnID, Before, Requests
  <2>6. NoZeroPosted' /\ PendingExact'
    BY <2>2, <2>3 DEF NoZeroPosted, PendingExact, Senders
  <2> QED
    BY <1>1, <2>4, <2>5, <2>6
<1> QED
  BY <1>2, <1>3, <1>4, <1>5, <1>6, <1>7, <1>8 DEF Next, Senders

\* The pending ids are exactly those of sends that have not failed, and every
\* message in the chat carries the id of a send.
THEOREM PendingExactHolds == Spec => []PendingExact
<1>1. Init => SendInv
  BY InitIInv DEF Init, SendInv, SendTypes, OwnID, NoZeroPosted, PendingExact,
        Places, Before, Requests, Senders
<1>2. SendInv /\ [Next]_vars => SendInv'
  BY StepSendInv
<1>3. SendInv => PendingExact
  BY DEF SendInv
<1> QED
  BY <1>1, <1>2, <1>3, PTL DEF Spec

------------------------------------------------------------------------------
(* The files.  A session holds the beginning of its sender's file, so what it *)
(* stores in the end is the file; items are never changed; and a message      *)
(* links the item of the sender whose id it bears, of which there is one.     *)
Bytes == Threads \X Nat

FileTypes ==
    /\ size \in [Threads -> Nat] /\ start \in [Threads -> Nat]
    /\ item \in [Threads -> Nat]
    /\ received \in [Threads -> Seq(Bytes)]
    /\ drive \in Seq(Seq(Bytes))

Begins(r, s) ==
    /\ r \in Seq(Bytes) /\ Len(r) <= size[s]
    /\ \A i \in 1..Len(r) : r[i] = <<s, i>>

SessionsBegin ==
    \A s \in Threads : /\ Begins(received[s], s)
                       /\ pc[s] \in {"idle", "typing"} => received[s] = <<>>

Uploaded == {"detail", "link", "post"}

Whole(i, s) == i \in 1..Len(drive) /\ drive[i] = Content(s)

ItemsWhole ==
    \A s \in Threads : /\ pc[s] \in Uploaded => Whole(item[s], s)
                       /\ pc[s] = "post" => item[s] \in shared

ChatWhole ==
    \A m \in chat : /\ m.item \in shared
                    /\ \E s \in Threads : txn[s] = m.id /\ Whole(m.item, s)

\* The id posted under is that of the send.
HandedDown == \A s \in Threads : clientID[s] \in {0, txn[s]}

FileInv ==
    SendInv /\ FileTypes /\ SessionsBegin /\ ItemsWhole /\ ChatWhole /\ HandedDown

LEMMA ContentBytes ==
    ASSUME NEW s \in Threads, size[s] \in Nat
    PROVE  /\ Content(s) \in Seq(Bytes)
           /\ Len(Content(s)) = size[s]
           /\ \A i \in 1..size[s] : Content(s)[i] = <<s, i>>
<1>1. \A i \in 1..size[s] : Content(s)[i] = <<s, i>> /\ <<s, i>> \in Bytes
  BY DEF Content, Bytes
<1>2. Content(s) \in [1..size[s] -> Bytes]
  BY <1>1 DEF Content
<1> HIDE DEF Content
<1>3. Content(s) \in Seq(Bytes)
  BY <1>2, SeqDef
<1>4. Len(Content(s)) \in Nat /\ 1..Len(Content(s)) = 1..size[s]
  BY <1>2, <1>3, LenProperties
<1>5. Len(Content(s)) = size[s]
  BY <1>4
<1> QED
  BY <1>1, <1>3, <1>5

\* A session that holds as many bytes as the file has holds the file.
LEMMA BeginsWhole ==
    ASSUME NEW s \in Threads, size[s] \in Nat, NEW r, Begins(r, s), Len(r) = size[s]
    PROVE  r = Content(s)
<1>1. r \in Seq(Bytes) /\ \A i \in 1..Len(r) : r[i] = Content(s)[i]
  BY ContentBytes DEF Begins
<1>2. Content(s) \in Seq(Bytes) /\ Len(Content(s)) = Len(r)
  BY ContentBytes
<1> HIDE DEF Content
<1> QED
  BY <1>1, <1>2, SeqEqual

LEMMA SliceProperties ==
    ASSUME NEW S, NEW q \in Seq(S), NEW a \in Nat, NEW b \in Nat, a <= b, b <= Len(q)
    PROVE  /\ SubSeq(q, a + 1, b) \in Seq(S)
           /\ Len(SubSeq(q, a + 1, b)) = b - a
           /\ \A i \in 1..(b - a) : SubSeq(q, a + 1, b)[i] = q[a + i]
<1>1. \A i \in (a + 1)..b : q[i] \in S
  BY LenProperties
<1>2. a + 1 \in Int /\ b \in Int
  OBVIOUS
<1>3. /\ SubSeq(q, a + 1, b) \in Seq(S)
      /\ Len(SubSeq(q, a + 1, b)) = IF a + 1 <= b THEN b - (a + 1) + 1 ELSE 0
      /\ \A i \in 1..(b - (a + 1) + 1) :
            SubSeq(q, a + 1, b)[i] = q[(a + 1) + i - 1]
  BY <1>1, <1>2, SubSeqProperties
<1>4. \A i \in 1..(b - a) : (a + 1) + i - 1 = a + i
  OBVIOUS
<1> QED
  BY <1>3, <1>4

\* What a session keeps of a chunk that continues it continues the file.
LEMMA KeptBegins ==
    ASSUME FileTypes, SessionsBegin, NEW s \in Threads, NEW k \in Nat, Keeps(s, k)
    PROVE  \E r : received' = [received EXCEPT ![s] = r] /\ Begins(r, s)
<1> DEFINE end == IF start[s] + ChunkSize - 1 >= size[s] THEN size[s] - 1
                  ELSE start[s] + ChunkSize - 1
           old == received[s]
           part == SubSeq(Chunk(s), 1, k)
<1>1. /\ size[s] \in Nat /\ start[s] \in Nat /\ ChunkSize \in Nat \ {0}
      /\ start[s] = Len(old) /\ start[s] < size[s] /\ k <= Len(Chunk(s))
      /\ old \in Seq(Bytes) /\ \A i \in 1..Len(old) : old[i] = <<s, i>>
  BY LimitsAssumption DEF FileTypes, SessionsBegin, Begins, Keeps
<1>2. end \in Nat /\ start[s] <= end /\ end < size[s]
  BY <1>1
<1>3. Chunk(s) = SubSeq(Content(s), start[s] + 1, end + 1)
  BY DEF Chunk
<1> HIDE DEF end
<1>4. /\ Chunk(s) \in Seq(Bytes) /\ Len(Chunk(s)) = end + 1 - start[s]
      /\ \A i \in 1..Len(Chunk(s)) : Chunk(s)[i] = <<s, start[s] + i>>
  <2> HIDE DEF Content
  <2>1. Content(s) \in Seq(Bytes) /\ Len(Content(s)) = size[s]
    BY <1>1, ContentBytes
  <2>2. \A i \in 1..size[s] : Content(s)[i] = <<s, i>>
    BY <1>1, ContentBytes
  <2>3. end + 1 \in Nat /\ start[s] <= end + 1 /\ end + 1 <= Len(Content(s))
    BY <1>1, <1>2, <2>1
  <2> DEFINE content == Content(s)  first == start[s]  last == end + 1
  <2> HIDE DEF content, first, last
  <2>4. /\ Chunk(s) \in Seq(Bytes) /\ Len(Chunk(s)) = end + 1 - start[s]
        /\ \A i \in 1..(end + 1 - start[s]) : Chunk(s)[i] = Content(s)[start[s] + i]
    <3>1. /\ content \in Seq(Bytes) /\ last \in Nat /\ first \in Nat
          /\ first <= last /\ last <= Len(content)
      BY <1>1, <2>1, <2>3 DEF content, first, last
    <3>2. /\ SubSeq(content, first + 1, last) \in Seq(Bytes)
          /\ Len(SubSeq(content, first + 1, last)) = last - first
          /\ \A i \in 1..(last - first) :
                SubSeq(content, first + 1, last)[i] = content[first + i]
      BY <3>1, SliceProperties
    <3>3. Chunk(s) = SubSeq(content, first + 1, last)
      BY <1>3 DEF content, first, last
    <3>4. /\ Chunk(s) \in Seq(Bytes) /\ Len(Chunk(s)) = last - first
          /\ \A i \in 1..(last - first) : Chunk(s)[i] = content[first + i]
      BY <3>2, <3>3
    <3> QED
      BY <1>1, <1>2, <3>4 DEF content, first, last
  <2>5. \A i \in 1..(end + 1 - start[s]) : start[s] + i \in 1..size[s]
    BY <1>1, <1>2
  <2> QED
    BY <2>2, <2>4, <2>5
<1>5. /\ part \in Seq(Bytes) /\ Len(part) = k
      /\ \A i \in 1..k : part[i] = <<s, Len(old) + i>>
  <2> HIDE DEF old
  <2>1. part = SubSeq(Chunk(s), 0 + 1, k) /\ k - 0 = k /\ \A i \in 1..k : 0 + i = i
    BY DEF part
  <2> HIDE DEF part
  <2>2. /\ part \in Seq(Bytes) /\ Len(part) = k
        /\ \A i \in 1..k : part[i] = Chunk(s)[0 + i]
    BY <1>1, <1>4, <2>1, SliceProperties
  <2>3. \A i \in 1..k : i \in 1..Len(Chunk(s))
    BY <1>1, <1>4
  <2> QED
    BY <1>1, <1>4, <2>1, <2>2, <2>3
<1> HIDE DEF part, old
<1>6. Begins(old \o part, s)
  <2>1. old \o part \in Seq(Bytes) /\ Len(old \o part) = Len(old) + k
    BY <1>1, <1>5, ConcatProperties
  <2>2. \A i \in 1..(Len(old) + k) : (old \o part)[i] = <<s, i>>
    <3> SUFFICES ASSUME NEW i \in 1..(Len(old) + k) PROVE (old \o part)[i] = <<s, i>>
      OBVIOUS
    <3>1. (old \o part)[i] = IF i <= Len(old) THEN old[i] ELSE part[i - Len(old)]
      BY <1>1, <1>5, ConcatProperties
    <3>2. CASE i <= Len(old)
      BY <1>1, <3>1, <3>2
    <3>3. CASE ~(i <= Len(old))
      <4>1. i - Len(old) \in 1..k /\ Len(old) + (i - Len(old)) = i
        BY <1>1, <3>3
      <4> QED
        BY <1>5, <3>1, <3>3, <4>1
    <3> QED
      BY <3>2, <3>3
  <2>3. Len(old) + k <= size[s]
    BY <1>1, <1>2, <1>4
  <2> QED
    BY <2>1, <2>2, <2>3 DEF Begins
<1> QED
  BY <1>6 DEF Keeps, old, part

\* What a step of s that does not begin a send does to the files.
MovesFile(s) ==
    /\ size' = size
    /\ \A u \in Threads : txn[u] # 0 => txn'[u] = txn[u]
    /\ start' \in [Threads -> Nat]
    /\ \E r : received' = [received EXCEPT ![s] = r] /\ Begins(r, s)
    /\ drive' \in {drive, Append(drive, Content(s))}
    /\ \E i \in Nat : item' = [item EXCEPT ![s] = i]
    /\ shared \subseteq shared'
    /\ \E n \in Places \ {"idle", "typing"} : pc' = [pc EXCEPT ![s] = n]
    /\ pc'[s] \in Uploaded => Whole(item[s], s)'
    /\ pc'[s] = "post" => item'[s] \in shared'
    /\ \A m \in chat' \ chat :
         txn[s] = m.id /\ Whole(m.item, s) /\ m.item \in shared

LEMMA WholeKept ==
    ASSUME FileTypes, NEW s \in Threads, NEW u \in Threads, NEW i, size' = size,
           drive' \in {drive, Append(drive, Content(s))}, Whole(i, u)
    PROVE  Whole(i, u)'
<1>1. Content(u)' = Content(u)
  BY DEF Content
<1>2. Content(s) \in Seq(Bytes)
  BY ContentBytes DEF FileTypes
<1> HIDE DEF Content
<1>3. CASE drive' = drive
  BY <1>1, <1>3 DEF Whole
<1>4. CASE drive' = Append(drive, Content(s))
  <2>1. /\ Len(drive') = Len(drive) + 1 /\ Len(drive) \in Nat
        /\ \A j \in 1..Len(drive) : drive'[j] = drive[j]
    BY <1>2, <1>4, AppendProperties, LenProperties DEF FileTypes
  <2> QED
    BY <1>1, <2>1 DEF Whole
<1> QED
  BY <1>3, <1>4

LEMMA MoveKeepsFiles ==
    ASSUME FileInv, SendInv', HandedDown', NEW s \in Threads, MovesFile(s)
    PROVE  FileInv'
<1>1. Content(s) \in Seq(Bytes)
  BY ContentBytes DEF FileInv, FileTypes
<1>2. \A u \in Threads : \A i : Whole(i, u) => Whole(i, u)'
  BY WholeKept DEF FileInv, MovesFile
<1>3. PICK r : received' = [received EXCEPT ![s] = r] /\ Begins(r, s)
  BY DEF MovesFile
<1>4. FileTypes'
  <2>1. drive' \in Seq(Seq(Bytes))
    <3> DEFINE Files == Seq(Bytes)
    <3>1. drive \in Seq(Files) /\ Content(s) \in Files
      BY <1>1 DEF FileInv, FileTypes
    <3> HIDE DEF Files
    <3>2. Append(drive, Content(s)) \in Seq(Files)
      BY <3>1, AppendProperties
    <3>3. drive' \in Seq(Files)
      BY <3>1, <3>2 DEF MovesFile
    <3> QED
      BY <3>3 DEF Files
  <2> QED
    BY <1>3, <2>1 DEF FileInv, FileTypes, MovesFile, Begins
<1>5. SessionsBegin'
  <2> SUFFICES ASSUME NEW u \in Threads
               PROVE  /\ Begins(received[u], u)'
                      /\ pc'[u] \in {"idle", "typing"} => received'[u] = <<>>
    BY DEF SessionsBegin
  <2>1. received \in [Threads -> Seq(Bytes)] /\ pc \in [Threads -> Places]
    BY DEF FileInv, FileTypes, SendInv, SendTypes
  <2>2. CASE u = s
    <3>1. received'[u] = r /\ pc'[u] \notin {"idle", "typing"}
      BY <1>3, <2>1, <2>2 DEF MovesFile
    <3> QED
      BY <1>3, <2>2, <3>1 DEF Begins, MovesFile
  <2>3. CASE u # s
    <3>1. received'[u] = received[u] /\ pc'[u] = pc[u]
      BY <1>3, <2>1, <2>3 DEF MovesFile
    <3> QED
      BY <3>1 DEF FileInv, SessionsBegin, Begins, MovesFile
  <2> QED
    BY <2>2, <2>3
<1>6. ItemsWhole'
  BY <1>2 DEF FileInv, FileTypes, SendInv, SendTypes, ItemsWhole, MovesFile, Uploaded
<1>7. ChatWhole'
  <2> SUFFICES ASSUME NEW m \in chat'
               PROVE  /\ m.item \in shared'
                      /\ \E u \in Threads : txn'[u] = m.id /\ Whole(m.item, u)'
    BY DEF ChatWhole
  <2>1. PICK u \in Threads : txn[u] = m.id /\ Whole(m.item, u) /\ m.item \in shared
    BY DEF FileInv, ChatWhole, MovesFile
  <2>2. txn[u] # 0
    <3>1. CASE m \in chat
      BY <2>1, <3>1 DEF FileInv, SendInv, NoZeroPosted
    <3>2. CASE m \notin chat
      \* A new message: no send posts under 0.
      BY <2>1, <3>2, <1>2 DEF MovesFile, SendInv, NoZeroPosted
    <3> QED
      BY <3>1, <3>2
  <2> QED
    BY <1>2, <2>1, <2>2 DEF MovesFile
<1> QED
  BY <1>4, <1>5, <1>6, <1>7 DEF FileInv

\* A step that at most moves s to another place, shares its item or posts it.
LEMMA QuietMove ==
    ASSUME FileInv, NEW s \in Threads, size' = size, drive' = drive, item' = item,
           \A u \in Threads : txn[u] # 0 => txn'[u] = txn[u],
           start' \in [Threads -> Nat],
           \E r : received' = [received EXCEPT ![s] = r] /\ Begins(r, s),
           NEW n \in Places \ {"idle", "typing"}, pc' = [pc EXCEPT ![s] = n],
           n \in Uploaded => pc[s] \in Uploaded,
           shared \subseteq shared', n = "post" => pc[s] = "post" \/ item[s] \in shared',
           \A m \in chat' \ chat :
              pc[s] = "post" /\ m = [id |-> clientID[s], item |-> item[s]]
    PROVE  MovesFile(s)
<1>1. item \in [Threads -> Nat] /\ pc \in [Threads -> Places]
  BY DEF FileInv, FileTypes, SendInv, SendTypes
<1>2. \E i \in Nat : item' = [item EXCEPT ![s] = i]
  <2>1. item[s] \in Nat /\ item' = [item EXCEPT ![s] = item[s]]
    BY <1>1
  <2> QED
    BY <2>1
<1>3. pc'[s] = n
  BY <1>1
<1>4. pc'[s] \in Uploaded => Whole(item[s], s)'
  BY <1>3 DEF FileInv, ItemsWhole, Whole, Content
<1>5. pc'[s] = "post" => item'[s] \in shared'
  BY <1>3 DEF FileInv, ItemsWhole
<1>6. \A m \in chat' \ chat : txn[s] = m.id /\ Whole(m.item, s) /\ m.item \in shared
  BY DEF FileInv, ItemsWhole, SendInv, OwnID, Requests, Uploaded
<1> QED
  BY <1>2, <1>4, <1>5, <1>6 DEF MovesFile

\* A step that stores the file of s, and has or has not told s of it.
LEMMA StoringMove ==
    ASSUME FileInv, NEW s \in Threads, size' = size, txn' = txn, start' = start,
           \E r : received' = [received EXCEPT ![s] = r] /\ Begins(r, s),
           drive' = Append(drive, Content(s)), shared' = shared, chat' = chat,
           pc[s] \in {"put", "chunk"},
           UploadReturns(s) \/ (Retry(s) /\ item' = item)
    PROVE  MovesFile(s)
<1>1. /\ item \in [Threads -> Nat] /\ pc \in [Threads -> Places]
      /\ start \in [Threads -> Nat] /\ drive \in Seq(Seq(Bytes))
  BY DEF FileInv, FileTypes, SendInv, SendTypes
<1>2. Content(s) \in Seq(Bytes) /\ Content(s)' = Content(s)
  BY ContentBytes DEF FileInv, FileTypes, Content
<1> HIDE DEF Content
<1>3. Len(drive') \in Nat /\ Len(drive') \in 1..Len(drive') /\ drive'[Len(drive')] = Content(s)
  <2> DEFINE Files == Seq(Bytes)
  <2>1. drive \in Seq(Files) /\ Content(s) \in Files
    BY <1>1, <1>2
  <2> HIDE DEF Files
  <2> QED
    BY <2>1, AppendProperties, LenProperties
<1>4. CASE UploadReturns(s)
  <2>1. PICK n \in {"link", "detail"} : pc' = [pc EXCEPT ![s] = n]
    BY <1>4 DEF UploadReturns, Goto
  <2>2. item' = [item EXCEPT ![s] = Len(drive')] /\ item'[s] = Len(drive')
    BY <1>1, <1>4 DEF UploadReturns
  <2>3. Whole(item[s], s)'
    BY <1>2, <1>3, <2>2 DEF Whole
  <2> QED
    BY <1>1, <1>3, <2>1, <2>2, <2>3 DEF MovesFile, Places, Requests
<1>5. CASE Retry(s) /\ item' = item
  <2>1. PICK n \in {"put", "chunk", "failed"} : pc' = [pc EXCEPT ![s] = n]
    BY <1>1, <1>5 DEF Retry, Fail
  <2>2. item[s] \in Nat /\ item' = [item EXCEPT ![s] = item[s]]
    BY <1>1, <1>5
  <2>3. pc'[s] = n
    BY <1>1, <2>1
  <2> QED
    BY <1>1, <2>1, <2>2, <2>3 DEF MovesFile, Places, Requests, Uploaded
<1> QED
  BY <1>4, <1>5

LEMMA StepMovesFile ==
    ASSUME FileInv, NEW s \in Threads, Step(s)
    PROVE  MovesFile(s)
<1> DEFINE Same(r) == received' = [received EXCEPT ![s] = r] /\ Begins(r, s)
<1>1. /\ pc \in [Threads -> Places] /\ start \in [Threads -> Nat]
      /\ received \in [Threads -> Seq(Bytes)] /\ size[s] \in Nat
      /\ pc[s] \in Requests => pc[s] \in Places \ {"idle", "typing"}
  BY DEF FileInv, FileTypes, SendInv, SendTypes, Places, Requests
<1>2. received' = received => \E r : Same(r)
  <2>1. received = [received EXCEPT ![s] = received[s]] /\ Begins(received[s], s)
    BY <1>1 DEF FileInv, SessionsBegin
  <2> QED
    BY <2>1
<1>3. \A k \in Nat : Keeps(s, k) => \E r : Same(r)
  BY KeptBegins DEF FileInv
<1>4. ASSUME NEW n, ContinueAt(s, n), n \in Nat, pc[s] = "chunk"
      PROVE  /\ start' \in [Threads -> Nat]
             /\ \E p \in {"chunk", "failed"} : pc' = [pc EXCEPT ![s] = p]
  BY <1>1, <1>4 DEF ContinueAt, Goto, Fail
<1>5. Retry(s) \/ Fail(s) =>
         \E p \in {pc[s], "failed"} : pc' = [pc EXCEPT ![s] = p]
  BY <1>1 DEF Retry, Fail
<1> HIDE DEF Same
<1>6. CASE Generate(s) \/ Generated(s) \/ Downloaded(s) \/ NotSendable(s) \/ Unsupported(s)
  <2>1. \E p \in {"generate", "download", "session", "put", "failed", "unsupported"} :
           pc' = [pc EXCEPT ![s] = p]
    BY <1>1, <1>6, <1>5
       DEF Generate, Generated, Downloaded, NotSendable, Unsupported, Goto
  <2>2. /\ size' = size /\ drive' = drive /\ item' = item /\ start' = start
        /\ received' = received /\ shared' = shared /\ chat' = chat
    BY <1>6 DEF Generate, Generated, Downloaded, NotSendable, Unsupported, client, service
  <2>3. \A u \in Threads : txn[u] # 0 => txn'[u] = txn[u]
    BY <1>6 DEF Generate, Generated, Downloaded, NotSendable, Unsupported, client,
          FileInv, SendInv, SendTypes, OwnID, Before
  <2> QED
    BY <1>1, <1>2, <2>1, <2>2, <2>3, QuietMove DEF Same, Places, Before, Requests, Uploaded
<1>7. CASE Unserved(s) \/ Refused(s) \/ LinkLost(s) \/ PostLost(s)
  <2>1. pc[s] \in Requests /\ \E p \in {pc[s], "failed"} : pc' = [pc EXCEPT ![s] = p]
    BY <1>7, <1>5 DEF Unserved, Refused, LinkLost, PostLost, Requests
  <2>2. /\ size' = size /\ drive' = drive /\ item' = item /\ start' = start
        /\ received' = received /\ shared \subseteq shared' /\ txn' = txn
        /\ \A m \in chat' \ chat :
             pc[s] = "post" /\ m = [id |-> clientID[s], item |-> item[s]]
    BY <1>7 DEF Unserved, Refused, LinkLost, PostLost, Post, client, service
  <2> QED
    BY <1>1, <1>2, <2>1, <2>2, QuietMove DEF Same, Places, Requests, Uploaded
<1>8. CASE DetailReturns(s) \/ LinkReturns(s) \/ PostReturns(s)
  <2>1. /\ \E p \in {"link", "post", "sent"} :
             /\ pc' = [pc EXCEPT ![s] = p]
             /\ p \in Uploaded => pc[s] \in Uploaded
             /\ p = "post" => item[s] \in shared'
    BY <1>8 DEF DetailReturns, LinkReturns, PostReturns, Goto, Uploaded
  <2>2. /\ size' = size /\ drive' = drive /\ item' = item /\ start' = start
        /\ received' = received /\ shared \subseteq shared' /\ txn' = txn
        /\ \A m \in chat' \ chat :
             pc[s] = "post" /\ m = [id |-> clientID[s], item |-> item[s]]
    BY <1>8 DEF DetailReturns, LinkReturns, PostReturns, Post, client, service
  <2> QED
    BY <1>1, <1>2, <2>1, <2>2, QuietMove DEF Same, Places, Requests
<1>9. CASE SessionReturns(s)
  <2>1. Same(<<>>)
    BY <1>1, <1>9 DEF SessionReturns, Begins, Same
  <2>2. /\ size' = size /\ drive' = drive /\ item' = item /\ shared' = shared
        /\ chat' = chat /\ txn' = txn /\ start' \in [Threads -> Nat]
        /\ pc' = [pc EXCEPT ![s] = "chunk"]
    BY <1>1, <1>9 DEF SessionReturns, Goto, client
  <2> QED
    BY <2>1, <2>2, QuietMove DEF Same, Places, Requests, Uploaded
<1>10. CASE ChunkTaken(s) \/ ChunkOutOfPlace(s) \/ RangeMisnamed(s)
  <2>1. \E r : Same(r)
    BY <1>2, <1>3, <1>10, LimitsAssumption
       DEF ChunkTaken, ChunkOutOfPlace, RangeMisnamed, service
  <2>2. \E n \in Nat : ContinueAt(s, n)
    <3>1. Len(received[s]) \in Nat
      BY <1>1
    <3>2. CASE ChunkTaken(s)
      <4>1. PICK r : Same(r)
        BY <2>1
      <4>2. received'[s] = r /\ Len(r) \in Nat
        BY <1>1, <4>1 DEF Same, Begins
      <4> QED
        BY <3>2, <4>2 DEF ChunkTaken
    <3> QED
      BY <1>1, <1>10, <3>1, <3>2 DEF ChunkOutOfPlace, RangeMisnamed
  <2>3. /\ size' = size /\ drive' = drive /\ item' = item /\ shared' = shared
        /\ chat' = chat /\ txn' = txn /\ pc[s] = "chunk"
    BY <1>10 DEF ChunkTaken, ChunkOutOfPlace, RangeMisnamed, Keeps, client, service
  <2> QED
    BY <1>4, <2>1, <2>2, <2>3, QuietMove DEF Same, Places, Requests, Uploaded
<1>11. CASE PutReturns(s) \/ PutLost(s)
  <2>1. /\ size' = size /\ drive' = Append(drive, Content(s)) /\ start' = start
        /\ received' = received /\ shared' = shared /\ chat' = chat /\ txn' = txn
        /\ pc[s] = "put" /\ (UploadReturns(s) \/ (Retry(s) /\ item' = item))
    BY <1>11 DEF PutReturns, PutLost, Stored, client
  <2> QED
    BY <1>2, <2>1, StoringMove DEF Same
<1>12. CASE ChunkCompletes(s) \/ ChunkLost(s)
  <2>1. PICK r : Same(r)
    BY <1>3, <1>12, LimitsAssumption DEF ChunkCompletes, ChunkLost
  <2>2. received'[s] = r /\ (Len(r) = size[s] => r = Content(s))
    BY <1>1, <2>1, BeginsWhole DEF Same
  <2>3. /\ size' = size /\ start' = start /\ shared' = shared /\ chat' = chat
        /\ txn' = txn /\ pc[s] = "chunk"
    BY <1>12 DEF ChunkCompletes, ChunkLost, Keeps, client
  <2>4. CASE drive' = Append(drive, Content(s))
    <3>1. UploadReturns(s) \/ (Retry(s) /\ item' = item)
      BY <1>12 DEF ChunkCompletes, ChunkLost
    <3> QED
      BY <2>1, <2>3, <2>4, <3>1, StoringMove DEF Same
  <2>5. CASE drive' # Append(drive, Content(s))
    <3>1. drive' = drive /\ Retry(s) /\ item' = item
      BY <1>12, <2>2, <2>5 DEF ChunkCompletes, ChunkLost, Stored
    <3> QED
      BY <1>1, <1>5, <2>1, <2>3, <3>1, QuietMove DEF Same, Places, Requests, Uploaded
  <2> QED
    BY <2>4, <2>5
<1> QED
  BY <1>6, <1>7, <1>8, <1>9, <1>10, <1>11, <1>12 DEF Step

LEMMA StepHandedDown == FileInv /\ [Next]_vars => HandedDown'
<1> SUFFICES ASSUME FileInv, [Next]_vars PROVE HandedDown'
  OBVIOUS
<1>1. /\ txn \in [Threads -> Nat] /\ clientID \in [Threads -> Nat] /\ HandedDown
      /\ \A s \in Threads : pc[s] = "generate" => txn[s] = 0
  BY DEF FileInv, SendInv, SendTypes, OwnID, Before
<1>2. CASE txn' = txn /\ clientID' = clientID
  BY <1>1, <1>2 DEF HandedDown
<1>3. ASSUME NEW s \in Threads, Generated(s) PROVE HandedDown'
  BY <1>1, <1>3 DEF Generated, HandedDown
<1>4. ASSUME NEW s \in Threads, Downloaded(s) PROVE HandedDown'
  BY <1>1, <1>4 DEF Downloaded, HandedDown
<1>5. ASSUME NEW s \in Threads, Receive(s) \/ Step(s), ~Generated(s), ~Downloaded(s)
      PROVE  txn' = txn /\ clientID' = clientID
  BY <1>5
     DEF Receive, Step, Generate, NotSendable, Unsupported, Unserved, Refused,
        PutReturns, PutLost, SessionReturns, ChunkTaken, ChunkOutOfPlace,
        RangeMisnamed, ChunkCompletes, ChunkLost, DetailReturns, LinkReturns,
        LinkLost, PostReturns, PostLost, client
<1>6. UNCHANGED vars => txn' = txn /\ clientID' = clientID
  BY DEF vars
<1>7. ASSUME NEW s \in Threads, StartTyping(s) \/ Typing(s) PROVE HandedDown'
  BY <1>2, <1>7 DEF StartTyping, Typing
<1> QED
  BY <1>2, <1>3, <1>4, <1>5, <1>6, <1>7 DEF Next, Senders

\* A new send has no id and no item yet, so the size of its file is nobody's.
LEMMA ReceiveKeepsFiles ==
    ASSUME FileInv, SendInv', HandedDown', NEW s \in Threads, Receive(s)
    PROVE  FileInv'
<1>1. PICK n \in Nat : size' = [size EXCEPT ![s] = n]
  BY SizesAssumption DEF Receive
<1>2. /\ pc[s] = "idle" /\ pc' = [pc EXCEPT ![s] = "generate"] /\ start' = start
      /\ item' = item /\ received' = received /\ drive' = drive /\ shared' = shared
      /\ chat' = chat /\ txn' = txn
  BY DEF Receive, service
<1>3. /\ FileTypes /\ pc \in [Threads -> Places] /\ received[s] = <<>> /\ txn[s] = 0
  BY <1>2 DEF FileInv, SendInv, SendTypes, OwnID, Before, SessionsBegin
<1>4. FileTypes'
  BY <1>1, <1>2, <1>3 DEF FileTypes
<1>5. \A u \in Threads : u # s => size'[u] = size[u] /\ Content(u)' = Content(u)
  BY <1>1, <1>3 DEF FileTypes, Content
<1>6. \A u \in Threads : \A i : u # s /\ Whole(i, u) => Whole(i, u)'
  BY <1>2, <1>5 DEF Whole
<1>7. SessionsBegin'
  <2> SUFFICES ASSUME NEW u \in Threads
               PROVE  /\ Begins(received[u], u)'
                      /\ pc'[u] \in {"idle", "typing"} => received'[u] = <<>>
    BY DEF SessionsBegin
  <2>1. CASE u # s
    BY <1>2, <1>3, <1>5, <2>1 DEF FileInv, SessionsBegin, Begins
  <2>2. CASE u = s
    BY <1>1, <1>2, <1>3, <2>2 DEF Begins, FileTypes
  <2> QED
    BY <2>1, <2>2
<1>8. ItemsWhole'
  BY <1>2, <1>3, <1>6 DEF FileInv, ItemsWhole, Uploaded
<1>9. ChatWhole'
  BY <1>2, <1>3, <1>6 DEF FileInv, ChatWhole, SendInv, NoZeroPosted
<1> QED
  BY <1>4, <1>7, <1>8, <1>9 DEF FileInv

\* A typing notice leaves the files alone.
LEMMA TypingKeepsFiles ==
    ASSUME FileInv, SendInv', HandedDown', NEW s \in Threads, StartTyping(s) \/ Typing(s)
    PROVE  FileInv'
<1>1. issued \in [Threads -> SUBSET Nat] /\ pc \in [Threads -> Places]
  BY DEF FileInv, SendInv, SendTypes, IInv, IdTypeOK
<1>2. /\ pc[s] \in {"idle", "typing"}
      /\ pc' = pc \/ \E n \in {"idle", "typing"} : pc' = [pc EXCEPT ![s] = n]
      /\ UNCHANGED <<size, txn, start, item, received, drive, shared, chat>>
  BY <1>1, TypingIsIdle DEF service
<1>3. FileTypes' /\ ChatWhole'
  BY <1>2 DEF FileInv, FileTypes, ChatWhole, Whole, Content
<1>4. SessionsBegin'
  BY <1>1, <1>2 DEF FileInv, SessionsBegin, Begins
<1>5. ItemsWhole'
  BY <1>1, <1>2 DEF FileInv, ItemsWhole, Whole, Content, Uploaded
<1> QED
  BY <1>3, <1>4, <1>5 DEF FileInv

\* Every message in the chat links a shared file with all the bytes of its sender.
THEOREM PostedFilesAreUsable == Spec => []PostedFilesUsable
<1>1. Init => FileInv
  <2> SUFFICES ASSUME Init PROVE FileInv
    OBVIOUS
  <2>1. SendInv
    BY InitIInv DEF Init, SendInv, SendTypes, OwnID, NoZeroPosted, PendingExact,
          Places, Before, Requests, Senders
  <2>2. FileTypes /\ SessionsBegin /\ ItemsWhole /\ ChatWhole /\ HandedDown
    BY DEF Init, FileTypes, SessionsBegin, Begins, ItemsWhole, ChatWhole,
          HandedDown, Uploaded, Senders
  <2> QED
    BY <2>1, <2>2 DEF FileInv
<1>2. FileInv /\ [Next]_vars => FileInv'
  <2> SUFFICES ASSUME FileInv, [Next]_vars PROVE FileInv'
    OBVIOUS
  <2>1. SendInv' /\ HandedDown'
    BY StepSendInv, StepHandedDown DEF FileInv
  <2>2. CASE UNCHANGED vars
    BY <2>1, <2>2 DEF vars, FileInv, FileTypes, SessionsBegin, Begins, ItemsWhole,
          ChatWhole, Whole, Content
  <2>3. ASSUME NEW s \in Threads, Receive(s) PROVE FileInv'
    BY <2>1, <2>3, ReceiveKeepsFiles
  <2>4. ASSUME NEW s \in Threads, Step(s) PROVE FileInv'
    BY <2>1, <2>4, StepMovesFile, MoveKeepsFiles
  <2>5. ASSUME NEW s \in Threads, StartTyping(s) \/ Typing(s) PROVE FileInv'
    BY <2>1, <2>5, TypingKeepsFiles
  <2> QED
    BY <2>2, <2>3, <2>4, <2>5 DEF Next, Senders
<1>3. FileInv => PostedFilesUsable
  <2> SUFFICES ASSUME FileInv, NEW m \in chat
               PROVE  /\ m.item \in shared
                      /\ \A s \in Threads : m.id # 0 /\ m.id = clientID[s]
                                               => drive[m.item] = Content(s)
    BY DEF PostedFilesUsable, Senders
  <2>1. PICK u \in Threads : txn[u] = m.id /\ Whole(m.item, u) /\ m.item \in shared
    BY DEF FileInv, ChatWhole
  <2>2. \A s \in Threads : m.id # 0 /\ m.id = clientID[s] => s = u
    \* s posts under its own id, and ids are unique.
    BY <2>1 DEF FileInv, HandedDown, SendInv, OwnID, IInv, UniqueIDs
  <2> QED
    BY <2>1, <2>2 DEF Whole
<1> QED
  BY <1>1, <1>2, <1>3, PTL DEF Spec
==============================================================================
