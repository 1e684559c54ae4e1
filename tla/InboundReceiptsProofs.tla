------------------------- MODULE InboundReceiptsProofs -------------------------
(* Proofs about the receipts of one thread, for any number of pollers,         *)
(* horizons, restarts and other users.  Unless two polls overlap, a poller     *)
(* between Compare and StoreHorizon is alone, so the row it compared with is   *)
(* still the one it overwrites.                                                *)
EXTENDS InboundReceipts, TLAPS

\* The larger of two numbers.
LEMMA MaxOfTwo ==
    ASSUME NEW a \in Nat, NEW b \in Nat
    PROVE  Max({a, b}) \in {a, b} /\ Max({a, b}) >= a /\ Max({a, b}) >= b
<1>1. \E x \in {a, b} : \A y \in {a, b} : x >= y
  <2>1. CASE a >= b
    BY <2>1
  <2>2. CASE b >= a
    BY <2>2
  <2> QED
    BY <2>1, <2>2
<1> QED
  BY <1>1 DEF Max

------------------------------------------------------------------------------
\* What the proofs need to know of the types.
Typed ==
    /\ remote \in Nat /\ lastRead \in Nat /\ sent \in Nat
    /\ pc \in [Pollers -> {"idle", "throttle", "get", "compare", "queue", "store"}]
    /\ latest \in [Pollers -> Nat]

Writing == {"queue", "store"}

\* One poller at most is about to write the row, and with a horizon beyond it.
Alone ==
    ~overlapped =>
        \A p \in Pollers : pc[p] \in Writing =>
            /\ latest[p] > lastRead
            /\ \A q \in Pollers : pc[q] \in Writing => q = p

\* What was sent is in the row, or a poller is about to store it.
SentStored ==
    ~overlapped /\ ~unstored =>
        /\ ~repeated
        /\ \/ sent <= lastRead
           \/ \E p \in Pollers : pc[p] = "store" /\ sent = latest[p]
        /\ \A p \in Pollers : pc[p] = "queue" => sent <= lastRead

HorizonInv == Typed /\ Alone /\ SentStored

\* The invariant holds at the start.
LEMMA InitHorizonInv == Init => HorizonInv
BY DEF Init, HorizonInv, Typed, Alone, SentStored, Writing

\* Every step preserves it.
LEMMA StepHorizonInv ==
    ASSUME HorizonInv, [Next]_vars
    PROVE  HorizonInv'
<1> USE HorizonAssumption DEF HorizonInv, histVars, Return
<1>1. CASE RemoteReads
  <2> USE <1>1 DEF RemoteReads
  <2>1. Typed'
    BY DEF Typed
  <2>2. Alone'
    BY DEF Typed, Alone, Writing
  <2>3. SentStored'
    BY DEF Typed, Alone, SentStored, Writing
  <2> QED
    BY <2>1, <2>2, <2>3
<1>2. CASE RemoteJoins
  <2> USE <1>2 DEF RemoteJoins
  <2>1. Typed'
    BY DEF Typed
  <2>2. Alone'
    BY DEF Typed, Alone, Writing
  <2>3. SentStored'
    BY DEF Typed, Alone, SentStored, Writing
  <2> QED
    BY <2>1, <2>2, <2>3
<1>3. CASE Tick
  <2> USE <1>3 DEF Tick
  <2>1. Typed'
    BY DEF Typed
  <2>2. Alone'
    BY DEF Typed, Alone, Writing
  <2>3. SentStored'
    BY DEF Typed, Alone, SentStored, Writing
  <2> QED
    BY <2>1, <2>2, <2>3
<1>4. CASE Crash
  <2> USE <1>4 DEF Crash
  <2>1. Typed'
    BY DEF Typed
  <2>2. Alone'
    BY DEF Typed, Alone, Writing
  <2>3. SentStored'
    BY DEF Typed, Alone, SentStored, Writing
  <2> QED
    BY <2>1, <2>2, <2>3
<1>5. ASSUME NEW p \in Pollers, BeginPass(p)
      PROVE  HorizonInv'
  <2> USE <1>5 DEF BeginPass
  <2>1. Typed'
    BY DEF Typed
  <2>2. Alone'
    BY DEF Typed, Alone, Writing
  <2>3. SentStored'
    BY DEF Typed, Alone, SentStored, Writing
  <2> QED
    BY <2>1, <2>2, <2>3
<1>6. ASSUME NEW p \in Pollers, shouldPollReceipts(p)
      PROVE  HorizonInv'
  <2> USE <1>6 DEF shouldPollReceipts
  <2>1. Typed'
    BY DEF Typed
  <2>2. Alone'
    BY DEF Typed, Alone, Writing
  <2>3. SentStored'
    BY DEF Typed, Alone, SentStored, Writing
  <2> QED
    BY <2>1, <2>2, <2>3
<1>7. ASSUME NEW p \in Pollers, GetHorizon(p)
      PROVE  HorizonInv'
  <2> USE <1>7 DEF GetHorizon
  <2>1. Typed'
    BY DEF Typed
  <2>2. Alone'
    BY DEF Typed, Alone, Writing
  <2>3. SentStored'
    BY DEF Typed, Alone, SentStored, Writing
  <2> QED
    BY <2>1, <2>2, <2>3
<1>8. ASSUME NEW p \in Pollers, PollFails(p)
      PROVE  HorizonInv'
  <2> USE <1>8 DEF PollFails
  <2>1. Typed'
    BY DEF Typed
  <2>2. Alone'
    BY DEF Typed, Alone, Writing
  <2>3. SentStored'
    BY DEF Typed, Alone, SentStored, Writing
  <2> QED
    BY <2>1, <2>2, <2>3
<1>9. ASSUME NEW p \in Pollers, Compare(p)
      PROVE  HorizonInv'
  <2> USE <1>9 DEF Compare
  <2>1. Typed'
    BY DEF Typed
  <2>2. Alone'
    <3>1. lastRead' = lastRead /\ \A q \in Pollers : q # p => latest'[q] = latest[q]
      BY DEF Typed, Return
    <3>2. CASE latest[p] > lastRead /\ pc' = [pc EXCEPT ![p] = "queue"]
      <4>1. latest' = latest
        BY <3>2 DEF Typed
      <4> QED
        BY <3>1, <3>2, <4>1 DEF Typed, Alone, Writing
    <3>3. CASE overlapped' = overlapped /\ pc' = [pc EXCEPT ![p] = "idle"]
      BY <3>1, <3>3 DEF Typed, Alone, Writing
    <3> QED
      BY <3>2, <3>3 DEF Return
  <2>3. SentStored'
    BY DEF Typed, Alone, SentStored, Writing
  <2> QED
    BY <2>1, <2>2, <2>3
<1>10. ASSUME NEW p \in Pollers, QueueReceipt(p)
      PROVE  HorizonInv'
  <2> USE <1>10 DEF QueueReceipt
  <2>1. Typed'
    <3>1. latest[p] \in Nat /\ sent \in Nat
      BY DEF Typed
    <3>2. sent' \in Nat
      BY <3>1, MaxOfTwo
    <3>3. pc' \in [Pollers -> {"idle", "throttle", "get", "compare", "queue", "store"}]
      BY DEF Typed
    <3> QED
      BY <3>2, <3>3 DEF Typed
  <2>2. Alone'
    BY DEF Typed, Alone, Writing
  <2>3. SentStored'
    <3>1. latest[p] \in Nat /\ sent \in Nat /\ lastRead \in Nat
      BY DEF Typed
    <3>2. sent' \in {sent, latest[p]} /\ sent' >= sent /\ sent' >= latest[p]
      BY <3>1, MaxOfTwo
    <3>3. ASSUME ~overlapped, ~unstored
          PROVE  sent <= lastRead /\ latest[p] > lastRead
      BY <3>3 DEF SentStored, Alone, Writing
    <3>4. pc'[p] = "store" /\ \A q \in Pollers : q # p => pc'[q] = pc[q]
      BY DEF Typed
    <3>5. ASSUME ~overlapped, NEW q \in Pollers
          PROVE  pc'[q] # "queue"
      BY <3>4, <3>5 DEF Alone, Writing
    <3>6. ASSUME ~overlapped, ~unstored
          PROVE  ~repeated' /\ sent' = latest'[p]
      <4>1. ~repeated /\ ~(latest[p] <= sent) /\ sent' = latest[p]
        BY <3>1, <3>2, <3>3, <3>6 DEF SentStored
      <4> QED
        BY <4>1
    <3> QED
      BY <3>4, <3>5, <3>6 DEF SentStored
  <2> QED
    BY <2>1, <2>2, <2>3
<1>11. ASSUME NEW p \in Pollers, StoreHorizon(p)
      PROVE  HorizonInv'
  <2> USE <1>11 DEF StoreHorizon
  <2>1. Typed'
    BY DEF Typed
  <2>2. Alone'
    BY DEF Typed, Alone, Writing
  <2>3. SentStored'
    BY DEF Typed, Alone, SentStored, Writing
  <2> QED
    BY <2>1, <2>2, <2>3
<1>12. ASSUME NEW p \in Pollers, StoreFails(p)
      PROVE  HorizonInv'
  <2> USE <1>12 DEF StoreFails
  <2>1. Typed'
    BY DEF Typed
  <2>2. Alone'
    BY DEF Typed, Alone, Writing
  <2>3. SentStored'
    BY DEF Typed, Alone, SentStored, Writing
  <2> QED
    BY <2>1, <2>2, <2>3
<1>13. CASE UNCHANGED vars
  <2> USE <1>13 DEF vars
  <2>1. Typed'
    BY DEF Typed
  <2>2. Alone'
    BY DEF Typed, Alone, Writing
  <2>3. SentStored'
    BY DEF Typed, Alone, SentStored, Writing
  <2> QED
    BY <2>1, <2>2, <2>3
<1> QED
  BY <1>1, <1>2, <1>3, <1>4, <1>5, <1>6, <1>7, <1>8, <1>9, <1>10, <1>11, <1>12,
     <1>13
     DEF Next, Poll

\* So it holds throughout.
THEOREM HorizonInvHolds == Spec => []HorizonInv
<1>1. HorizonInv /\ [Next]_vars => HorizonInv'
  BY StepHorizonInv
<1> QED
  BY <1>1, InitHorizonInv, PTL DEF Spec

\* Each receipt goes further than all before it, unless one was never stored or
\* two polls overlapped.
THEOREM ReceiptsOnlyAdvance == Spec => []ReceiptsAdvance
<1>1. HorizonInv => ReceiptsAdvance
  BY DEF HorizonInv, SentStored, ReceiptsAdvance
<1> QED
  BY <1>1, HorizonInvHolds, PTL

\* The stored position never goes back, unless two polls overlapped.
THEOREM PersistenceIsMonotonic == Spec => MonotonicPersistence
<1>1. HorizonInv /\ [Next]_vars => [lastRead' < lastRead => overlapped]_vars
  <2> SUFFICES ASSUME HorizonInv, Next, lastRead' < lastRead
               PROVE  overlapped
    OBVIOUS
  <2>1. ASSUME NEW p \in Pollers, StoreHorizon(p)
        PROVE  overlapped
    <3>1. latest[p] \in Nat /\ lastRead \in Nat /\ ~(latest[p] > lastRead)
      BY <2>1 DEF StoreHorizon, HorizonInv, Typed
    <3> QED
      BY <2>1, <3>1 DEF StoreHorizon, HorizonInv, Alone, Writing
  <2>2. CASE ~\E p \in Pollers : StoreHorizon(p)
    <3>1. UNCHANGED lastRead
      BY <2>2
         DEF Next, Poll, RemoteReads, RemoteJoins, Tick, BeginPass,
             shouldPollReceipts, GetHorizon, PollFails, Compare, QueueReceipt,
             StoreFails, Crash
    <3> QED
      BY <3>1 DEF HorizonInv, Typed
  <2> QED
    BY <2>1, <2>2
<1> QED
  BY <1>1, HorizonInvHolds, PTL DEF Spec, MonotonicPersistence
==============================================================================
