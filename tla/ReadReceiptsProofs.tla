-------------------------- MODULE ReadReceiptsProofs --------------------------
(* Proofs about the unread cycle, for any number of receipt handlers and       *)
(* messages, failed requests and restarts.                                     *)
EXTENDS ReadReceipts, TLAPS

\* The larger of two numbers.
LEMMA MaxOfTwo ==
    ASSUME NEW a \in Nat, NEW b \in Nat
    PROVE  Max({a, b}) \in {a, b} /\ Max({a, b}) >= a /\ Max({a, b}) >= b
<1>1. \E x \in {a, b} : \A y \in {a, b} : x >= y
  <2>1. CASE a >= b
    BY <2>1
  <2>2. CASE b >= a
    BY <2>2
  <2> QED
    BY <2>1, <2>2
<1> QED
  BY <1>1 DEF Max

------------------------------------------------------------------------------
\* What the proofs need to know of the types.
Typed ==
    /\ log \in Seq(Message)
    /\ pc \in {"poll", "mark"}
    /\ next \in Nat \ {0} /\ next <= Len(log) + 1
    /\ hpc \in [Handlers -> {"idle", "check", "put"}]
    /\ horizon \in [Handlers -> Nat]
    /\ teamsHorizon \in Nat
    /\ cycles \in Nat /\ receipts \in Nat
    /\ marked \in Nat /\ marked <= Len(log)

\* The poll loop is about to mark a message of somebody else.
AboutToMark == pc = "mark" => next <= Len(log) /\ log[next].from = "other"

\* An open cycle has not had its receipt yet.
CycleOpen ==
    /\ receipts <= cycles
    /\ unreadSeen /\ ~unreadSent => receipts < cycles

\* A request that will move Teams' horizon to the marked message, if need be.
Covered ==
    \/ teamsHorizon >= marked
    \/ \E h \in Handlers : hpc[h] = "put" /\ horizon[h] >= marked

\* Once a receipt went out, or found no cycle open, the marked message is
\* covered; without a cycle there is none.
CycleCovered ==
    /\ (unreadSent \/ readSince) /\ ~failedSince => Covered
    /\ unreadSeen \/ marked = 0

CycleInv == Typed /\ AboutToMark /\ CycleOpen /\ CycleCovered



\* The invariant holds at the start.
LEMMA InitCycleInv == Init => CycleInv
<1> SUFFICES ASSUME Init PROVE CycleInv
  OBVIOUS
<1> USE DEF Init
<1>1. Typed
  BY DEF Typed
<1>2. AboutToMark /\ CycleOpen /\ CycleCovered
  BY DEF AboutToMark, CycleOpen, CycleCovered, Covered
<1> QED
  BY <1>1, <1>2 DEF CycleInv

\* Every step preserves it.
LEMMA StepCycleInv ==
    ASSUME CycleInv, [Next]_vars
    PROVE  CycleInv'
<1> USE ReceiptAssumption
    DEF CycleInv, sendVars, pollVars, unreadVars, handlerVars, histVars
<1>1. CASE PostInTeams
  <2> USE <1>1 DEF PostInTeams
  <2>1. Typed'
    BY DEF Typed, Message
  <2>2. AboutToMark'
    BY DEF Typed, AboutToMark
  <2>3. CycleOpen'
    BY DEF Typed, CycleOpen
  <2>4. CycleCovered'
    BY DEF Typed, CycleCovered, Covered
  <2> QED
    BY <2>1, <2>2, <2>3, <2>4
<1>2. ASSUME NEW c \in ClientIDs, SendPost(c)
      PROVE  CycleInv'
  <2> USE <1>2 DEF SendPost
  <2>1. Typed'
    BY DEF Typed, Message
  <2>2. AboutToMark'
    BY DEF Typed, AboutToMark
  <2>3. CycleOpen'
    BY DEF Typed, CycleOpen
  <2>4. CycleCovered'
    BY DEF Typed, CycleCovered, Covered
  <2> QED
    BY <2>1, <2>2, <2>3, <2>4
<1>3. ASSUME NEW c \in ClientIDs, recordSelfMessage(c)
      PROVE  CycleInv'
  <2> USE <1>3 DEF recordSelfMessage
  <2>1. Typed'
    BY DEF Typed, Message
  <2>2. AboutToMark'
    BY DEF Typed, AboutToMark
  <2>3. CycleOpen'
    BY DEF Typed, CycleOpen
  <2>4. CycleCovered'
    BY DEF Typed, CycleCovered, Covered
  <2> QED
    BY <2>1, <2>2, <2>3, <2>4
<1>4. ASSUME NEW c \in ClientIDs, Age(c)
      PROVE  CycleInv'
  <2> USE <1>4 DEF Age
  <2>1. Typed'
    BY DEF Typed, Message
  <2>2. AboutToMark'
    BY DEF Typed, AboutToMark
  <2>3. CycleOpen'
    BY DEF Typed, CycleOpen
  <2>4. CycleCovered'
    BY DEF Typed, CycleCovered, Covered
  <2> QED
    BY <2>1, <2>2, <2>3, <2>4
<1>5. CASE PollMessage
  <2> USE <1>5 DEF PollMessage
  <2>1. Typed'
    BY DEF Typed, Message
  <2>2. AboutToMark'
    BY DEF Typed, AboutToMark
  <2>3. CycleOpen'
    BY DEF Typed, CycleOpen
  <2>4. CycleCovered'
    BY DEF Typed, CycleCovered, Covered
  <2> QED
    BY <2>1, <2>2, <2>3, <2>4
<1>6. CASE markUnread
  <2> USE <1>6 DEF markUnread
  <2>1. Typed'
    BY DEF Typed, AboutToMark
  <2>2. AboutToMark'
    BY DEF Typed, AboutToMark
  <2>3. CycleOpen'
    BY DEF Typed, CycleOpen
  <2>4. CycleCovered'
    BY DEF Typed, CycleCovered, Covered
  <2> QED
    BY <2>1, <2>2, <2>3, <2>4
<1>7. ASSUME NEW h \in Handlers, ReadReceipt(h)
      PROVE  CycleInv'
  <2> USE <1>7 DEF ReadReceipt
  <2>1. Typed'
    BY DEF Typed, Message
  <2>2. AboutToMark'
    BY DEF Typed, AboutToMark
  <2>3. CycleOpen'
    BY DEF Typed, CycleOpen
  <2>4. CycleCovered'
    BY DEF Typed, CycleCovered, Covered
  <2> QED
    BY <2>1, <2>2, <2>3, <2>4
<1>8. ASSUME NEW h \in Handlers, shouldSendReceipt(h)
      PROVE  CycleInv'
  <2> USE <1>8 DEF shouldSendReceipt
  <2>1. Typed'
    <3>1. hpc' \in [Handlers -> {"idle", "check", "put"}]
      BY DEF Typed
    <3>2. Len(log) \in Nat
      BY DEF Typed
    <3>3. horizon' \in [Handlers -> Nat]
      BY <3>2 DEF Typed
    <3>4. receipts' \in Nat
      BY DEF Typed
    <3> QED
      BY <3>1, <3>3, <3>4 DEF Typed
  <2>2. AboutToMark'
    BY DEF Typed, AboutToMark
  <2>3. CycleOpen'
    BY DEF Typed, CycleOpen
  <2>4. CycleCovered'
    BY DEF Typed, CycleCovered, Covered
  <2> QED
    BY <2>1, <2>2, <2>3, <2>4
<1>9. ASSUME NEW h \in Handlers, PutHorizon(h)
      PROVE  CycleInv'
  <2> USE <1>9 DEF PutHorizon
  <2>1. Typed'
    <3>1. horizon[h] \in Nat /\ teamsHorizon \in Nat
      BY DEF Typed
    <3>2. teamsHorizon' \in Nat
      BY <3>1, MaxOfTwo
    <3>3. hpc' \in [Handlers -> {"idle", "check", "put"}]
      BY DEF Typed
    <3>4. horizon' \in [Handlers -> Nat]
      BY DEF Typed
    <3> QED
      BY <3>2, <3>3, <3>4 DEF Typed
  <2>2. AboutToMark'
    BY DEF Typed, AboutToMark
  <2>3. CycleOpen'
    BY DEF Typed, CycleOpen
  <2>4. CycleCovered'
    <3>1. horizon[h] \in Nat /\ teamsHorizon \in Nat /\ marked \in Nat
      BY DEF Typed
    <3>2. /\ teamsHorizon' \in Nat
          /\ teamsHorizon' >= teamsHorizon /\ teamsHorizon' >= horizon[h]
      BY <3>1, MaxOfTwo
    <3>3. \A k \in Handlers : k # h => hpc'[k] = hpc[k] /\ horizon'[k] = horizon[k]
      BY DEF Typed
    <3>4. Covered => Covered'
      BY <3>1, <3>2, <3>3 DEF Typed, Covered
    <3> QED
      BY <3>4 DEF CycleCovered
  <2> QED
    BY <2>1, <2>2, <2>3, <2>4
<1>10. ASSUME NEW h \in Handlers, PutFails(h)
      PROVE  CycleInv'
  <2> USE <1>10 DEF PutFails
  <2>1. Typed'
    <3>1. horizon[h] \in Nat /\ teamsHorizon \in Nat
      BY DEF Typed
    <3>2. teamsHorizon' \in Nat
      BY <3>1, MaxOfTwo
    <3>3. hpc' \in [Handlers -> {"idle", "check", "put"}]
      BY DEF Typed
    <3>4. horizon' \in [Handlers -> Nat]
      BY DEF Typed
    <3> QED
      BY <3>2, <3>3, <3>4 DEF Typed
  <2>2. AboutToMark'
    BY DEF Typed, AboutToMark
  <2>3. CycleOpen'
    BY DEF Typed, CycleOpen
  <2>4. CycleCovered'
    BY DEF Typed, CycleCovered, Covered
  <2> QED
    BY <2>1, <2>2, <2>3, <2>4
<1>11. CASE Restart
  <2> USE <1>11 DEF Restart
  <2>1. Typed'
    BY DEF Typed, Message
  <2>2. AboutToMark'
    BY DEF Typed, AboutToMark
  <2>3. CycleOpen'
    BY DEF Typed, CycleOpen
  <2>4. CycleCovered'
    BY DEF Typed, CycleCovered, Covered
  <2> QED
    BY <2>1, <2>2, <2>3, <2>4
<1>12. CASE UNCHANGED vars
  <2> USE <1>12 DEF vars
  <2>1. Typed'
    BY DEF Typed, Message
  <2>2. AboutToMark'
    BY DEF Typed, AboutToMark
  <2>3. CycleOpen'
    BY DEF Typed, CycleOpen
  <2>4. CycleCovered'
    BY DEF Typed, CycleCovered, Covered
  <2> QED
    BY <2>1, <2>2, <2>3, <2>4
<1> QED
  BY <1>1, <1>2, <1>3, <1>4, <1>5, <1>6, <1>7, <1>8, <1>9, <1>10, <1>11, <1>12
     DEF Next

\* So it holds throughout.
THEOREM CycleInvHolds == Spec => []CycleInv
<1>1. CycleInv /\ [Next]_vars => CycleInv'
  BY StepCycleInv
<1> QED
  BY <1>1, InitCycleInv, PTL DEF Spec

\* No unread cycle has a second receipt, however many handlers race.
THEOREM OneReceiptPerCycle == Spec => []OncePerUnreadCycle
<1>1. CycleInv => OncePerUnreadCycle
  BY DEF CycleInv, CycleOpen, OncePerUnreadCycle
<1> QED
  BY <1>1, CycleInvHolds, PTL

\* A receipt handled after markUnread reaches Teams, unless its request fails.
THEOREM ReceiptsReachTeams == Spec => []ReadReachesTeams
<1>1. CycleInv => ReadReachesTeams
  BY DEF CycleInv, CycleCovered, Covered, ReadReachesTeams
<1> QED
  BY <1>1, CycleInvHolds, PTL
==============================================================================
