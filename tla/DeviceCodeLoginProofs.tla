------------------------- MODULE DeviceCodeLoginProofs -------------------------
(* Proofs about the tokens of a login, from its first device code on, for any *)
(* number of callers, refresh tokens, failed writes and crashes.  authMu      *)
(* makes the requests of a caller one critical section, so what a caller      *)
(* found there still holds when its response comes - unless a logout, which   *)
(* does not take authMu, came between.                                        *)
EXTENDS DeviceCodeLogin, TLAPS

\* No goroutine shares the metadata before the row exists.
BeforeLogin ==
    login # "done" =>
        authMu = NoCaller /\ logout = "no" /\ \A c \in Callers : pc[c] = "idle"

\* What Wait has put together holds the newest refresh token.
DraftNewest ==
    login \in {"refresh", "skype", "graph", "graph fallback", "create"} /\ ~tokenLost =>
        draft.refresh = received

\* Every refresh token the bridge holds came in a response.
OnlyReceived ==
    /\ meta.refresh <= received /\ db.refresh <= received
    /\ draft.refresh <= received
    /\ \A c \in Callers : used[c] <= received

\* authMu is held by the caller whose requests are under way, and only by it.
MutexHeld == \A c \in Callers : pc[c] \in UnderWay <=> authMu = c

SentNewest ==
    \A c \in Callers : pc[c] \in Asking /\ logout = "no" => used[c] = meta.refresh

\* The caller will write the row.
WillSave(c) == pc[c] = "save" \/ (pc[c] = "acquire" /\ rotated[c])

NewestHeld ==
    login = "done" /\ logout = "no" /\ ~tokenLost =>
        /\ meta.refresh = received
        /\ db.refresh = received \/ unsaved \/ (authMu \in Callers /\ WillSave(authMu))

\* A logout that found nobody under way leaves nothing to start from.
LogoutQuiet ==
    logout # "no" /\ ~raced =>
        meta = NoMetadata /\ \A c \in Callers : pc[c] \notin UnderWay

TokenInv == /\ BeforeLogin /\ DraftNewest /\ OnlyReceived /\ MutexHeld
            /\ SentNewest /\ NewestHeld /\ NoRedundantRefresh
            /\ LogoutQuiet /\ LogoutHolds

------------------------------------------------------------------------------
(* Types.  The flags apart, so that each group suits one prover.              *)

\* The records and counters.
RecordsOK == /\ meta \in Metadata /\ db \in Metadata /\ draft \in Metadata
             /\ received \in Nat /\ saveFailures \in Nat /\ crashes \in Nat

\* The control states.
ControlOK ==
    /\ authMu \in Callers \cup {NoCaller}
    /\ pc \in [Callers -> {"idle", "lock", "refresh", "fallback", "acquire", "save"}]
    /\ kind \in [Callers -> {"skype", "graph"}]
    /\ used \in [Callers -> Nat]
    /\ logout \in {"no", "cleared", "done"}
    /\ login \in {"new", "shown", "waiting", "asking", "refresh", "skype",
                  "graph", "graph fallback", "create", "done", "failed"}
    /\ code \in {"none", "live", "approved", "declined", "expired"}

\* The flags.
FlagsOK ==
    /\ rotated \in [Callers -> BOOLEAN] /\ withGraph \in [Callers -> BOOLEAN]
    /\ unsaved \in BOOLEAN /\ tokenLost \in BOOLEAN /\ raced \in BOOLEAN
    /\ canceled \in BOOLEAN /\ timer \in BOOLEAN

\* Together they are TypeOK.
LEMMA TypeParts == TypeOK <=> RecordsOK /\ ControlOK /\ FlagsOK
BY Zenon DEF TypeOK, TokenTypeOK, RecordsOK, ControlOK, FlagsOK

\* The refresh tokens that requests and responses carry are serial numbers.
LEMMA SerialNumbers ==
    ASSUME RecordsOK
    PROVE  /\ received + 1 \in Nat /\ saveFailures + 1 \in Nat
           /\ draft.refresh \in Nat /\ meta.refresh \in Nat
BY DEF RecordsOK, Metadata

\* So are those that may come.
LEMMA ResponseSerials ==
    ASSUME RecordsOK, ControlOK
    PROVE  /\ InAnswer \subseteq Nat
           /\ \A c \in Callers : InResponse(c) \subseteq Nat
           /\ \A r \in Nat : Receive(r) => received' \in Nat
<1>1. InAnswer \subseteq Nat
  BY SerialNumbers DEF InAnswer
<1>2. ASSUME NEW c \in Callers PROVE InResponse(c) \subseteq Nat
  <2>1. used[c] \in Nat
    BY DEF ControlOK
  <2> QED
    BY <2>1, SerialNumbers DEF InResponse
<1>3. \A r \in Nat : Receive(r) => received' \in Nat
  BY DEF RecordsOK, Receive
<1> QED
  BY <1>1, <1>2, <1>3

\* Every step keeps the control states in their types ...
LEMMA ControlStep ==
    ASSUME ControlOK, RecordsOK, LoginNext \/ LoggedIn(TokenNext)
    PROVE  ControlOK'
<1> USE CallerAssumption, TokenBoundAssumption
        DEF ControlOK, RecordsOK, Metadata, loginVars, LoggedIn,
            tokenVars, callVars, histVars
<1>1. CASE Start
  BY <1>1 DEF Start, LoginFails, LoginEndsIn
<1>2. CASE Cancel
  BY <1>2 DEF Cancel
<1>3. CASE Wait
  BY <1>3 DEF Wait, LoginFails, LoginEndsIn
<1>4. CASE UserDecides
  BY <1>4 DEF UserDecides
<1>5. CASE CodeExpires
  BY <1>5 DEF CodeExpires
<1>6. CASE TimerFires
  BY <1>6 DEF TimerFires
<1>7. CASE ContextEnds
  BY <1>7 DEF ContextEnds, LoginFails, LoginEndsIn
<1>8. CASE NotYet
  BY <1>8 DEF NotYet
<1>9. CASE PollFails
  BY <1>9 DEF PollFails, LoginFails, LoginEndsIn
<1>10. CASE Approved
  BY <1>10 DEF Approved, LoginFails, LoginEndsIn
<1>11. CASE RefreshReturns
  BY <1>11 DEF RefreshReturns, InAnswer, Keep, Receive, LoginFails, LoginEndsIn
<1>12. CASE SkypeReturns
  BY <1>12 DEF SkypeReturns, LoginFails, LoginEndsIn
<1>13. CASE GraphReturns
  BY <1>13 DEF GraphReturns, InAnswer, Keep, Receive
<1>14. CASE GraphRefused
  BY <1>14 DEF GraphRefused, Discard, Receive
<1>15. CASE NewLogin
  BY <1>15 DEF NewLogin, LoginFails, LoginEndsIn
<1>16. CASE LoggedIn(Expire)
  BY <1>16 DEF Expire
<1>17. CASE LoggedIn(LogoutClears)
  BY <1>17 DEF LogoutClears
<1>18. CASE LoggedIn(LogoutSaves)
  BY <1>18 DEF LogoutSaves
<1>19. CASE LoggedIn(Crash)
  BY <1>19 DEF Crash
<1>20. ASSUME NEW c \in Callers, UNCHANGED loginVars,
                    Call(c) \/ Enter(c) \/ Respond(c)
             PROVE  ControlOK'
  <2>1. CASE Call(c)
    BY <1>20, <2>1 DEF Call
  <2>2. CASE NothingToDo(c)
    BY <1>20, <2>2 DEF NothingToDo, ReturnUnlocked
  <2>3. CASE StartRefresh(c)
    BY <1>20, <2>3 DEF StartRefresh
  <2>4. CASE RefreshFails(c)
    <3>1. CASE pc' = [pc EXCEPT ![c] = "fallback"] /\ UNCHANGED <<authMu, callVars>>
      BY <1>20, <2>4, <3>1 DEF RefreshFails
    <3>2. CASE ReturnUnlocked(c)
      BY <1>20, <2>4, <3>2 DEF RefreshFails, ReturnUnlocked
    <3> QED
      BY <2>4, <3>1, <3>2 DEF RefreshFails
  <2>5. CASE SkypeRefreshed(c)
    BY <1>20, <2>5 DEF SkypeRefreshed, InResponse, Keep, Receive
  <2>6. CASE GraphRefreshed(c)
    BY <1>20, <2>6 DEF GraphRefreshed, InResponse, Keep, Receive
  <2>7. CASE GraphExpiryMissing(c)
    BY <1>20, <2>7 DEF GraphExpiryMissing, InResponse, Discard, Receive, ReturnUnlocked
  <2>8. CASE AcquireFails(c)
    <3>1. CASE pc' = [pc EXCEPT ![c] = "save"] /\ UNCHANGED <<authMu, callVars>>
      BY <1>20, <2>8, <3>1 DEF AcquireFails
    <3>2. CASE ReturnUnlocked(c)
      BY <1>20, <2>8, <3>2 DEF AcquireFails, ReturnUnlocked
    <3> QED
      BY <2>8, <3>1, <3>2 DEF AcquireFails
  <2>9. CASE AcquireSucceeds(c)
    BY <1>20, <2>9 DEF AcquireSucceeds
  <2>10. CASE Save(c)
    BY <1>20, <2>10 DEF Save, ReturnUnlocked
  <2>11. CASE SaveFails(c)
    BY <1>20, <2>11 DEF SaveFails, ReturnUnlocked
  <2> QED
    BY <1>20, <2>1, <2>2, <2>3, <2>4, <2>5, <2>6, <2>7, <2>8, <2>9, <2>10, <2>11
       DEF Enter, Respond
<1> QED
  BY <1>1, <1>2, <1>3, <1>4, <1>5, <1>6, <1>7, <1>8, <1>9, <1>10, <1>11, <1>12,
     <1>13, <1>14, <1>15, <1>16, <1>17, <1>18, <1>19, <1>20
     DEF LoginNext, WaitStep, LoggedIn, TokenNext

\* ... the records ...
LEMMA RecordsStep ==
    ASSUME RecordsOK, ControlOK, LoginNext \/ LoggedIn(TokenNext)
    PROVE  RecordsOK'
<1> USE CallerAssumption, TokenBoundAssumption
        DEF RecordsOK, ControlOK, Metadata, NoMetadata, Status, loginVars, LoggedIn,
            tokenVars, callVars, histVars
<1>1. CASE Start
  BY <1>1 DEF Start, LoginFails, LoginEndsIn
<1>2. CASE Cancel
  BY <1>2 DEF Cancel
<1>3. CASE Wait
  BY <1>3 DEF Wait, LoginFails, LoginEndsIn
<1>4. CASE UserDecides
  BY <1>4 DEF UserDecides
<1>5. CASE CodeExpires
  BY <1>5 DEF CodeExpires
<1>6. CASE TimerFires
  BY <1>6 DEF TimerFires
<1>7. CASE ContextEnds
  BY <1>7 DEF ContextEnds, LoginFails, LoginEndsIn
<1>8. CASE NotYet
  BY <1>8 DEF NotYet
<1>9. CASE PollFails
  BY <1>9 DEF PollFails, LoginFails, LoginEndsIn
<1>10. CASE Approved
  BY <1>10 DEF Approved, LoginFails, LoginEndsIn
<1>11. CASE RefreshReturns
  BY <1>11 DEF RefreshReturns, InAnswer, Keep, Receive, LoginFails, LoginEndsIn
<1>12. CASE SkypeReturns
  BY <1>12 DEF SkypeReturns, LoginFails, LoginEndsIn
<1>13. CASE GraphReturns
  <2>1. InAnswer \subseteq Nat
    BY ResponseSerials
  <2>2. PICK r \in Nat, g \in {"valid", "stale"} :
          /\ Receive(r)
          /\ draft' = [draft EXCEPT !.refresh = IF r = 0 THEN @ ELSE r, !.graph = g]
          /\ UNCHANGED <<meta, db, saveFailures, crashes>>
    BY <1>13, <2>1 DEF GraphReturns, Keep
  <2>3. received' \in Nat
    BY <2>2, ResponseSerials
  <2> QED
    BY <2>2, <2>3
<1>14. CASE GraphRefused
  <2>1. PICK r \in InAnswer : Receive(r)
    BY <1>14 DEF GraphRefused, Discard
  <2>2. r \in Nat
    BY <2>1, ResponseSerials
  <2>3. received' \in Nat
    BY <2>1, <2>2, ResponseSerials
  <2> QED
    BY <1>14, <2>3 DEF GraphRefused
<1>15. CASE NewLogin
  BY <1>15 DEF NewLogin, LoginFails, LoginEndsIn
<1>16. CASE LoggedIn(Expire)
  BY <1>16 DEF Expire
<1>17. CASE LoggedIn(LogoutClears)
  BY <1>17 DEF LogoutClears
<1>18. CASE LoggedIn(LogoutSaves)
  BY <1>18 DEF LogoutSaves
<1>19. CASE LoggedIn(Crash)
  BY <1>19 DEF Crash
<1>20. ASSUME NEW c \in Callers, UNCHANGED loginVars,
                    Call(c) \/ Enter(c) \/ Respond(c)
             PROVE  RecordsOK'
  <2>1. CASE Call(c)
    BY <1>20, <2>1 DEF Call
  <2>2. CASE NothingToDo(c)
    BY <1>20, <2>2 DEF NothingToDo, ReturnUnlocked
  <2>3. CASE StartRefresh(c)
    BY <1>20, <2>3 DEF StartRefresh
  <2>4. CASE RefreshFails(c)
    <3>1. PICK r \in InResponse(c) : Receive(r)
      BY <2>4 DEF RefreshFails, Discard
    <3>2. r \in Nat
      BY <3>1, ResponseSerials
    <3>3. received' \in Nat
      BY <3>1, <3>2, ResponseSerials
    <3> QED
      BY <1>20, <2>4, <3>3 DEF RefreshFails
  <2>5. CASE SkypeRefreshed(c)
    <3>1. PICK r \in InResponse(c) :
            /\ Receive(r)
            /\ meta' = [meta EXCEPT !.refresh = IF r = 0 THEN @ ELSE r]
            /\ UNCHANGED <<db, draft, saveFailures, crashes>>
      BY <1>20, <2>5 DEF SkypeRefreshed, Keep
    <3>2. r \in Nat
      BY <3>1, ResponseSerials
    <3>3. received' \in Nat
      BY <3>1, <3>2, ResponseSerials
    <3> QED
      BY <3>1, <3>2, <3>3
  <2>6. CASE GraphRefreshed(c)
    <3>1. PICK r \in InResponse(c) :
            /\ Receive(r)
            /\ meta' = [meta EXCEPT !.refresh = IF r = 0 THEN @ ELSE r,
                                    !.graph = "valid"]
            /\ UNCHANGED <<db, draft, saveFailures, crashes>>
      BY <1>20, <2>6 DEF GraphRefreshed, Keep
    <3>2. r \in Nat
      BY <3>1, ResponseSerials
    <3>3. received' \in Nat
      BY <3>1, <3>2, ResponseSerials
    <3> QED
      BY <3>1, <3>2, <3>3
  <2>7. CASE GraphExpiryMissing(c)
    <3>1. PICK r \in InResponse(c) : Receive(r)
      BY <2>7 DEF GraphExpiryMissing, Discard
    <3>2. r \in Nat
      BY <3>1, ResponseSerials
    <3>3. received' \in Nat
      BY <3>1, <3>2, ResponseSerials
    <3> QED
      BY <1>20, <2>7, <3>3 DEF GraphExpiryMissing
  <2>8. CASE AcquireFails(c)
    BY <1>20, <2>8 DEF AcquireFails, ReturnUnlocked
  <2>9. CASE AcquireSucceeds(c)
    BY <1>20, <2>9 DEF AcquireSucceeds
  <2>10. CASE Save(c)
    BY <1>20, <2>10 DEF Save, ReturnUnlocked
  <2>11. CASE SaveFails(c)
    <3>1. saveFailures' \in Nat
      BY <2>11, SerialNumbers DEF SaveFails
    <3>2. UNCHANGED <<meta, db, draft, received, crashes>>
      BY <1>20, <2>11 DEF SaveFails
    <3> QED
      BY <3>1, <3>2
  <2> QED
    BY <1>20, <2>1, <2>2, <2>3, <2>4, <2>5, <2>6, <2>7, <2>8, <2>9, <2>10, <2>11
       DEF Enter, Respond
<1> QED
  BY <1>1, <1>2, <1>3, <1>4, <1>5, <1>6, <1>7, <1>8, <1>9, <1>10, <1>11, <1>12,
     <1>13, <1>14, <1>15, <1>16, <1>17, <1>18, <1>19, <1>20
     DEF LoginNext, WaitStep, LoggedIn, TokenNext

\* ... and the flags.
LEMMA FlagsStep ==
    ASSUME FlagsOK, LoginNext \/ LoggedIn(TokenNext)
    PROVE  FlagsOK'
<1> USE DEF FlagsOK, loginVars, LoggedIn,
            tokenVars, callVars, histVars
<1>1. CASE Start
  BY <1>1 DEF Start, LoginFails, LoginEndsIn
<1>2. CASE Cancel
  BY <1>2 DEF Cancel
<1>3. CASE Wait
  BY <1>3 DEF Wait, LoginFails, LoginEndsIn
<1>4. CASE UserDecides
  BY <1>4 DEF UserDecides
<1>5. CASE CodeExpires
  BY <1>5 DEF CodeExpires
<1>6. CASE TimerFires
  BY <1>6 DEF TimerFires
<1>7. CASE ContextEnds
  BY <1>7 DEF ContextEnds, LoginFails, LoginEndsIn
<1>8. CASE NotYet
  BY <1>8 DEF NotYet
<1>9. CASE PollFails
  BY <1>9 DEF PollFails, LoginFails, LoginEndsIn
<1>10. CASE Approved
  BY <1>10 DEF Approved, LoginFails, LoginEndsIn
<1>11. CASE RefreshReturns
  BY <1>11 DEF RefreshReturns, InAnswer, Keep, Receive, LoginFails, LoginEndsIn
<1>12. CASE SkypeReturns
  BY <1>12 DEF SkypeReturns, LoginFails, LoginEndsIn
<1>13. CASE GraphReturns
  BY <1>13 DEF GraphReturns, InAnswer, Keep, Receive
<1>14. CASE GraphRefused
  BY <1>14 DEF GraphRefused, Discard, Receive
<1>15. CASE NewLogin
  BY <1>15 DEF NewLogin, LoginFails, LoginEndsIn
<1>16. CASE LoggedIn(Expire)
  BY <1>16 DEF Expire
<1>17. CASE LoggedIn(LogoutClears)
  BY <1>17 DEF LogoutClears
<1>18. CASE LoggedIn(LogoutSaves)
  BY <1>18 DEF LogoutSaves
<1>19. CASE LoggedIn(Crash)
  BY <1>19 DEF Crash
<1>20. ASSUME NEW c \in Callers, UNCHANGED loginVars,
                    Call(c) \/ Enter(c) \/ Respond(c)
             PROVE  FlagsOK'
  <2>1. CASE Call(c)
    BY <1>20, <2>1 DEF Call
  <2>2. CASE NothingToDo(c)
    BY <1>20, <2>2 DEF NothingToDo, ReturnUnlocked
  <2>3. CASE StartRefresh(c)
    BY <1>20, <2>3 DEF StartRefresh
  <2>4. CASE RefreshFails(c)
    BY <1>20, <2>4 DEF RefreshFails, Discard, ReturnUnlocked
  <2>5. CASE SkypeRefreshed(c)
    BY <1>20, <2>5 DEF SkypeRefreshed, InResponse, Keep, Receive
  <2>6. CASE GraphRefreshed(c)
    BY <1>20, <2>6 DEF GraphRefreshed, InResponse, Keep, Receive
  <2>7. CASE GraphExpiryMissing(c)
    BY <1>20, <2>7 DEF GraphExpiryMissing, InResponse, Discard, Receive, ReturnUnlocked
  <2>8. CASE AcquireFails(c)
    BY <1>20, <2>8 DEF AcquireFails, ReturnUnlocked
  <2>9. CASE AcquireSucceeds(c)
    BY <1>20, <2>9 DEF AcquireSucceeds
  <2>10. CASE Save(c)
    BY <1>20, <2>10 DEF Save, ReturnUnlocked
  <2>11. CASE SaveFails(c)
    BY <1>20, <2>11 DEF SaveFails, ReturnUnlocked
  <2> QED
    BY <1>20, <2>1, <2>2, <2>3, <2>4, <2>5, <2>6, <2>7, <2>8, <2>9, <2>10, <2>11
       DEF Enter, Respond
<1> QED
  BY <1>1, <1>2, <1>3, <1>4, <1>5, <1>6, <1>7, <1>8, <1>9, <1>10, <1>11, <1>12,
     <1>13, <1>14, <1>15, <1>16, <1>17, <1>18, <1>19, <1>20
     DEF LoginNext, WaitStep, LoggedIn, TokenNext

\* The variables keep their types.
THEOREM LoginTypeCorrect == Spec => []TypeOK
<1>1. Init => RecordsOK /\ ControlOK /\ FlagsOK
  <2> SUFFICES ASSUME Init PROVE RecordsOK /\ ControlOK /\ FlagsOK
    OBVIOUS
  <2> USE DEF Init, TokenInit
  <2>1. RecordsOK
    BY DEF RecordsOK, NoMetadata, Metadata, Status
  <2>2. ControlOK
    BY DEF ControlOK
  <2>3. FlagsOK
    BY DEF FlagsOK
  <2> QED
    BY <2>1, <2>2, <2>3
<1>2. RecordsOK /\ ControlOK /\ FlagsOK /\ [Next]_vars
        => RecordsOK' /\ ControlOK' /\ FlagsOK'
  <2> SUFFICES ASSUME RecordsOK, ControlOK, FlagsOK, [Next]_vars
               PROVE  RecordsOK' /\ ControlOK' /\ FlagsOK'
    OBVIOUS
  <2>1. CASE UNCHANGED vars
    <3> USE <2>1 DEF vars, tokenVars, loginVars
    <3>1. RecordsOK'
      BY DEF RecordsOK
    <3>2. ControlOK'
      BY DEF ControlOK
    <3>3. FlagsOK'
      BY DEF FlagsOK
    <3> QED
      BY <3>1, <3>2, <3>3
  <2>2. CASE Next
    BY <2>2, RecordsStep, ControlStep, FlagsStep DEF Next
  <2> QED
    BY <2>1, <2>2
<1> QED
  BY <1>1, <1>2, TypeParts, PTL DEF Spec

------------------------------------------------------------------------------
(* The invariant.                                                             *)

\* What a step of the login leaves alone: all but the metadata, which the row's
\* creation replaces.
LEMMA LoginFrame ==
    ASSUME LoginNext
    PROVE  /\ UNCHANGED <<authMu, pc, callVars, logout, unsaved, raced, saveFailures,
                          crashes>>
           /\ login = "done" => login' = "done" /\ UNCHANGED tokenVars
           /\ login # "done" /\ login' = "done" =>
                /\ login = "create" /\ meta' = draft /\ db' = draft
                /\ UNCHANGED <<received, tokenLost>>
           /\ login' # "done" => UNCHANGED <<meta, db>>
<1> USE DEF tokenVars, callVars, histVars
<1>1. CASE Start
  BY <1>1 DEF Start, LoginFails, LoginEndsIn
<1>2. CASE Cancel
  BY <1>2 DEF Cancel
<1>3. CASE Wait
  BY <1>3 DEF Wait, LoginFails, LoginEndsIn
<1>4. CASE UserDecides
  BY <1>4 DEF UserDecides
<1>5. CASE CodeExpires
  BY <1>5 DEF CodeExpires
<1>6. CASE TimerFires
  BY <1>6 DEF TimerFires
<1>7. CASE ContextEnds
  BY <1>7 DEF ContextEnds, LoginFails, LoginEndsIn
<1>8. CASE NotYet
  BY <1>8 DEF NotYet
<1>9. CASE PollFails
  BY <1>9 DEF PollFails, LoginFails, LoginEndsIn
<1>10. CASE Approved
  BY <1>10 DEF Approved, LoginFails, LoginEndsIn
<1>11. CASE RefreshReturns
  BY <1>11 DEF RefreshReturns, InAnswer, Keep, Receive, LoginFails, LoginEndsIn
<1>12. CASE SkypeReturns
  BY <1>12 DEF SkypeReturns, LoginFails, LoginEndsIn
<1>13. CASE GraphReturns
  BY <1>13 DEF GraphReturns, InAnswer, Keep, Receive
<1>14. CASE GraphRefused
  BY <1>14 DEF GraphRefused, Discard, Receive
<1>15. CASE NewLogin
  BY <1>15 DEF NewLogin, LoginFails, LoginEndsIn
<1> QED
  BY <1>1, <1>2, <1>3, <1>4, <1>5, <1>6, <1>7, <1>8, <1>9, <1>10, <1>11, <1>12,
     <1>13, <1>14, <1>15
     DEF LoginNext, WaitStep

\* A response whose refresh token is kept carries none, the one its request
\* sent, or the newest there is now.
LEMMA Kept ==
    ASSUME received \in Nat, NEW sent \in Nat, sent <= received,
           NEW r \in {0, sent, received + 1}, Receive(r)
    PROVE  /\ received' \in Nat /\ received <= received'
           /\ r \in {0, sent, received'}
           /\ received' # received => r # 0 /\ r = received'
           /\ received' = received => r \in {0, sent}
BY DEF Receive

\* A draft that takes the refresh token of an answer has the newest again.
LEMMA DraftKeeps ==
    ASSUME RecordsOK, DraftNewest, draft.refresh <= received,
           login \in {"refresh", "graph", "graph fallback"},
           NEW r \in InAnswer, Receive(r),
           received' = received /\ ~tokenLost' => ~tokenLost,
           r = 0 => draft'.refresh = draft.refresh,
           r # 0 => draft'.refresh = r
    PROVE  DraftNewest'
<1>1. received \in Nat /\ draft.refresh \in Nat
  BY SerialNumbers DEF RecordsOK
<1>2. r \in {0, draft.refresh, received + 1}
  BY DEF InAnswer
<1>3. /\ received' # received => r # 0 /\ r = received'
      /\ received' = received => r \in {0, draft.refresh}
  BY <1>1, <1>2, Kept
<1>4. CASE received' = received
  <2>1. draft'.refresh = draft.refresh
    BY Zenon, <1>3, <1>4
  <2> QED
    BY Zenon, <1>4, <2>1 DEF DraftNewest
<1>5. CASE received' # received
  <2>1. draft'.refresh = received'
    BY Zenon, <1>3, <1>5
  <2> QED
    BY Zenon, <2>1 DEF DraftNewest
<1> QED
  BY <1>4, <1>5

\* The login's draft keeps the newest refresh token.
LEMMA DraftStep ==
    ASSUME RecordsOK, DraftNewest, draft.refresh <= received, LoginNext
    PROVE  DraftNewest'
<1> USE DEF DraftNewest, tokenVars
<1>1. CASE Start
  BY <1>1 DEF Start, LoginFails, LoginEndsIn
<1>2. CASE Cancel
  BY <1>2 DEF Cancel
<1>3. CASE Wait
  BY <1>3 DEF Wait, LoginFails, LoginEndsIn
<1>4. CASE UserDecides
  BY <1>4 DEF UserDecides
<1>5. CASE CodeExpires
  BY <1>5 DEF CodeExpires
<1>6. CASE TimerFires
  BY <1>6 DEF TimerFires
<1>7. CASE ContextEnds
  BY <1>7 DEF ContextEnds, LoginFails, LoginEndsIn
<1>8. CASE NotYet
  BY <1>8 DEF NotYet
<1>9. CASE PollFails
  BY <1>9 DEF PollFails, LoginFails, LoginEndsIn
<1>10. CASE Approved
  BY <1>10 DEF Approved, LoginFails, LoginEndsIn, NoMetadata
<1>11. CASE RefreshReturns
  <2>1. CASE LoginFails
    BY <2>1 DEF LoginFails, LoginEndsIn
  <2>2. CASE \E r \in InAnswer :
                 Keep(r) /\ draft' = [draft EXCEPT !.refresh = IF r = 0 THEN @ ELSE r]
    <3>1. PICK r \in InAnswer :
            Keep(r) /\ draft' = [draft EXCEPT !.refresh = IF r = 0 THEN @ ELSE r]
      BY <2>2
    <3>2. login = "refresh"
      BY <1>11 DEF RefreshReturns
    <3>3. (r = 0 => draft'.refresh = draft.refresh) /\ (r # 0 => draft'.refresh = r)
      BY <3>1 DEF RecordsOK, Metadata
    <3>4. received' = received /\ ~tokenLost' => ~tokenLost
      BY <3>1, Zenon DEF Keep
    <3> QED
      BY <3>1, <3>2, <3>3, <3>4, DraftKeeps DEF Keep
  <2> QED
    BY <1>11, <2>1, <2>2 DEF RefreshReturns
<1>12. CASE SkypeReturns
  BY <1>12 DEF SkypeReturns, LoginFails, LoginEndsIn, RecordsOK, Metadata
<1>13. CASE GraphReturns
  <2>1. PICK r \in InAnswer, g \in {"valid", "stale"} :
          /\ Keep(r)
          /\ draft' = [draft EXCEPT !.refresh = IF r = 0 THEN @ ELSE r, !.graph = g]
    BY <1>13 DEF GraphReturns
  <2>2. login \in {"graph", "graph fallback"}
    BY <1>13 DEF GraphReturns
  <2>3. (r = 0 => draft'.refresh = draft.refresh) /\ (r # 0 => draft'.refresh = r)
    BY <2>1 DEF RecordsOK, Metadata
  <2>4. received' = received /\ ~tokenLost' => ~tokenLost
    BY <2>1, Zenon DEF Keep
  <2> QED
    BY <2>1, <2>2, <2>3, <2>4, DraftKeeps DEF Keep
<1>14. CASE GraphRefused
  <2>1. received' = received \/ tokenLost'
    BY <1>14 DEF GraphRefused, Discard
  <2>2. tokenLost => tokenLost'
    BY <1>14 DEF GraphRefused, Discard
  <2>3. UNCHANGED draft /\ login \in {"graph", "graph fallback"}
    BY <1>14 DEF GraphRefused
  <2> QED
    BY <2>1, <2>2, <2>3
<1>15. CASE NewLogin
  BY <1>15 DEF NewLogin, LoginFails, LoginEndsIn
<1> QED
  BY <1>1, <1>2, <1>3, <1>4, <1>5, <1>6, <1>7, <1>8, <1>9, <1>10, <1>11, <1>12,
     <1>13, <1>14, <1>15
     DEF LoginNext, WaitStep

\* A step that passes on the serials there are, or ones just received.
LEMMA OnlyReceivedStep ==
    ASSUME RecordsOK, ControlOK, OnlyReceived,
           received' \in Nat, received <= received',
           meta'.refresh \in {meta.refresh, db.refresh, draft.refresh, 0, received'}
                               \cup {used[c] : c \in Callers},
           db'.refresh \in {meta.refresh, db.refresh, draft.refresh},
           draft'.refresh \in {draft.refresh, 0, received'},
           \A c \in Callers : used'[c] \in {used[c], meta.refresh, 0}
    PROVE  OnlyReceived'
<1> USE SerialNumbers
<1>1. received \in Nat /\ db.refresh \in Nat
  BY DEF RecordsOK, Metadata
<1>2. meta'.refresh <= received' /\ db'.refresh <= received' /\ draft'.refresh <= received'
  <2>1. \A c \in Callers : used[c] \in Nat /\ used[c] <= received
    BY DEF ControlOK, OnlyReceived
  <2> QED
    BY <1>1, <2>1 DEF OnlyReceived
<1>3. ASSUME NEW c \in Callers PROVE used'[c] <= received'
  <2>1. used[c] \in Nat /\ used[c] <= received /\ meta.refresh <= received
    BY DEF ControlOK, OnlyReceived
  <2>2. used'[c] \in {used[c], meta.refresh, 0}
    OBVIOUS
  <2> QED
    BY <1>1, <2>1, <2>2
<1> QED
  BY <1>2, <1>3 DEF OnlyReceived

\* The steps of the login ...
LEMMA LoginOnlyReceived ==
    ASSUME RecordsOK, ControlOK, OnlyReceived, LoginNext
    PROVE  OnlyReceived'
<1> DEFINE Same == UNCHANGED <<meta, db, used, received>>
<1>1. received \in Nat /\ draft.refresh \in Nat /\ draft.refresh <= received
  BY SerialNumbers DEF RecordsOK, OnlyReceived
<1>2. ASSUME Same, draft'.refresh \in {draft.refresh, 0}
      PROVE  OnlyReceived'
  BY <1>1, <1>2, OnlyReceivedStep
<1>3. ASSUME LoginFails, Same PROVE OnlyReceived'
  <2>1. draft'.refresh = 0
    BY <1>3 DEF LoginFails, LoginEndsIn, NoMetadata
  <2> QED
    BY <1>2, <1>3, <2>1
<1>4. ASSUME NEW r \in InAnswer, Receive(r), UNCHANGED <<meta, db, used>>,
             draft'.refresh \in {draft.refresh, IF r = 0 THEN draft.refresh ELSE r}
      PROVE  OnlyReceived'
  <2>1. r \in {0, draft.refresh, received + 1}
    BY DEF InAnswer
  <2>2. received' \in Nat /\ received <= received' /\ r \in {0, draft.refresh, received'}
    BY <1>1, <1>4, <2>1, Kept
  <2> QED
    BY <1>4, <2>2, OnlyReceivedStep
<1>5. CASE Start
  <2>1. LoginFails \/ UNCHANGED draft
    BY <1>5 DEF Start
  <2> QED
    BY <1>2, <1>3, <1>5, <2>1 DEF Start, tokenVars
<1>6. CASE Cancel \/ UserDecides \/ CodeExpires \/ TimerFires \/ NotYet
  BY <1>2, <1>6 DEF Cancel, UserDecides, CodeExpires, TimerFires, NotYet, tokenVars
<1>7. CASE Wait
  <2>1. LoginFails \/ UNCHANGED draft
    BY <1>7 DEF Wait
  <2> QED
    BY <1>2, <1>3, <1>7, <2>1 DEF Wait, tokenVars
<1>8. CASE ContextEnds \/ PollFails
  BY <1>3, <1>8 DEF ContextEnds, PollFails, tokenVars
<1>9. CASE Approved
  <2>1. UNCHANGED <<meta, db, used>>
    BY <1>9 DEF Approved, callVars
  <2>2. CASE LoginFails /\ UNCHANGED received
    BY <1>3, <2>1, <2>2
  <2>3. CASE received' = received + 1 /\ draft' = [NoMetadata EXCEPT !.refresh = received + 1]
    <3>1. draft'.refresh = received' /\ received' \in Nat /\ received <= received'
      BY <1>1, <2>3 DEF NoMetadata
    <3> QED
      BY <2>1, <3>1, OnlyReceivedStep
  <2> QED
    BY <1>9, <2>2, <2>3 DEF Approved
<1>10. CASE RefreshReturns
  <2>1. UNCHANGED <<meta, db, used>>
    BY <1>10 DEF RefreshReturns, callVars
  <2>2. CASE LoginFails /\ UNCHANGED received
    BY <1>3, <2>1, <2>2
  <2>3. ASSUME NEW r \in InAnswer, Keep(r),
               draft' = [draft EXCEPT !.refresh = IF r = 0 THEN @ ELSE r]
        PROVE  OnlyReceived'
    <3>1. draft'.refresh = IF r = 0 THEN draft.refresh ELSE r
      BY <2>3 DEF RecordsOK, Metadata
    <3> QED
      BY <1>4, <2>1, <2>3, <3>1 DEF Keep
  <2> QED
    BY <1>10, <2>2, <2>3 DEF RefreshReturns
<1>11. CASE SkypeReturns
  <2>1. LoginFails \/ draft'.refresh = draft.refresh
    BY <1>11 DEF SkypeReturns, RecordsOK, Metadata
  <2> QED
    BY <1>2, <1>3, <1>11, <2>1 DEF SkypeReturns, tokenVars
<1>12. CASE GraphReturns
  <2>1. PICK r \in InAnswer, g \in {"valid", "stale"} :
          /\ Keep(r)
          /\ draft' = [draft EXCEPT !.refresh = IF r = 0 THEN @ ELSE r, !.graph = g]
    BY <1>12 DEF GraphReturns
  <2>2. draft'.refresh = IF r = 0 THEN draft.refresh ELSE r
    BY <2>1 DEF RecordsOK, Metadata
  <2>3. UNCHANGED <<meta, db, used>>
    BY <1>12 DEF GraphReturns, callVars
  <2> QED
    BY <1>4, <2>1, <2>2, <2>3 DEF Keep
<1>13. CASE GraphRefused
  <2>1. PICK r \in InAnswer : Receive(r)
    BY <1>13 DEF GraphRefused, Discard
  <2>2. UNCHANGED <<meta, db, used, draft>>
    BY <1>13 DEF GraphRefused, callVars
  <2> QED
    BY <1>4, <2>1, <2>2
<1>14. CASE NewLogin
  <2>1. UNCHANGED <<used, received>>
    BY <1>14 DEF NewLogin, callVars
  <2>2. CASE LoginFails /\ UNCHANGED <<meta, db>>
    BY <1>3, <2>1, <2>2
  <2>3. CASE LoginEndsIn("done") /\ meta' = draft /\ db' = draft
    <3>1. draft'.refresh = 0
      BY <2>3 DEF LoginEndsIn, NoMetadata
    <3> QED
      BY <1>1, <2>1, <2>3, <3>1, OnlyReceivedStep
  <2> QED
    BY <1>14, <2>2, <2>3 DEF NewLogin
<1> QED
  BY <1>5, <1>6, <1>7, <1>8, <1>9, <1>10, <1>11, <1>12, <1>13, <1>14
     DEF LoginNext, WaitStep

\* ... those of a caller ...
LEMMA CallerOnlyReceived ==
    ASSUME RecordsOK, ControlOK, OnlyReceived, UNCHANGED loginVars,
           NEW c \in Callers, Call(c) \/ Enter(c) \/ Respond(c)
    PROVE  OnlyReceived'
<1>1. received \in Nat /\ used[c] \in Nat /\ used[c] <= received /\ UNCHANGED draft
  BY DEF RecordsOK, ControlOK, OnlyReceived, loginVars
<1>2. ASSUME NEW r \in InResponse(c), Receive(r)
      PROVE  /\ received' \in Nat /\ received <= received'
             /\ r \in {0, used[c], received'}
  <2>1. r \in {0, used[c], received + 1}
    BY DEF InResponse
  <2> QED
    BY <1>1, <1>2, <2>1, Kept
<1>3. ASSUME ReturnUnlocked(c) PROVE \A d \in Callers : used'[d] \in {used[d], 0}
  BY <1>3 DEF ReturnUnlocked, ControlOK
<1>4. CASE Call(c) \/ StartRefresh(c)
  <2>1. UNCHANGED <<meta, db, received>>
    BY <1>4 DEF Call, StartRefresh
  <2>2. \A d \in Callers : used'[d] \in {used[d], meta.refresh}
    BY <1>4 DEF Call, StartRefresh, ControlOK
  <2> QED
    BY <1>1, <2>1, <2>2, OnlyReceivedStep
<1>5. CASE NothingToDo(c) \/ AcquireFails(c) \/ SaveFails(c)
  <2>1. UNCHANGED <<meta, db, received>> /\ (UNCHANGED used \/ ReturnUnlocked(c))
    BY <1>5 DEF NothingToDo, AcquireFails, SaveFails, callVars
  <2> QED
    BY <1>1, <1>3, <2>1, OnlyReceivedStep
<1>6. CASE RefreshFails(c) \/ GraphExpiryMissing(c)
  <2>1. UNCHANGED <<meta, db>> /\ (UNCHANGED used \/ ReturnUnlocked(c))
    BY <1>6 DEF RefreshFails, GraphExpiryMissing, callVars
  <2>2. PICK r \in InResponse(c) : Receive(r)
    BY <1>6 DEF RefreshFails, GraphExpiryMissing, Discard
  <2> QED
    BY <1>1, <1>2, <1>3, <2>1, <2>2, OnlyReceivedStep
<1>7. CASE SkypeRefreshed(c) \/ GraphRefreshed(c)
  <2>1. PICK r \in InResponse(c) :
          Receive(r) /\ meta'.refresh = IF r = 0 THEN meta.refresh ELSE r
    BY <1>7 DEF SkypeRefreshed, GraphRefreshed, Keep, RecordsOK, Metadata
  <2>2. UNCHANGED <<db, used>>
    BY <1>7 DEF SkypeRefreshed, GraphRefreshed, callVars
  <2>3. meta'.refresh \in {meta.refresh, used[c], received'}
    BY <1>2, <2>1
  <2>4. received' \in Nat /\ received <= received'
    BY <1>2, <2>1
  <2> QED
    BY <1>1, <2>2, <2>3, <2>4, OnlyReceivedStep
<1>8. CASE AcquireSucceeds(c)
  <2>1. UNCHANGED <<db, used, received>> /\ meta'.refresh = meta.refresh
    BY <1>8 DEF AcquireSucceeds, callVars, RecordsOK, Metadata
  <2> QED
    BY <1>1, <2>1, OnlyReceivedStep
<1>9. CASE Save(c)
  <2>1. UNCHANGED <<meta, received>> /\ db' = meta /\ ReturnUnlocked(c)
    BY <1>9 DEF Save
  <2> QED
    BY <1>1, <1>3, <2>1, OnlyReceivedStep
<1> QED
  BY <1>4, <1>5, <1>6, <1>7, <1>8, <1>9 DEF Enter, Respond

\* ... and the others bring in no refresh token that no response carried.
LEMMA OtherOnlyReceived ==
    ASSUME RecordsOK, ControlOK, OnlyReceived, UNCHANGED loginVars,
           Expire \/ LogoutClears \/ LogoutSaves \/ Crash
    PROVE  OnlyReceived'
<1>1. received \in Nat /\ UNCHANGED <<draft, received>>
  BY DEF RecordsOK, loginVars, Expire, LogoutClears, LogoutSaves, Crash
<1>2. meta'.refresh \in {meta.refresh, db.refresh, 0}
  <2>1. CASE Expire
    BY <2>1 DEF Expire, RecordsOK, Metadata
  <2>2. CASE LogoutClears
    BY <2>2 DEF LogoutClears, NoMetadata
  <2>3. CASE LogoutSaves \/ Crash
    BY <2>3 DEF LogoutSaves, Crash
  <2> QED
    BY <2>1, <2>2, <2>3
<1>3. db'.refresh \in {meta.refresh, db.refresh}
  BY DEF Expire, LogoutClears, LogoutSaves, Crash, RecordsOK, Metadata
<1>4. \A c \in Callers : used'[c] \in {used[c], 0}
  BY DEF Expire, LogoutClears, LogoutSaves, Crash, callVars
<1> QED
  BY <1>1, <1>2, <1>3, <1>4, OnlyReceivedStep

\* Every step of the login preserves the invariant.
LEMMA LoginStepInv ==
    ASSUME RecordsOK, ControlOK, TokenInv, LoginNext
    PROVE  TokenInv'
<1> USE LoginFrame DEF TokenInv, tokenVars, callVars, histVars
<1>1. BeforeLogin'
  BY DEF BeforeLogin
<1>2. DraftNewest'
  BY DraftStep DEF OnlyReceived
<1>3. MutexHeld'
  BY DEF MutexHeld
<1>4. SentNewest'
  BY DEF SentNewest, BeforeLogin, Asking
<1>5. NewestHeld'
  BY DEF NewestHeld, BeforeLogin, DraftNewest, WillSave
<1>6. NoRedundantRefresh'
  BY DEF NoRedundantRefresh, BeforeLogin, Asking, Wanted
<1>7. LogoutQuiet'
  BY DEF LogoutQuiet, BeforeLogin
<1>8. LogoutHolds'
  BY DEF LogoutHolds, BeforeLogin
<1>9. OnlyReceived'
  BY LoginOnlyReceived
<1> QED
  BY <1>1, <1>2, <1>3, <1>4, <1>5, <1>6, <1>7, <1>8, <1>9

\* So does every step of a caller.
LEMMA CallerStepInv ==
    ASSUME RecordsOK, ControlOK, FlagsOK, TokenInv, login = "done", UNCHANGED loginVars,
           NEW c \in Callers,
           Call(c) \/ Enter(c) \/ Respond(c)
    PROVE  MutexHeld' /\ SentNewest' /\ NewestHeld' /\ NoRedundantRefresh'
             /\ LogoutQuiet' /\ LogoutHolds'
<1> USE CallerAssumption, SerialNumbers
    DEF TokenInv, RecordsOK, ControlOK, FlagsOK, Metadata, callVars, histVars,
        loginVars
<1>1. CASE Call(c)
  <2> USE <1>1 DEF Call
  <2>1. MutexHeld'
    BY DEF MutexHeld, UnderWay
  <2>2. SentNewest'
    BY DEF SentNewest, MutexHeld, UnderWay, Asking
  <2>3. NewestHeld'
    BY DEF NewestHeld, MutexHeld, SentNewest, UnderWay, Asking, WillSave
  <2>4. NoRedundantRefresh'
    BY DEF NoRedundantRefresh, MutexHeld, UnderWay, Asking, Wanted
  <2>5. LogoutQuiet'
    BY DEF LogoutQuiet, MutexHeld, UnderWay, NoMetadata
  <2>6. LogoutHolds'
    BY DEF LogoutHolds, LogoutQuiet, UnderWay, NoMetadata
  <2> QED
    BY <2>1, <2>2, <2>3, <2>4, <2>5, <2>6
<1>2. CASE NothingToDo(c)
  <2> USE <1>2 DEF NothingToDo, ReturnUnlocked
  <2>1. MutexHeld'
    BY DEF MutexHeld, UnderWay
  <2>2. SentNewest'
    BY DEF SentNewest, MutexHeld, UnderWay, Asking
  <2>3. NewestHeld'
    BY DEF NewestHeld, MutexHeld, SentNewest, UnderWay, Asking, WillSave
  <2>4. NoRedundantRefresh'
    BY DEF NoRedundantRefresh, MutexHeld, UnderWay, Asking, Wanted
  <2>5. LogoutQuiet'
    BY DEF LogoutQuiet, MutexHeld, UnderWay, NoMetadata
  <2>6. LogoutHolds'
    BY DEF LogoutHolds, LogoutQuiet, UnderWay, NoMetadata
  <2> QED
    BY <2>1, <2>2, <2>3, <2>4, <2>5, <2>6
<1>3. CASE StartRefresh(c)
  <2> USE <1>3 DEF StartRefresh
  <2>1. MutexHeld'
    BY DEF MutexHeld, UnderWay
  <2>2. SentNewest'
    BY DEF SentNewest, MutexHeld, UnderWay, Asking
  <2>3. NewestHeld'
    BY DEF NewestHeld, MutexHeld, SentNewest, UnderWay, Asking, WillSave
  <2>4. NoRedundantRefresh'
    BY DEF NoRedundantRefresh, MutexHeld, UnderWay, Asking, Wanted
  <2>5. LogoutQuiet'
    BY DEF LogoutQuiet, MutexHeld, UnderWay, NoMetadata
  <2>6. LogoutHolds'
    BY DEF LogoutHolds, LogoutQuiet, UnderWay, NoMetadata
  <2> QED
    BY <2>1, <2>2, <2>3, <2>4, <2>5, <2>6
<1>4. CASE RefreshFails(c)
  <2> USE <1>4 DEF RefreshFails, ReturnUnlocked
  <2>0. (received' = received /\ tokenLost' = tokenLost) \/ tokenLost'
    BY DEF Discard
  <2>1. MutexHeld'
    BY DEF MutexHeld, UnderWay
  <2>2. SentNewest'
    BY DEF SentNewest, MutexHeld, UnderWay, Asking
  <2>3. NewestHeld'
    BY <2>0 DEF NewestHeld, MutexHeld, SentNewest, UnderWay, Asking, WillSave
  <2>4. NoRedundantRefresh'
    BY DEF NoRedundantRefresh, MutexHeld, UnderWay, Asking, Wanted
  <2>5. LogoutQuiet'
    BY DEF LogoutQuiet, MutexHeld, UnderWay, NoMetadata
  <2>6. LogoutHolds'
    BY DEF LogoutHolds, LogoutQuiet, UnderWay, NoMetadata
  <2> QED
    BY <2>1, <2>2, <2>3, <2>4, <2>5, <2>6
<1>5. CASE SkypeRefreshed(c)
  <2> USE <1>5 DEF SkypeRefreshed
  <2>1. MutexHeld'
    BY DEF MutexHeld, UnderWay
  <2>2. SentNewest'
    BY DEF SentNewest, MutexHeld, UnderWay, Asking
  <2>3. NewestHeld'
    <3>1. PICK r \in InResponse(c) :
            /\ Keep(r)
            /\ meta' = [meta EXCEPT !.refresh = IF r = 0 THEN @ ELSE r]
            /\ rotated' = [rotated EXCEPT ![c] = r \notin {0, used[c]}]
      OBVIOUS
    <3>2. authMu = c /\ authMu' = c
      BY DEF MutexHeld, UnderWay
    <3> SUFFICES ASSUME logout = "no", ~tokenLost'
                 PROVE  /\ meta'.refresh = received'
                        /\ db.refresh = received' \/ unsaved \/ WillSave(c)'
      BY <3>2 DEF NewestHeld, Keep
    <3>3. used[c] \in Nat /\ used[c] <= received
      BY DEF OnlyReceived
    <3>4. CASE r \in {0, used[c]}
      <4>1. received' = received /\ ~tokenLost
        BY <3>1, <3>3, <3>4 DEF Keep, Receive
      <4>2. meta.refresh = received /\ used[c] = received
        BY <4>1 DEF NewestHeld, SentNewest, Asking
      <4>3. db.refresh = received \/ unsaved
        BY <3>2, <4>1 DEF NewestHeld, WillSave
      <4>4. meta'.refresh = received
        BY <3>1, <3>4, <4>2
      <4> QED
        BY <4>1, <4>3, <4>4
    <3>5. CASE r = received + 1
      <4>1. r # 0 /\ r # used[c] /\ received' = r
        BY <3>1, <3>3, <3>5 DEF Keep, Receive
      <4>2. pc'[c] = "acquire" /\ rotated'[c]
        BY <3>1, <4>1
      <4> QED
        BY <3>1, <4>1, <4>2 DEF WillSave
    <3> QED
      BY <3>4, <3>5 DEF InResponse
  <2>4. NoRedundantRefresh'
    <3>1. \A d \in Callers : pc'[d] \notin Asking
      BY DEF MutexHeld, UnderWay, Asking
    <3> QED
      BY <3>1 DEF NoRedundantRefresh
  <2>5. LogoutQuiet'
    BY DEF LogoutQuiet, MutexHeld, UnderWay, NoMetadata
  <2>6. LogoutHolds'
    BY DEF LogoutHolds, LogoutQuiet, UnderWay, NoMetadata
  <2> QED
    BY <2>1, <2>2, <2>3, <2>4, <2>5, <2>6
<1>6. CASE GraphRefreshed(c)
  <2> USE <1>6 DEF GraphRefreshed
  <2>1. MutexHeld'
    BY DEF MutexHeld, UnderWay
  <2>2. SentNewest'
    BY DEF SentNewest, MutexHeld, UnderWay, Asking
  <2>3. NewestHeld'
    <3>1. PICK r \in InResponse(c) :
            /\ Keep(r)
            /\ meta' = [meta EXCEPT !.refresh = IF r = 0 THEN @ ELSE r,
                                    !.graph = "valid"]
      OBVIOUS
    <3>2. authMu' = c /\ WillSave(c)'
      BY DEF MutexHeld, UnderWay, WillSave
    <3>3. ASSUME logout = "no", ~tokenLost'
          PROVE  meta'.refresh = received'
      <4>1. used[c] \in Nat /\ used[c] <= received
        BY DEF OnlyReceived
      <4>2. CASE r \in {0, used[c]}
        <5>1. received' = received /\ ~tokenLost
          BY <3>1, <3>3, <4>1, <4>2 DEF Keep, Receive
        <5>2. meta.refresh = received /\ used[c] = received
          BY <3>3, <5>1 DEF NewestHeld, SentNewest, Asking
        <5> QED
          BY <3>1, <4>2, <5>1, <5>2
      <4>3. CASE r = received + 1
        BY <3>1, <4>1, <4>3 DEF Keep, Receive
      <4> QED
        BY <4>2, <4>3 DEF InResponse
    <3> QED
      BY <3>2, <3>3 DEF NewestHeld
  <2>4. NoRedundantRefresh'
    <3>1. \A d \in Callers : pc'[d] \notin Asking
      BY DEF MutexHeld, UnderWay, Asking
    <3> QED
      BY <3>1 DEF NoRedundantRefresh
  <2>5. LogoutQuiet'
    BY DEF LogoutQuiet, MutexHeld, UnderWay, NoMetadata
  <2>6. LogoutHolds'
    BY DEF LogoutHolds, LogoutQuiet, UnderWay, NoMetadata
  <2> QED
    BY <2>1, <2>2, <2>3, <2>4, <2>5, <2>6
<1>7. CASE GraphExpiryMissing(c)
  <2> USE <1>7 DEF GraphExpiryMissing, ReturnUnlocked
  <2>0. (received' = received /\ tokenLost' = tokenLost) \/ tokenLost'
    BY DEF Discard
  <2>1. MutexHeld'
    BY DEF MutexHeld, UnderWay
  <2>2. SentNewest'
    BY DEF SentNewest, MutexHeld, UnderWay, Asking
  <2>3. NewestHeld'
    BY <2>0 DEF NewestHeld, MutexHeld, SentNewest, UnderWay, Asking, WillSave
  <2>4. NoRedundantRefresh'
    <3>1. \A d \in Callers : pc'[d] \notin Asking
      BY DEF MutexHeld, UnderWay, Asking
    <3> QED
      BY <3>1 DEF NoRedundantRefresh
  <2>5. LogoutQuiet'
    BY DEF LogoutQuiet, MutexHeld, UnderWay, NoMetadata
  <2>6. LogoutHolds'
    BY DEF LogoutHolds, LogoutQuiet, UnderWay, NoMetadata
  <2> QED
    BY <2>1, <2>2, <2>3, <2>4, <2>5, <2>6
<1>8. CASE AcquireFails(c)
  <2> USE <1>8 DEF AcquireFails, ReturnUnlocked
  <2>1. MutexHeld'
    BY DEF MutexHeld, UnderWay
  <2>2. SentNewest'
    BY DEF SentNewest, MutexHeld, UnderWay, Asking
  <2>3. NewestHeld'
    BY DEF NewestHeld, MutexHeld, SentNewest, UnderWay, Asking, WillSave
  <2>4. NoRedundantRefresh'
    <3>1. \A d \in Callers : pc'[d] \notin Asking
      BY DEF MutexHeld, UnderWay, Asking
    <3> QED
      BY <3>1 DEF NoRedundantRefresh
  <2>5. LogoutQuiet'
    BY DEF LogoutQuiet, MutexHeld, UnderWay, NoMetadata
  <2>6. LogoutHolds'
    BY DEF LogoutHolds, LogoutQuiet, UnderWay, NoMetadata
  <2> QED
    BY <2>1, <2>2, <2>3, <2>4, <2>5, <2>6
<1>9. CASE AcquireSucceeds(c)
  <2> USE <1>9 DEF AcquireSucceeds
  <2>1. MutexHeld'
    BY DEF MutexHeld, UnderWay
  <2>2. SentNewest'
    BY DEF SentNewest, MutexHeld, UnderWay, Asking
  <2>3. NewestHeld'
    BY DEF NewestHeld, MutexHeld, SentNewest, UnderWay, Asking, WillSave
  <2>4. NoRedundantRefresh'
    <3>1. \A d \in Callers : pc'[d] \notin Asking
      BY DEF MutexHeld, UnderWay, Asking
    <3> QED
      BY <3>1 DEF NoRedundantRefresh
  <2>5. LogoutQuiet'
    BY DEF LogoutQuiet, MutexHeld, UnderWay, NoMetadata
  <2>6. LogoutHolds'
    BY DEF LogoutHolds, LogoutQuiet, UnderWay, NoMetadata
  <2> QED
    BY <2>1, <2>2, <2>3, <2>4, <2>5, <2>6
<1>10. CASE Save(c)
  <2> USE <1>10 DEF Save, ReturnUnlocked
  <2>1. MutexHeld'
    BY DEF MutexHeld, UnderWay
  <2>2. SentNewest'
    BY DEF SentNewest, MutexHeld, UnderWay, Asking
  <2>3. NewestHeld'
    BY DEF NewestHeld, MutexHeld, SentNewest, UnderWay, Asking, WillSave
  <2>4. NoRedundantRefresh'
    <3>1. \A d \in Callers : pc'[d] \notin Asking
      BY DEF MutexHeld, UnderWay, Asking
    <3> QED
      BY <3>1 DEF NoRedundantRefresh
  <2>5. LogoutQuiet'
    BY DEF LogoutQuiet, MutexHeld, UnderWay, NoMetadata
  <2>6. LogoutHolds'
    BY DEF LogoutHolds, LogoutQuiet, UnderWay, NoMetadata
  <2> QED
    BY <2>1, <2>2, <2>3, <2>4, <2>5, <2>6
<1>11. CASE SaveFails(c)
  <2> USE <1>11 DEF SaveFails, ReturnUnlocked
  <2>1. MutexHeld'
    BY DEF MutexHeld, UnderWay
  <2>2. SentNewest'
    BY DEF SentNewest, MutexHeld, UnderWay, Asking
  <2>3. NewestHeld'
    BY DEF NewestHeld, MutexHeld, SentNewest, UnderWay, Asking, WillSave
  <2>4. NoRedundantRefresh'
    <3>1. \A d \in Callers : pc'[d] \notin Asking
      BY DEF MutexHeld, UnderWay, Asking
    <3> QED
      BY <3>1 DEF NoRedundantRefresh
  <2>5. LogoutQuiet'
    BY DEF LogoutQuiet, MutexHeld, UnderWay, NoMetadata
  <2>6. LogoutHolds'
    BY DEF LogoutHolds, LogoutQuiet, UnderWay, NoMetadata
  <2> QED
    BY <2>1, <2>2, <2>3, <2>4, <2>5, <2>6
<1> QED
  BY <1>1, <1>2, <1>3, <1>4, <1>5, <1>6, <1>7, <1>8, <1>9, <1>10, <1>11
     DEF Enter, Respond

\* And time, a logout and a crash.
LEMMA OtherStepInv ==
    ASSUME RecordsOK, ControlOK, FlagsOK, TokenInv, login = "done", UNCHANGED loginVars,
           Expire \/ LogoutClears \/ LogoutSaves \/ Crash
    PROVE  MutexHeld' /\ SentNewest' /\ NewestHeld' /\ NoRedundantRefresh'
             /\ LogoutQuiet' /\ LogoutHolds'
<1> USE CallerAssumption, SerialNumbers
    DEF TokenInv, RecordsOK, ControlOK, FlagsOK, Metadata, callVars, histVars,
        loginVars
<1>1. CASE Expire
  <2> USE <1>1 DEF Expire
  <2>1. MutexHeld'
    BY DEF MutexHeld, UnderWay
  <2>2. SentNewest'
    BY DEF SentNewest, MutexHeld, UnderWay, Asking
  <2>3. NewestHeld'
    BY DEF NewestHeld, MutexHeld, SentNewest, UnderWay, Asking, WillSave
  <2>4. NoRedundantRefresh'
    BY DEF NoRedundantRefresh, MutexHeld, UnderWay, Asking, Wanted, NoMetadata
  <2>5. LogoutQuiet'
    BY DEF LogoutQuiet, LogoutHolds, UnderWay, NoMetadata
  <2>6. LogoutHolds'
    BY DEF LogoutHolds, LogoutQuiet, UnderWay, NoMetadata
  <2> QED
    BY <2>1, <2>2, <2>3, <2>4, <2>5, <2>6
<1>2. CASE LogoutClears
  <2> USE <1>2 DEF LogoutClears
  <2>1. MutexHeld'
    BY DEF MutexHeld, UnderWay
  <2>2. SentNewest'
    BY DEF SentNewest, MutexHeld, UnderWay, Asking
  <2>3. NewestHeld'
    BY DEF NewestHeld, MutexHeld, SentNewest, UnderWay, Asking, WillSave
  <2>4. NoRedundantRefresh'
    BY DEF NoRedundantRefresh, MutexHeld, UnderWay, Asking, Wanted, NoMetadata
  <2>5. LogoutQuiet'
    BY DEF LogoutQuiet, LogoutHolds, UnderWay, NoMetadata
  <2>6. LogoutHolds'
    BY DEF LogoutHolds, LogoutQuiet, UnderWay, NoMetadata
  <2> QED
    BY <2>1, <2>2, <2>3, <2>4, <2>5, <2>6
<1>3. CASE LogoutSaves
  <2> USE <1>3 DEF LogoutSaves
  <2>1. MutexHeld'
    BY DEF MutexHeld, UnderWay
  <2>2. SentNewest'
    BY DEF SentNewest, MutexHeld, UnderWay, Asking
  <2>3. NewestHeld'
    BY DEF NewestHeld, MutexHeld, SentNewest, UnderWay, Asking, WillSave
  <2>4. NoRedundantRefresh'
    BY DEF NoRedundantRefresh, MutexHeld, UnderWay, Asking, Wanted, NoMetadata
  <2>5. LogoutQuiet'
    BY DEF LogoutQuiet, LogoutHolds, UnderWay, NoMetadata
  <2>6. LogoutHolds'
    BY DEF LogoutHolds, LogoutQuiet, UnderWay, NoMetadata
  <2> QED
    BY <2>1, <2>2, <2>3, <2>4, <2>5, <2>6
<1>4. CASE Crash
  <2> USE <1>4 DEF Crash
  <2>1. MutexHeld'
    BY DEF MutexHeld, UnderWay
  <2>2. SentNewest'
    BY DEF SentNewest, MutexHeld, UnderWay, Asking
  <2>3. NewestHeld'
    BY DEF NewestHeld, MutexHeld, SentNewest, UnderWay, Asking, WillSave
  <2>4. NoRedundantRefresh'
    BY DEF NoRedundantRefresh, MutexHeld, UnderWay, Asking, Wanted, NoMetadata
  <2>5. LogoutQuiet'
    BY DEF LogoutQuiet, LogoutHolds, UnderWay, NoMetadata
  <2>6. LogoutHolds'
    BY DEF LogoutHolds, LogoutQuiet, UnderWay, NoMetadata
  <2> QED
    BY <2>1, <2>2, <2>3, <2>4, <2>5, <2>6
<1> QED
  BY <1>1, <1>2, <1>3, <1>4

\* The invariant holds throughout.
THEOREM TokenInvHolds == Spec => []TokenInv
<1>1. Init => TokenInv
  <2> SUFFICES ASSUME Init PROVE TokenInv
    OBVIOUS
  <2> USE CallerAssumption DEF Init, TokenInit
  <2>1. BeforeLogin /\ DraftNewest /\ MutexHeld
    BY DEF BeforeLogin, DraftNewest, MutexHeld, UnderWay
  <2>2. OnlyReceived
    BY DEF OnlyReceived, NoMetadata
  <2>3. SentNewest /\ NewestHeld /\ NoRedundantRefresh
    BY DEF SentNewest, NewestHeld, NoRedundantRefresh, Asking
  <2>4. LogoutQuiet /\ LogoutHolds
    BY DEF LogoutQuiet, LogoutHolds
  <2> QED
    BY <2>1, <2>2, <2>3, <2>4 DEF TokenInv
<1>2. RecordsOK /\ ControlOK /\ FlagsOK /\ TokenInv /\ [Next]_vars => TokenInv'
  <2> SUFFICES ASSUME RecordsOK, ControlOK, FlagsOK, TokenInv, [Next]_vars
               PROVE  TokenInv'
    OBVIOUS
  <2>1. CASE UNCHANGED vars
    <3> USE <2>1 DEF vars, tokenVars, loginVars, TokenInv
    <3>1. BeforeLogin' /\ DraftNewest' /\ OnlyReceived' /\ MutexHeld'
      BY DEF BeforeLogin, DraftNewest, OnlyReceived, MutexHeld
    <3>2. SentNewest' /\ NewestHeld' /\ NoRedundantRefresh'
      BY DEF SentNewest, NewestHeld, WillSave, NoRedundantRefresh, Wanted
    <3>3. LogoutQuiet' /\ LogoutHolds'
      BY DEF LogoutQuiet, LogoutHolds
    <3> QED
      BY <3>1, <3>2, <3>3
  <2>2. CASE LoginNext
    BY <2>2, LoginStepInv
  <2>3. CASE LoggedIn(TokenNext)
    <3>1. login = "done" /\ UNCHANGED <<login, draft>>
      BY <2>3 DEF LoggedIn, loginVars
    <3>2. BeforeLogin' /\ DraftNewest'
      BY <3>1 DEF BeforeLogin, DraftNewest
    <3>3. MutexHeld' /\ SentNewest' /\ NewestHeld' /\ NoRedundantRefresh'
            /\ LogoutQuiet' /\ LogoutHolds'
      BY <2>3, <3>1, CallerStepInv, OtherStepInv DEF LoggedIn, TokenNext
    <3>4. OnlyReceived'
      BY <2>3, CallerOnlyReceived, OtherOnlyReceived DEF LoggedIn, TokenNext, TokenInv
    <3> QED
      BY <3>2, <3>3, <3>4 DEF TokenInv
  <2> QED
    BY <2>1, <2>2, <2>3 DEF Next
<1>3. TypeOK <=> RecordsOK /\ ControlOK /\ FlagsOK
  BY TypeParts
<1> QED
  BY <1>1, <1>2, <1>3, LoginTypeCorrect, PTL DEF Spec

\* Of several goroutines that find a token expired, only one refreshes it.
THEOREM NoRefreshTwice == Spec => []NoRedundantRefresh
BY TokenInvHolds, PTL DEF TokenInv

\* After a logout that found no refresh under way the tokens stay gone.
THEOREM LogoutIsFinal == Spec => []LogoutHolds
BY TokenInvHolds, PTL DEF TokenInv

\* With the mutex free, the newest refresh token a response brought is in
\* memory, and in the row unless writing it failed; but for one that a refused
\* response or a crash took along, and only until the next rotation.
THEOREM RotationNeverLost == Spec => []RotationKept
<1>1. TypeOK /\ TokenInv => RotationKept
  BY CallerAssumption
     DEF TokenInv, NewestHeld, MutexHeld, WillSave, UnderWay, RotationKept
<1> QED
  BY <1>1, TokenInvHolds, LoginTypeCorrect, PTL

\* A caller's step, save a response that brings one, leaves the Graph token.
LEMMA CallerKeepsGraph ==
    ASSUME RecordsOK, meta.graph = "valid",
           NEW c \in Callers,
           Call(c) \/ Enter(c) \/ Respond(c)
    PROVE  meta'.graph = "valid"
<1> USE DEF RecordsOK, Metadata
<1>1. CASE Call(c) \/ Enter(c)
  BY <1>1 DEF Call, Enter, NothingToDo, StartRefresh
<1>2. CASE RefreshFails(c) \/ GraphExpiryMissing(c) \/ AcquireFails(c)
             \/ Save(c) \/ SaveFails(c)
  BY <1>2 DEF RefreshFails, GraphExpiryMissing, AcquireFails, Save, SaveFails
<1>3. CASE SkypeRefreshed(c)
  BY <1>3 DEF SkypeRefreshed
<1>4. CASE GraphRefreshed(c)
  BY <1>4 DEF GraphRefreshed
<1>5. CASE AcquireSucceeds(c)
  BY <1>5 DEF AcquireSucceeds
<1> QED
  BY <1>1, <1>2, <1>3, <1>4, <1>5 DEF Respond

\* Refreshing the Skype token, failing to, or storing what came takes no valid
\* Graph token away: only time, a logout and a crash do.
THEOREM GraphTokenIsKept == Spec => GraphTokenKept
<1> DEFINE TokenStays ==
      \A c \in Callers :
        pc[c] # "idle" /\ pc'[c] # pc[c] /\ crashes' = crashes =>
          (meta.graph = "valid" => meta'.graph = "valid")
<1>1. RecordsOK /\ [Next]_vars => [TokenStays]_tokenVars
  <2> SUFFICES ASSUME RecordsOK, [Next]_vars, NEW c \in Callers,
                      pc'[c] # pc[c], crashes' = crashes, meta.graph = "valid"
               PROVE  meta'.graph = "valid"
    OBVIOUS
  <2>1. CASE UNCHANGED vars
    BY <2>1 DEF vars, tokenVars
  <2>2. CASE LoginNext
    <3>1. UNCHANGED pc
      BY <2>2, LoginFrame DEF callVars
    <3> QED
      BY <3>1
  <2>3. CASE LoggedIn(TokenNext)
    <3>1. CASE \E d \in Callers : Call(d) \/ Enter(d) \/ Respond(d)
      BY <3>1, CallerKeepsGraph
    <3>2. CASE Expire \/ LogoutClears \/ LogoutSaves
      BY <3>2 DEF Expire, LogoutClears, LogoutSaves
    <3>3. CASE Crash
      <4>1. crashes \in Nat /\ crashes' = crashes + 1
        BY <3>3 DEF Crash, RecordsOK
      <4> QED
        BY <4>1
    <3> QED
      BY <2>3, <3>1, <3>2, <3>3 DEF LoggedIn, TokenNext
  <2> QED
    BY <2>1, <2>2, <2>3 DEF Next
<1>2. TypeOK => RecordsOK
  BY TypeParts
<1> QED
  BY <1>1, <1>2, LoginTypeCorrect, PTL DEF Spec, GraphTokenKept
==============================================================================
