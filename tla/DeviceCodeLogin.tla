---------------------------- MODULE DeviceCodeLogin ----------------------------
(* The device-code login (pkg/connector/device_code_login.go,                 *)
(* internal/teams/auth/device_code.go) and, once it has created the login     *)
(* row, the life of the tokens it stored there (TokenRefresh).                *)
(*                                                                            *)
(* Start shows a code to the user; Wait polls the token endpoint until the    *)
(* user approved the code, declined it or let it expire, trades the device    *)
(* refresh token for tokens of the personal client, and creates the row.      *)
(* Cancel only raises a flag.  The polling interval is a timer that is armed  *)
(* or has fired; its length, which slow_down extends, is left out.            *)
EXTENDS TokenRefresh

VARIABLES login,     \* where the login process is
          code,      \* the device code, as the token endpoint sees it
          canceled,  \* l.canceled
          timer,     \* Poll's timer is armed
          draft      \* the metadata Wait has put together so far

loginVars == <<login, code, canceled, timer, draft>>
vars == <<tokenVars, loginVars>>

Init ==
    /\ TokenInit
    /\ login = "new"
    /\ code = "none"
    /\ canceled = FALSE
    /\ timer = FALSE
    /\ draft = NoMetadata

\* The login is over: bridgev2 drops the process and with it the code.
LoginEndsIn(result) ==
    /\ login' = result
    /\ code' = "none"
    /\ canceled' = FALSE
    /\ timer' = FALSE
    /\ draft' = NoMetadata

LoginFails == LoginEndsIn("failed")

------------------------------------------------------------------------------
Start ==
    /\ login = "new"
    /\ \/ /\ login' = "shown" /\ code' = "live"
          /\ UNCHANGED <<canceled, timer, draft>>
       \/ LoginFails
    /\ UNCHANGED tokenVars

\* bridgev2 may cancel at any time; only Wait's first line looks at the flag.
Cancel ==
    /\ login \notin {"done", "failed"}
    /\ ~canceled
    /\ canceled' = TRUE
    /\ UNCHANGED <<login, code, timer, draft, tokenVars>>

Wait ==
    /\ login = "shown"
    /\ \/ /\ canceled
          /\ LoginFails
       \/ /\ ~canceled
          /\ login' = "waiting" /\ timer' = TRUE
          /\ UNCHANGED <<code, canceled, draft>>
    /\ UNCHANGED tokenVars

\* What the user does at the other end, and the lifetime of the code.
UserDecides ==
    /\ code = "live"
    /\ \E d \in {"approved", "declined"} : code' = d
    /\ UNCHANGED <<login, canceled, timer, draft, tokenVars>>

CodeExpires ==
    /\ code \in {"live", "approved"}
    /\ code' = "expired"
    /\ UNCHANGED <<login, canceled, timer, draft, tokenVars>>

\* The timer fires and Poll posts the code.
TimerFires ==
    /\ login = "waiting" /\ timer
    /\ login' = "asking" /\ timer' = FALSE
    /\ UNCHANGED <<code, canceled, draft, tokenVars>>

\* The context of the login ends while Poll sleeps.
ContextEnds ==
    /\ login = "waiting"
    /\ LoginFails
    /\ UNCHANGED tokenVars

\* A plausible bug: slow_down extends the interval and forgets the timer.
NotYetUnarmed ==
    /\ login = "asking" /\ code = "live"
    /\ login' = "waiting"
    /\ \E b \in BOOLEAN : timer' = b
    /\ UNCHANGED <<code, canceled, draft, tokenVars>>

\* authorization_pending or slow_down.
NotYet ==
    /\ login = "asking" /\ code = "live"
    /\ login' = "waiting" /\ timer' = TRUE
    /\ UNCHANGED <<code, canceled, draft, tokenVars>>

\* The code expired or was declined, or the request or its answer failed.
PollFails ==
    /\ login = "asking"
    /\ LoginFails
    /\ UNCHANGED tokenVars

\* The endpoint answers with tokens; without a refresh token Wait gives up.
\* (A login that fails is over, and what its answers carried with it.)
Approved ==
    /\ login = "asking" /\ code = "approved"
    /\ \/ /\ received' = received + 1
          /\ draft' = [NoMetadata EXCEPT !.refresh = received + 1]
          /\ login' = "refresh"
          /\ UNCHANGED <<code, canceled, timer>>
       \/ LoginFails /\ UNCHANGED received
    /\ UNCHANGED <<meta, db, authMu, pc, callVars, logout, histVars>>

\* The refresh token in the answer to a request that sent draft.refresh.
InAnswer == {0, draft.refresh} \cup (IF received < MaxTokens THEN {received + 1} ELSE {})

\* A plausible bug: the device flow's refresh token is used throughout.
RefreshReturnsUnrotated ==
    /\ login = "refresh"
    /\ \/ /\ \E r \in InAnswer : Keep(r)
          /\ login' = "skype"
          /\ UNCHANGED <<code, canceled, timer, draft>>
       \/ LoginFails /\ UNCHANGED <<received, tokenLost>>
    /\ UNCHANGED <<meta, db, authMu, pc, callVars, logout, unsaved, raced,
                   saveFailures, crashes>>

\* acquirePersonalTeamsSkypeToken: RefreshAccessToken ...
RefreshReturns ==
    /\ login = "refresh"
    /\ \/ /\ \E r \in InAnswer :
               /\ Keep(r)
               /\ draft' = [draft EXCEPT !.refresh = IF r = 0 THEN @ ELSE r]
          /\ login' = "skype"
          /\ UNCHANGED <<code, canceled, timer>>
       \/ LoginFails /\ UNCHANGED <<received, tokenLost>>
    /\ UNCHANGED <<meta, db, authMu, pc, callVars, logout, unsaved, raced,
                   saveFailures, crashes>>

\* ... and AcquireSkypeToken, which must name the user.
SkypeReturns ==
    /\ login = "skype"
    /\ \/ /\ \E s \in {"valid", "stale"} : draft' = [draft EXCEPT !.skype = s]
          /\ login' = "graph"
          /\ UNCHANGED <<code, canceled, timer>>
       \/ LoginFails
    /\ UNCHANGED tokenVars

\* The Graph token, whose lifetime may be missing, with its rotated refresh
\* token ...
GraphReturns ==
    /\ login \in {"graph", "graph fallback"}
    /\ \E r \in InAnswer, g \in {"valid", "stale"} :
         /\ Keep(r)
         /\ draft' = [draft EXCEPT !.refresh = IF r = 0 THEN @ ELSE r, !.graph = g]
    /\ login' = "create"
    /\ UNCHANGED <<code, canceled, timer>>
    /\ UNCHANGED <<meta, db, authMu, pc, callVars, logout, unsaved, raced,
                   saveFailures, crashes>>

\* ... is optional: when both scope sets fail, the login goes on with the
\* refresh token it had.
GraphRefused ==
    /\ login \in {"graph", "graph fallback"}
    /\ login' = IF login = "graph" THEN "graph fallback" ELSE "create"
    /\ Discard(InAnswer)
    /\ UNCHANGED <<code, canceled, timer, draft>>
    /\ UNCHANGED <<meta, db, authMu, pc, callVars, logout, unsaved, raced,
                   saveFailures, crashes>>

\* NewLogin stores the row; from here on goroutines share its metadata.
NewLogin ==
    /\ login = "create"
    /\ \/ /\ LoginEndsIn("done")
          /\ meta' = draft
          /\ db' = draft
       \/ LoginFails /\ UNCHANGED <<meta, db>>
    /\ UNCHANGED <<authMu, pc, callVars, received, logout, histVars>>

WaitStep == \/ TimerFires \/ ContextEnds \/ NotYet \/ PollFails \/ Approved
            \/ RefreshReturns \/ SkypeReturns
            \/ GraphReturns \/ GraphRefused \/ NewLogin

LoginNext == Start \/ Cancel \/ Wait \/ UserDecides \/ CodeExpires \/ WaitStep

LoggedIn(A) == login = "done" /\ A /\ UNCHANGED loginVars

Next == LoginNext \/ LoggedIn(TokenNext)

\* Requests end (the HTTP clients and the callers' contexts have deadlines), an
\* armed timer fires, a device code has a lifetime, and a goroutine waiting for
\* authMu gets it in the end (a Go mutex is fair).
Spec ==
    /\ Init /\ [][Next]_vars
    /\ WF_vars(TimerFires) /\ WF_vars(login # "waiting" /\ WaitStep)
    /\ WF_vars(CodeExpires)
    /\ \A c \in Callers : /\ WF_vars(LoggedIn(Respond(c)))
                          /\ SF_vars(LoggedIn(Enter(c)))

------------------------------------------------------------------------------
TypeOK ==
    /\ TokenTypeOK
    /\ login \in {"new", "shown", "waiting", "asking", "refresh", "skype",
                  "graph", "graph fallback", "create", "done", "failed"}
    /\ code \in {"none", "live", "approved", "declined", "expired"}
    /\ canceled \in BOOLEAN /\ timer \in BOOLEAN
    /\ draft \in Metadata

\* With the mutex free, the newest refresh token a response ever brought, the
\* responses of the login included, is in memory, and in the row unless writing
\* it failed: also when the skypetoken cannot be acquired, when several callers
\* refresh in turn, and when the login goes on without Graph.  Exceptions: a
\* logout; and, until a later response brings a newer one, a token in memory
\* only when the process died, and one in a response the bridge refuses (no
\* access_token, undecodable, or for Graph no expires_in).
RotationKept ==
    login = "done" /\ authMu = NoCaller /\ logout = "no" /\ ~tokenLost =>
        /\ meta.refresh = received
        /\ db.refresh = received \/ unsaved

\* A login that waits for the user ends: approved, declined, cancelled, failed
\* or, when the user does nothing at all, because its code expires.
LoginEnds == (login = "waiting") ~> (login \in {"done", "failed"})
==============================================================================
