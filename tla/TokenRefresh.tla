----------------------------- MODULE TokenRefresh -----------------------------
(* The login's tokens: ensureValidSkypeToken (pkg/connector/handleteams.go),  *)
(* ensureValidGraphToken (graph_token.go), the token requests they make       *)
(* (internal/teams/auth/token.go, skype_token.go) and LogoutRemote            *)
(* (client.go).  DeviceCodeLogin adds the login that brings the first tokens. *)
(*                                                                            *)
(* Callers are the goroutines that may need a token at once: the sync loop,   *)
(* the Matrix handlers and the attachment converter.  authMu serialises the   *)
(* refreshes; LogoutRemote does not take it.  A refresh token is its serial   *)
(* number (0: none); a bearer token is "none", "valid" or "stale" (expired,   *)
(* within the skew of expiring, or stored without an expiry).                 *)
EXTENDS Naturals

CONSTANTS Callers,          \* goroutines asking for tokens
          NoCaller,         \* authMu is free
          MaxTokens,        \* bound: refresh tokens ever received
          MaxSaveFailures,  \* bound: failed writes of the login row
          MaxCrashes        \* bound: crashes of the bridge process

ASSUME CallerAssumption == NoCaller \notin Callers
ASSUME TokenBoundAssumption ==
    MaxTokens \in Nat /\ MaxSaveFailures \in Nat /\ MaxCrashes \in Nat

VARIABLES meta,       \* UserLoginMetadata in memory, shared by every goroutine
          db,         \* its copy in the user_login row
          authMu,     \* who holds the mutex
          pc,         \* pc[c]: where caller c is
          kind,       \* kind[c]: the token it wants (when idle: "skype")
          used,       \* used[c]: the refresh token it sends
          rotated,    \* rotated[c]: local refreshRotated
          withGraph,  \* withGraph[c]: the response carries a Graph token
          received,   \* serial of the newest refresh token a response brought
          unsaved,    \* the last write of the row failed
          tokenLost,  \* history: the newest one was lost (crash, refused response)
          logout,     \* progress of LogoutRemote
          raced,      \* history: a refresh was under way when it cleared the tokens
          saveFailures, crashes

tokenVars == <<meta, db, authMu, pc, kind, used, rotated, withGraph, received,
               unsaved, tokenLost, logout, raced, saveFailures, crashes>>
callVars == <<kind, used, rotated, withGraph>>
histVars == <<unsaved, tokenLost, raced, saveFailures, crashes>>

Status == {"none", "valid", "stale"}

Metadata == [refresh : Nat, skype : Status, graph : Status]

NoMetadata == [refresh |-> 0, skype |-> "none", graph |-> "none"]

\* Before the first login.
TokenInit ==
    /\ meta = NoMetadata
    /\ db = NoMetadata
    /\ authMu = NoCaller
    /\ pc = [c \in Callers |-> "idle"]
    /\ kind = [c \in Callers |-> "skype"]
    /\ used = [c \in Callers |-> 0]
    /\ rotated = [c \in Callers |-> FALSE]
    /\ withGraph = [c \in Callers |-> FALSE]
    /\ received = 0
    /\ unsaved = FALSE
    /\ tokenLost = FALSE
    /\ logout = "no"
    /\ raced = FALSE
    /\ saveFailures = 0
    /\ crashes = 0

\* The status of the token that caller c asked for.
Wanted(c) == IF kind[c] = "skype" THEN meta.skype ELSE meta.graph

\* c returns and its deferred Unlock runs.
ReturnUnlocked(c) ==
    /\ pc' = [pc EXCEPT ![c] = "idle"]
    /\ authMu' = NoCaller
    /\ used' = [used EXCEPT ![c] = 0]
    /\ rotated' = [rotated EXCEPT ![c] = FALSE]
    /\ withGraph' = [withGraph EXCEPT ![c] = FALSE]
    /\ kind' = [kind EXCEPT ![c] = "skype"]

------------------------------------------------------------------------------
Call(c) ==
    /\ pc[c] = "idle"
    /\ pc' = [pc EXCEPT ![c] = "lock"]
    /\ \E k \in {"skype", "graph"} : kind' = [kind EXCEPT ![c] = k]
    /\ UNCHANGED <<meta, db, authMu, used, rotated, withGraph, received, logout,
                   histVars>>

\* Under the mutex: the token is still valid, or there is nothing to refresh
\* it with (an error).  Nothing changes either way.
NothingToDo(c) ==
    /\ pc[c] = "lock"
    /\ authMu = NoCaller
    /\ Wanted(c) = "valid" \/ meta.refresh = 0
    /\ ReturnUnlocked(c)
    /\ UNCHANGED <<meta, db, received, logout, histVars>>

\* A plausible bug: once inside the mutex, the token is not looked at again.
StartRefreshUnchecked(c) ==
    /\ pc[c] = "lock"
    /\ authMu = NoCaller
    /\ meta.refresh # 0
    /\ authMu' = c
    /\ used' = [used EXCEPT ![c] = meta.refresh]
    /\ pc' = [pc EXCEPT ![c] = "refresh"]
    /\ UNCHANGED <<meta, db, kind, rotated, withGraph, received, logout, histVars>>

\* Under the mutex: the token must be refreshed, and the request goes out.
StartRefresh(c) ==
    /\ pc[c] = "lock"
    /\ authMu = NoCaller
    /\ Wanted(c) # "valid"
    /\ meta.refresh # 0
    /\ authMu' = c
    /\ used' = [used EXCEPT ![c] = meta.refresh]
    /\ pc' = [pc EXCEPT ![c] = "refresh"]
    /\ UNCHANGED <<meta, db, kind, rotated, withGraph, received, logout, histVars>>

\* A plausible bug: the error path returns without the Unlock.
RefreshFailsHoldingLock(c) ==
    /\ pc[c] \in {"refresh", "fallback"}
    /\ pc' = [pc EXCEPT ![c] = "idle"]
    /\ UNCHANGED <<meta, db, authMu, callVars, received, logout, histVars>>

\* The refresh token in a response to c: none, the one c sent, or a new one.
InResponse(c) == {0, used[c]} \cup (IF received < MaxTokens THEN {received + 1} ELSE {})

Receive(r) == received' = IF r > received THEN r ELSE received

\* A response whose refresh token is kept: a new one makes up for a lost one.
Keep(r) == Receive(r) /\ tokenLost' = (tokenLost /\ received' = received)

\* A request fails; a 2xx response without access_token, or one that cannot be
\* decoded, is an error as well and takes the refresh token it carries along.
Discard(answers) ==
    /\ \E r \in answers : Receive(r)
    /\ tokenLost' = (tokenLost \/ received' # received)

\* The token request fails.  A Graph refresh tries its second scope set.
RefreshFails(c) ==
    /\ pc[c] \in {"refresh", "fallback"}
    /\ Discard(InResponse(c))
    /\ \/ /\ kind[c] = "graph" /\ pc[c] = "refresh"
          /\ pc' = [pc EXCEPT ![c] = "fallback"]
          /\ UNCHANGED <<authMu, callVars>>
       \/ /\ kind[c] = "skype" \/ pc[c] = "fallback"
          /\ ReturnUnlocked(c)
    /\ UNCHANGED <<meta, db, logout, unsaved, raced, saveFailures, crashes>>

\* ensureValidSkypeToken stores the refresh token of the response at once; a
\* Graph token of the response, if any, waits for the skypetoken.
SkypeRefreshed(c) ==
    /\ pc[c] = "refresh" /\ kind[c] = "skype"
    /\ \E r \in InResponse(c) :
         /\ Keep(r)
         /\ meta' = [meta EXCEPT !.refresh = IF r = 0 THEN @ ELSE r]
         /\ rotated' = [rotated EXCEPT ![c] = r \notin {0, used[c]}]
    /\ \E g \in BOOLEAN : withGraph' = [withGraph EXCEPT ![c] = g]
    /\ pc' = [pc EXCEPT ![c] = "acquire"]
    /\ UNCHANGED <<db, authMu, kind, used, logout, unsaved, raced, saveFailures,
                   crashes>>

\* A plausible bug: the error path forgets the refresh token it was handed.
AcquireFailsUnsaved(c) ==
    /\ pc[c] = "acquire"
    /\ ReturnUnlocked(c)
    /\ UNCHANGED <<meta, db, received, logout, histVars>>

\* No skypetoken: the row is written if the refresh token changed.
AcquireFails(c) ==
    /\ pc[c] = "acquire"
    /\ \/ /\ rotated[c]
          /\ pc' = [pc EXCEPT ![c] = "save"]
          /\ UNCHANGED <<authMu, callVars>>
       \/ /\ ~rotated[c]
          /\ ReturnUnlocked(c)
    /\ UNCHANGED <<meta, db, received, logout, histVars>>

\* A plausible bug: copy the response's Graph fields even when it has none.
AcquireSucceedsWipingGraph(c) ==
    /\ pc[c] = "acquire"
    /\ meta' = [meta EXCEPT !.skype = "valid",
                            !.graph = IF withGraph[c] THEN "valid" ELSE "none"]
    /\ pc' = [pc EXCEPT ![c] = "save"]
    /\ UNCHANGED <<db, authMu, callVars, received, logout, histVars>>

\* The skypetoken (whose lifetime may be missing) and, only if the response
\* had one, the Graph token are stored.
AcquireSucceeds(c) ==
    /\ pc[c] = "acquire"
    /\ \E s \in {"valid", "stale"} :
         meta' = [meta EXCEPT !.skype = s,
                              !.graph = IF withGraph[c] THEN "valid" ELSE @]
    /\ pc' = [pc EXCEPT ![c] = "save"]
    /\ UNCHANGED <<db, authMu, callVars, received, logout, histVars>>

\* ensureValidGraphToken stores the refresh token and the Graph token together.
GraphRefreshed(c) ==
    /\ pc[c] \in {"refresh", "fallback"} /\ kind[c] = "graph"
    /\ \E r \in InResponse(c) :
         /\ Keep(r)
         /\ meta' = [meta EXCEPT !.refresh = IF r = 0 THEN @ ELSE r,
                                 !.graph = "valid"]
    /\ pc' = [pc EXCEPT ![c] = "save"]
    /\ UNCHANGED <<db, authMu, callVars, logout, unsaved, raced, saveFailures, crashes>>

\* A response without expires_in is an error: it returns before anything of
\* the response, the refresh token included, is stored.
GraphExpiryMissing(c) ==
    /\ pc[c] \in {"refresh", "fallback"} /\ kind[c] = "graph"
    /\ Discard(InResponse(c))
    /\ ReturnUnlocked(c)
    /\ UNCHANGED <<meta, db, logout, unsaved, raced, saveFailures, crashes>>

\* Login.Save writes the row ...
Save(c) ==
    /\ pc[c] = "save"
    /\ db' = meta
    /\ unsaved' = FALSE
    /\ ReturnUnlocked(c)
    /\ UNCHANGED <<meta, received, logout, tokenLost, raced, saveFailures, crashes>>

\* ... or fails, which is logged; the fields stay in memory.
SaveFails(c) ==
    /\ pc[c] = "save"
    /\ saveFailures < MaxSaveFailures
    /\ saveFailures' = saveFailures + 1
    /\ unsaved' = TRUE
    /\ ReturnUnlocked(c)
    /\ UNCHANGED <<meta, db, received, logout, tokenLost, raced, crashes>>

------------------------------------------------------------------------------
\* Time passes: a token reaches its expiry, in memory and in the row alike.
Expire ==
    /\ \/ /\ meta.skype = "valid"
          /\ meta' = [meta EXCEPT !.skype = "stale"]
          /\ db' = [db EXCEPT !.skype = IF @ = "valid" THEN "stale" ELSE @]
       \/ /\ meta.graph = "valid"
          /\ meta' = [meta EXCEPT !.graph = "stale"]
          /\ db' = [db EXCEPT !.graph = IF @ = "valid" THEN "stale" ELSE @]
    /\ UNCHANGED <<authMu, pc, callVars, received, logout, histVars>>

UnderWay == {"refresh", "fallback", "acquire", "save"}

\* A plausible bug: the refresh token is left out of what a logout clears.
LogoutKeepsRefresh ==
    /\ logout = "no"
    /\ logout' = "cleared"
    /\ meta' = [meta EXCEPT !.skype = "none", !.graph = "none"]
    /\ raced' = \E c \in Callers : pc[c] \in UnderWay
    /\ UNCHANGED <<db, authMu, pc, callVars, received, unsaved, tokenLost,
                   saveFailures, crashes>>

\* LogoutRemote clears the shared metadata without authMu ...
LogoutClears ==
    /\ logout = "no"
    /\ logout' = "cleared"
    /\ meta' = NoMetadata
    /\ raced' = \E c \in Callers : pc[c] \in UnderWay
    /\ UNCHANGED <<db, authMu, pc, callVars, received, unsaved, tokenLost,
                   saveFailures, crashes>>

\* ... and writes the row, ignoring an error.
LogoutSaves ==
    /\ logout = "cleared"
    /\ logout' = "done"
    /\ \/ /\ db' = meta
          /\ unsaved' = FALSE
          /\ UNCHANGED saveFailures
       \/ /\ saveFailures < MaxSaveFailures
          /\ saveFailures' = saveFailures + 1
          /\ unsaved' = TRUE
          /\ UNCHANGED db
    /\ UNCHANGED <<meta, authMu, pc, callVars, received, tokenLost, raced, crashes>>

\* The process dies and starts again from the row.
Crash ==
    /\ crashes < MaxCrashes
    /\ crashes' = crashes + 1
    /\ meta' = db
    /\ logout' = IF logout = "done" /\ ~unsaved THEN "done" ELSE "no"
    /\ tokenLost' = (tokenLost \/ db.refresh # received)
    /\ unsaved' = FALSE
    /\ authMu' = NoCaller
    /\ pc' = [c \in Callers |-> "idle"]
    /\ used' = [c \in Callers |-> 0]
    /\ rotated' = [c \in Callers |-> FALSE]
    /\ withGraph' = [c \in Callers |-> FALSE]
    /\ kind' = [c \in Callers |-> "skype"]
    /\ UNCHANGED <<db, received, raced, saveFailures>>

Respond(c) == \/ RefreshFails(c) \/ SkypeRefreshed(c)
              \/ GraphRefreshed(c) \/ GraphExpiryMissing(c)
              \/ AcquireFails(c) \/ AcquireSucceeds(c)
              \/ Save(c) \/ SaveFails(c)

Enter(c) == NothingToDo(c) \/ StartRefresh(c)

TokenNext ==
    \/ \E c \in Callers : Call(c) \/ Enter(c) \/ Respond(c)
    \/ Expire
    \/ LogoutClears \/ LogoutSaves
    \/ Crash

------------------------------------------------------------------------------
TokenTypeOK ==
    /\ meta \in Metadata /\ db \in Metadata
    /\ authMu \in Callers \cup {NoCaller}
    /\ pc \in [Callers -> {"idle", "lock", "refresh", "fallback", "acquire", "save"}]
    /\ kind \in [Callers -> {"skype", "graph"}]
    /\ used \in [Callers -> Nat]
    /\ rotated \in [Callers -> BOOLEAN]
    /\ withGraph \in [Callers -> BOOLEAN]
    /\ received \in Nat
    /\ unsaved \in BOOLEAN /\ tokenLost \in BOOLEAN
    /\ logout \in {"no", "cleared", "done"} /\ raced \in BOOLEAN
    /\ saveFailures \in Nat /\ crashes \in Nat

Asking == {"refresh", "fallback"}

\* No caller spends the refresh token on a token that is valid: of several
\* goroutines that find it expired together, one refreshes and the others,
\* once inside the mutex, see the new token.
NoRedundantRefresh ==
    \A c \in Callers : pc[c] \in Asking => Wanted(c) # "valid"

\* After a logout the tokens stay gone, in memory and, unless its write failed,
\* in the row: a caller that was waiting for the mutex, or that comes later,
\* brings none back.  (One whose requests were out when LogoutRemote cleared
\* the metadata, which it does without the mutex, may.)
LogoutHolds ==
    logout = "done" /\ ~raced =>
        /\ meta = NoMetadata
        /\ db = NoMetadata \/ unsaved

\* "Do not wipe a stored valid Graph token when MBI refresh omits Graph
\* tokens": no step of a token call takes a valid Graph token away.
GraphTokenKept ==
    [][\A c \in Callers :
         pc[c] # "idle" /\ pc'[c] # pc[c] /\ crashes' = crashes =>
            (meta.graph = "valid" => meta'.graph = "valid")]_tokenVars

\* Every call returns: neither the mutex nor a refused or unanswered request
\* keeps a message handler or the sync loop waiting for ever.
CallsReturn == \A c \in Callers : (pc[c] # "idle") ~> (pc[c] = "idle")
==============================================================================
