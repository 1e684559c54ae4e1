--------------------------- MODULE ClientMessageID ---------------------------
(* GenerateClientMessageID (internal/teams/client/messages.go): the lock-free *)
(* generator of the clientmessageid every outbound Teams message carries.     *)
(* The id is the transaction id under which bridgev2 reconciles a sent        *)
(* message with its echo, so two sends that share one would be merged.        *)
(*                                                                            *)
(* A call reads the wall clock once and then loops: load the shared counter,  *)
(* lift its candidate above what it loaded, compare-and-swap.  The wall clock *)
(* is not monotonic (NTP may step it back), so a call reads any ClockValue.   *)
(* uint64 wrap-around of the counter (nanoseconds since 1970) lies centuries  *)
(* ahead and is left out.                                                     *)
EXTENDS Naturals

CONSTANTS Threads,      \* goroutines that send messages
          ClockValues,  \* readings of time.Now().UTC().UnixNano()
          MaxCalls      \* bound: calls started in a behaviour

ASSUME ClockAssumption == ClockValues \subseteq Nat
ASSUME CallsAssumption == MaxCalls \in Nat

VARIABLES sendMessageCounter,  \* the shared uint64
          idPc,                \* idPc[t]: where goroutine t is in the function
          now,                 \* now[t]: its candidate id
          prev,                \* prev[t]: the counter value it loaded
          issued,              \* issued[t]: the ids its calls returned
          calls                \* calls started so far

idVars == <<sendMessageCounter, idPc, now, prev, issued, calls>>

IdInit ==
    /\ sendMessageCounter = 0
    /\ idPc = [t \in Threads |-> "idle"]
    /\ now = [t \in Threads |-> 0]
    /\ prev = [t \in Threads |-> 0]
    /\ issued = [t \in Threads |-> {}]
    /\ calls = 0

\* now := uint64(time.Now().UTC().UnixNano())
ReadClock(t) ==
    /\ idPc[t] = "idle"
    /\ calls < MaxCalls
    /\ calls' = calls + 1
    /\ \E c \in ClockValues : now' = [now EXCEPT ![t] = c]
    /\ idPc' = [idPc EXCEPT ![t] = "load"]
    /\ UNCHANGED <<sendMessageCounter, prev, issued>>

\* A plausible bug: a candidate equal to the counter is left as it is.
LoadCounterNotAbove(t) ==
    /\ idPc[t] = "load"
    /\ prev' = [prev EXCEPT ![t] = sendMessageCounter]
    /\ now' = [now EXCEPT ![t] = IF now[t] < sendMessageCounter
                                 THEN sendMessageCounter + 1 ELSE now[t]]
    /\ idPc' = [idPc EXCEPT ![t] = "cas"]
    /\ UNCHANGED <<sendMessageCounter, issued, calls>>

\* prev := atomic.LoadUint64(&sendMessageCounter); if now <= prev, now = prev+1
LoadCounter(t) ==
    /\ idPc[t] = "load"
    /\ prev' = [prev EXCEPT ![t] = sendMessageCounter]
    /\ now' = [now EXCEPT ![t] = IF now[t] <= sendMessageCounter
                                 THEN sendMessageCounter + 1 ELSE now[t]]
    /\ idPc' = [idPc EXCEPT ![t] = "cas"]
    /\ UNCHANGED <<sendMessageCounter, issued, calls>>

\* A plausible bug: store the candidate without comparing (a plain Store).
StoreAndReturn(t) ==
    /\ idPc[t] = "cas"
    /\ sendMessageCounter' = now[t]
    /\ issued' = [issued EXCEPT ![t] = @ \cup {now[t]}]
    /\ idPc' = [idPc EXCEPT ![t] = "idle"]
    /\ UNCHANGED <<now, prev, calls>>

\* The CompareAndSwap succeeds and the call returns its candidate ...
SwapAndReturn(t) ==
    /\ idPc[t] = "cas"
    /\ sendMessageCounter = prev[t]
    /\ sendMessageCounter' = now[t]
    /\ issued' = [issued EXCEPT ![t] = @ \cup {now[t]}]
    /\ idPc' = [idPc EXCEPT ![t] = "idle"]
    /\ UNCHANGED <<now, prev, calls>>

\* ... or another call moved the counter, and the loop loads it again.
SwapLost(t) ==
    /\ idPc[t] = "cas"
    /\ sendMessageCounter # prev[t]
    /\ idPc' = [idPc EXCEPT ![t] = "load"]
    /\ UNCHANGED <<sendMessageCounter, now, prev, issued, calls>>

IdStep(t) == LoadCounter(t) \/ SwapAndReturn(t) \/ SwapLost(t)

IdNext == \E t \in Threads : ReadClock(t) \/ IdStep(t)

\* The generator by itself; AttachmentSend composes it with its callers and
\* says what is fair.
IdSpec == IdInit /\ [][IdNext]_idVars

------------------------------------------------------------------------------
IdTypeOK ==
    /\ sendMessageCounter \in Nat
    /\ idPc \in [Threads -> {"idle", "load", "cas"}]
    /\ now \in [Threads -> Nat]
    /\ prev \in [Threads -> Nat]
    /\ issued \in [Threads -> SUBSET Nat]
    /\ calls \in Nat

\* No two goroutines are ever given the same id, whatever the clock reads and
\* however their loads and swaps interleave.
UniqueIDs ==
    \A t, u \in Threads : t # u => issued[t] \cap issued[u] = {}

\* Every call returns an id above all the ids returned before it, to its own
\* goroutine as well as to others: no id is ever given out again, even when the
\* clock stands still between two calls, and the ids' order is that of the swaps.
FreshIDs ==
    [][\A t \in Threads :
         idPc[t] = "cas" /\ idPc'[t] = "idle" =>
            /\ now[t] \in issued'[t]
            /\ \A u \in Threads : \A j \in issued[u] : j < now[t]]_idVars
==============================================================================
