----------------------------- MODULE MessageRelay -----------------------------
(* What the bridge promises about one conversation: the messages people send *)
(* in the Teams thread are relayed to the Matrix room one by one, each once,  *)
(* in the order Teams numbered them, and none is left behind.                 *)
EXTENDS Naturals, Sequences

CONSTANTS ClientIDs,   \* clientmessageids of messages sent through the bridge
          NoCid,       \* the id of a message that was not
          MaxMsgs      \* bound: messages the thread ever holds

VARIABLES log,      \* the Teams thread; a message's sequence id is its index
          relayed   \* sequence ids relayed so far, oldest first

vars == <<log, relayed>>

Bridgeable(m) == m.from \in {"user", "self"}

Senders == {"user", "self", "system", "blank"}

Message == [from : Senders, cid : ClientIDs \cup {NoCid}]

Init == log = <<>> /\ relayed = <<>>

Post ==
    /\ Len(log) < MaxMsgs
    /\ \E m \in Message : log' = Append(log, m)
    /\ UNCHANGED relayed

LastRelayed == IF relayed = <<>> THEN 0 ELSE relayed[Len(relayed)]

\* The next message is the oldest bridgeable one after the last relayed.
Relay ==
    /\ \E m \in DOMAIN log :
         /\ m > LastRelayed
         /\ Bridgeable(log[m])
         /\ \A k \in DOMAIN log :
              k > LastRelayed /\ k < m => ~Bridgeable(log[k])
         /\ relayed' = Append(relayed, m)
    /\ UNCHANGED log

Next == Post \/ Relay

Spec == Init /\ [][Next]_vars /\ WF_vars(Relay)
==============================================================================
