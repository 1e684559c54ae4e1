----------------------------- MODULE Conversation -----------------------------
(* What thread discovery makes of a conversation that Teams lists             *)
(* (RemoteConversation.NormalizeForSelf, internal/teams/model/conversation.go): *)
(* whether it is a thread at all, whether its room is a direct chat, and the  *)
(* room's name.                                                               *)
(*                                                                            *)
(* A conversation is [thread, type, topic, entries]: originalThreadId, the    *)
(* thread type, the first of the fourteen name fields that is not empty, and  *)
(* the members, participants and consumers in this order.  Teams may list a   *)
(* person several times: with or without a numeric prefix in the id, without  *)
(* an id, without a name, and the login's user under the id of a "ghost".     *)
(* An entry is [id, self, name], where self stands for IsSelf and             *)
(* IsCurrentUser, and an id is <<prefix, rest>>.  "" is what is missing, and  *)
(* names that differ in case only are one.                                    *)
EXTENDS Sequences, FiniteSetsExt

CONSTANTS Conversations,  \* the conversations Teams may list
          SelfID          \* the login's TeamsUserID

NoID == <<"", "">>

\* An id that is nothing but a prefix is not taken apart: it is its own rest.
ASSUME EntryAssumption ==
    \A c \in Conversations :
        /\ Len(c.entries) \in Nat
        /\ \A i \in 1..Len(c.entries) :
              c.entries[i].id # NoID => c.entries[i].id[2] # ""

normalizeParticipantID(id) == id[2]

isExplicitSelfMember(m) ==
    \/ m.self
    \/ m.id # NoID /\ normalizeParticipantID(m.id) = normalizeParticipantID(SelfID)

isLikelyTeamsBotID(id) == id[1] = "28:" \/ id[2] = "teamsbot"

\* The places of the entries that are neither the login's user nor a bot.
Others(c) ==
    {i \in 1..Len(c.entries) : /\ ~isExplicitSelfMember(c.entries[i])
                               /\ ~isLikelyTeamsBotID(c.entries[i].id)}

collectSelfDisplayNames(c) ==
    {m.name : m \in {n \in Range(c.entries) : isExplicitSelfMember(n)}} \ {""}

\* Whom an entry is counted as.
idKey(m) == IF m.id # NoID THEN normalizeParticipantID(m.id) ELSE m.name

\* Ghosts of the login's user bear its name and are not counted.
Counted(c) ==
    {m \in {c.entries[i] : i \in Others(c)} :
        m.name \notin collectSelfDisplayNames(c) /\ idKey(m) # ""}

isLikelyOneToOne(c) ==
    c.topic = "" /\ Cardinality({idKey(m) : m \in Counted(c)}) = 1

Named(c) == {i \in Others(c) : c.entries[i].name # ""}

FirstName(c, places) == c.entries[Min(places)].name

\* A plausible bug: the first name that is not the user's own entry will do.
resolveDMNameOfFirst(c) == IF Named(c) # {} THEN FirstName(c, Named(c)) ELSE ""

\* The first name that is not the user's, or else the first one at all.
resolveDMName(c) ==
    LET proper == {i \in Named(c) : c.entries[i].name \notin collectSelfDisplayNames(c)}
    IN  IF proper # {} THEN FirstName(c, proper)
        ELSE IF Named(c) # {} THEN FirstName(c, Named(c)) ELSE ""

isOneToOne(c) == c.type = "OneToOneChat" \/ isLikelyOneToOne(c)

resolveRoomName(c) ==
    IF isOneToOne(c) THEN resolveDMName(c)
    ELSE IF c.topic # "" THEN c.topic ELSE "Chat"

\* Conversations without originalThreadId are passed over.
Normalized == {c \in Conversations : c.thread # ""}

------------------------------------------------------------------------------
\* What a direct chat's room must not be: a chat taken for a direct one has
\* exactly one other person, so if Teams gives that person a name in any of the
\* entries, the room has one of those names.
misnamed(c) ==
    LET names == {m.name : m \in Counted(c)} \ {""}
    IN  isLikelyOneToOne(c) /\ names # {} /\ resolveRoomName(c) \notin names

\* Threads with such a conversation.
Misnamed == {c.thread : c \in {d \in Normalized : misnamed(d)}}
==============================================================================
