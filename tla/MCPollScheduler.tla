---------------------------- MODULE MCPollScheduler ----------------------------
(* Small instances of PollScheduler: two threads on a scaled-down clock, and   *)
(* one thread with the durations of the code.                                  *)
EXTENDS PollScheduler, SequencesExt

\* The login's user under its own id, a ghost and an unprefixed id; two others,
\* one of them also without a prefix, without a name and without an id; a bot;
\* and a namesake of the user without an id.
MCEntries ==
    {[id |-> <<"8:", "self">>, self |-> FALSE, name |-> "Me"],
     [id |-> <<"", "self">>, self |-> FALSE, name |-> ""],
     [id |-> <<"29:", "ghost">>, self |-> FALSE, name |-> "Me"],
     [id |-> <<"8:", "ann">>, self |-> FALSE, name |-> "Ann"],
     [id |-> <<"", "ann">>, self |-> FALSE, name |-> "Ann (guest)"],
     [id |-> <<"8:", "ann">>, self |-> FALSE, name |-> ""],
     [id |-> <<"", "">>, self |-> FALSE, name |-> "Ann"],
     [id |-> <<"8:", "bob">>, self |-> FALSE, name |-> "Bob"],
     [id |-> <<"28:", "teamsbot">>, self |-> FALSE, name |-> "Teams Bot"],
     [id |-> <<"", "">>, self |-> TRUE, name |-> "Me too"],
     [id |-> <<"", "">>, self |-> FALSE, name |-> "Me"]}

MCConversations ==
    [thread : {"t1", "t2"}, type : {"GroupChat"}, topic : {""},
     entries : BoundedSeq(MCEntries, 3)]
    \cup [thread : {"t1", ""}, type : {"GroupChat", "OneToOneChat"},
          topic : {"", "Topic"}, entries : BoundedSeq(MCEntries, 2)]

MCSelfID == <<"8:", "self">>

\* One thread fails for good, until its scaled delay has overflowed (2 shifted by
\* 36), and may recover after any number of failures; the other fails twice.
MCFailures == [t \in Threads |-> IF t = "t1" THEN 37 ELSE 2]

\* One failure more than the code's base delay can be shifted by.
OutageFailures == [t \in Threads |-> 34]

\* One conversation for the run with the durations of the code.
OneConversation ==
    {[thread |-> "t1", type |-> "OneToOneChat", topic |-> "", entries |-> <<>>]}
==============================================================================
