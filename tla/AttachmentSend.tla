---------------------------- MODULE AttachmentSend ----------------------------
(* A Matrix file on its way to Teams: HandleMatrixMessage downloads it        *)
(* (HandleOutboundMatrixFile), AttachmentOrchestrator.SendAttachmentMessage   *)
(* uploads it to OneDrive, shares it and posts a message that links it.  A    *)
(* small file is one PUT, a large one an upload session fed chunk by chunk    *)
(* (UploadTeamsChatFile, CreateUploadSession, UploadFileInChunks).            *)
(*                                                                            *)
(* Every request goes through TeamsRequestExecutor.Do: an attempt that is not *)
(* served, or whose answer is lost after the service acted, is repeated up to *)
(* MaxRetries times (RequestExecutor has the details); a refusal ends the     *)
(* send.  The drive and the chat are the services as this code sees them:     *)
(* conflictBehavior "rename" makes every finished upload a new item, and a    *)
(* session takes only bytes that continue what it holds, but the range it     *)
(* asks for next is trusted by the client and may be anything.                *)
(*                                                                            *)
(* The calls share the id generator of ClientMessageID, whose steps are part  *)
(* of theirs: its Threads are the goroutines that handle a room's events one  *)
(* after the other, here a few typing notices, which draw ids as well, and    *)
(* then a file.                                                               *)
EXTENDS ClientMessageID, Sequences

CONSTANTS Sizes,       \* sizes of the files, in bytes
          MaxBytes,    \* MaxAttachmentBytesV0
          SmallLimit,  \* SmallFileLimit
          ChunkSize,   \* ChunkSize
          MaxRetries,  \* executor retries per request
          Typists      \* bound: goroutines whose room sends typing notices

\* Concurrent goroutines with a HandleMatrixMessage call, a file each.
Senders == Threads

ASSUME SizesAssumption == Sizes \subseteq Nat
ASSUME LimitsAssumption == /\ MaxBytes \in Nat /\ SmallLimit \in Nat
                           /\ ChunkSize \in Nat \ {0} /\ MaxRetries \in Nat
ASSUME TypistsAssumption == Typists \subseteq Threads

VARIABLES pc,        \* pc[s]: the request sender s is at
          size,      \* size[s]: bytes of its file
          txn,       \* txn[s]: the id HandleMatrixMessage generated, 0 before
          clientID,  \* clientID[s]: the id SendAttachmentMessage posts under
          pending,   \* ids registered with AddPendingToSave
          tries,     \* tries[s]: retries of the request in hand
          start,     \* start[s]: where the next chunk begins
          received,  \* received[s]: the bytes its upload session holds
          item,      \* item[s]: the drive item it was told of, 0 for none
          drive,     \* the items of the drive, by number
          shared,    \* items a share link was made for
          chat       \* messages posted: [id, item]

vars == <<pc, size, txn, clientID, pending, tries, start, received, item,
          drive, shared, chat, idVars>>
client == <<size, txn, clientID, idVars>>
service == <<received, drive, shared, chat>>

Requests == {"put", "session", "chunk", "detail", "link", "post"}

\* The bytes of the file of s: each tells whose it is and where it belongs.
Content(s) == [o \in 1..size[s] |-> <<s, o>>]

Init ==
    /\ pc = [s \in Senders |-> "idle"]
    /\ size = [s \in Senders |-> 0]
    /\ txn = [s \in Senders |-> 0]
    /\ clientID = [s \in Senders |-> 0]
    /\ IdInit
    /\ pending = {}
    /\ tries = [s \in Senders |-> 0]
    /\ start = [s \in Senders |-> 0]
    /\ received = [s \in Senders |-> <<>>]
    /\ item = [s \in Senders |-> 0]
    /\ drive = <<>>
    /\ shared = {}
    /\ chat = {}

------------------------------------------------------------------------------
(* What an attempt does to the sender.                                        *)

\* The request returned: on to the next one.
Goto(s, next) ==
    /\ pc' = [pc EXCEPT ![s] = next]
    /\ tries' = [tries EXCEPT ![s] = 0]
    /\ UNCHANGED pending

\* An error travels up to HandleMatrixMessage, which drops the pending message.
Fail(s) ==
    /\ pc' = [pc EXCEPT ![s] = "failed"]
    /\ tries' = [tries EXCEPT ![s] = 0]
    /\ pending' = pending \ {txn[s]}

\* Try again while retries are left.
Retry(s) ==
    \/ /\ tries[s] < MaxRetries
       /\ tries' = [tries EXCEPT ![s] = @ + 1]
       /\ UNCHANGED <<pc, pending>>
    \/ /\ tries[s] = MaxRetries
       /\ Fail(s)

\* 429, 5xx or a timeout before the service acted.
Unserved(s) ==
    /\ pc[s] \in Requests
    /\ Retry(s)
    /\ UNCHANGED <<start, item, client, service>>

\* Any other status, an answer without the fields the client needs, or a
\* cancelled context.  GetDriveItem failing is an error of the upload too.
Refused(s) ==
    /\ pc[s] \in Requests
    /\ Fail(s)
    /\ UNCHANGED <<start, item, client, service>>

------------------------------------------------------------------------------
(* HandleMatrixTyping: SendTypingIndicator draws an id for itself ...         *)

StartTyping(s) ==
    /\ s \in Typists
    /\ pc[s] = "idle"
    /\ ReadClock(s)
    /\ pc' = [pc EXCEPT ![s] = "typing"]
    /\ UNCHANGED <<size, txn, clientID, pending, tries, start, item, service>>

\* ... and registers nothing: the notice leaves no message in the chat, however
\* its request ends.
Typing(s) ==
    /\ pc[s] = "typing"
    /\ \/ (LoadCounter(s) \/ SwapLost(s)) /\ UNCHANGED pc
       \/ SwapAndReturn(s) /\ pc' = [pc EXCEPT ![s] = "idle"]
    /\ UNCHANGED <<size, txn, clientID, pending, tries, start, item, service>>

------------------------------------------------------------------------------
(* HandleMatrixMessage and the way into the orchestrator.                     *)

\* The handler asks for an id ...
Receive(s) ==
    /\ pc[s] = "idle"
    /\ ReadClock(s)
    /\ \E n \in Sizes : size' = [size EXCEPT ![s] = n]
    /\ pc' = [pc EXCEPT ![s] = "generate"]
    /\ UNCHANGED <<txn, clientID, pending, tries, start, item, service>>

\* ... which may take several rounds ...
Generate(s) ==
    /\ pc[s] = "generate"
    /\ LoadCounter(s) \/ SwapLost(s)
    /\ UNCHANGED <<pc, size, txn, clientID, pending, tries, start, item, service>>

\* ... and registers it as pending before anything is sent.
Generated(s) ==
    /\ pc[s] = "generate"
    /\ SwapAndReturn(s)
    /\ txn' = [txn EXCEPT ![s] = now[s]]
    /\ pending' = pending \cup {now[s]}
    /\ pc' = [pc EXCEPT ![s] = "download"]
    /\ UNCHANGED <<size, clientID, tries, start, item, service>>

\* A plausible bug: the orchestrator makes up an id of its own.
DownloadedNewID(s) ==
    /\ pc[s] = "download"
    /\ size[s] \in 1..MaxBytes
    /\ clientID' = [clientID EXCEPT ![s] = sendMessageCounter + 1]
    /\ Goto(s, IF size[s] > SmallLimit THEN "session" ELSE "put")
    /\ UNCHANGED <<size, txn, start, item, service, idVars>>

\* The file is neither empty nor too large: the id is handed down, and the
\* size decides how it is uploaded.
Downloaded(s) ==
    /\ pc[s] = "download"
    /\ size[s] \in 1..MaxBytes
    /\ clientID' = [clientID EXCEPT ![s] = txn[s]]
    /\ Goto(s, IF size[s] > SmallLimit THEN "session" ELSE "put")
    /\ UNCHANGED <<size, txn, start, item, service, idVars>>

\* A message type the switch has no case for: the handler returns at once, and
\* the pending message stays.
Unsupported(s) ==
    /\ pc[s] = "download"
    /\ Goto(s, "unsupported")
    /\ UNCHANGED <<start, item, client, service>>

\* No download, no content, too much of it, or no token.
NotSendable(s) ==
    /\ pc[s] = "download"
    /\ Fail(s)
    /\ UNCHANGED <<start, item, client, service>>

------------------------------------------------------------------------------
(* Uploads.                                                                   *)

Stored(bytes) == drive' = Append(drive, bytes)

\* The answer names the new item; without its SharePoint ids it is fetched.
UploadReturns(s) ==
    /\ item' = [item EXCEPT ![s] = Len(drive')]
    /\ Goto(s, "link") \/ Goto(s, "detail")

PutReturns(s) ==
    /\ pc[s] = "put"
    /\ Stored(Content(s))
    /\ UploadReturns(s)
    /\ UNCHANGED <<start, received, shared, chat, client>>

\* The file is stored, the answer lost: the next attempt stores it again.
PutLost(s) ==
    /\ pc[s] = "put"
    /\ Stored(Content(s))
    /\ Retry(s)
    /\ UNCHANGED <<start, received, item, shared, chat, client>>

SessionReturns(s) ==
    /\ pc[s] = "session"
    /\ received' = [received EXCEPT ![s] = <<>>]
    /\ start' = [start EXCEPT ![s] = 0]
    /\ Goto(s, "chunk")
    /\ UNCHANGED <<item, drive, shared, chat, client>>

\* A plausible bug: the slice does not begin at start.
ChunkFromZero(s) ==
    LET end == IF start[s] + ChunkSize - 1 >= size[s] THEN size[s] - 1
               ELSE start[s] + ChunkSize - 1
    IN  SubSeq(Content(s), 1, end - start[s] + 1)

\* content[start : end+1], announced as bytes start-end of the total.
Chunk(s) ==
    LET end == IF start[s] + ChunkSize - 1 >= size[s] THEN size[s] - 1
               ELSE start[s] + ChunkSize - 1
    IN  SubSeq(Content(s), start[s] + 1, end + 1)

\* The chunk continues the session, which keeps its first k bytes.
Keeps(s, k) ==
    /\ pc[s] = "chunk"
    /\ start[s] = Len(received[s])
    /\ start[s] < size[s]
    /\ k <= Len(Chunk(s))
    /\ received' = [received EXCEPT ![s] = @ \o SubSeq(Chunk(s), 1, k)]

\* A plausible bug: the range asked for is parsed and dropped.
ContinueWhereItWas(s, next) ==
    /\ start' = start
    /\ Goto(s, "chunk")

\* 202: start = parseNextExpectedStart(...).  A start beyond the end leaves the
\* loop with "chunked upload did not complete".
ContinueAt(s, next) ==
    /\ start' = [start EXCEPT ![s] = next]
    /\ IF next < size[s] THEN Goto(s, "chunk") ELSE Fail(s)

\* Bytes are still missing, and the session says which come next.
ChunkTaken(s) ==
    /\ \E k \in 1..ChunkSize : Keeps(s, k)
    /\ Len(received'[s]) < size[s]
    /\ ContinueAt(s, Len(received'[s]))
    /\ UNCHANGED <<item, drive, shared, chat, client>>

\* The chunk does not continue what the session holds (the answer to an
\* earlier attempt was lost, or the range it named was wrong).
ChunkOutOfPlace(s) ==
    /\ pc[s] = "chunk"
    /\ start[s] # Len(received[s])
    /\ Len(received[s]) < size[s]
    /\ ContinueAt(s, Len(received[s]))
    /\ UNCHANGED <<item, client, service>>

\* 202 with any other range: nothing kept, or not what is missing.
RangeMisnamed(s) ==
    /\ pc[s] = "chunk"
    /\ Len(received[s]) < size[s]
    /\ \E next \in 0..size[s] : ContinueAt(s, next)
    /\ UNCHANGED <<item, client, service>>

\* 201: the last bytes are in, the session becomes an item.
ChunkCompletes(s) ==
    /\ \E k \in 1..ChunkSize : Keeps(s, k)
    /\ Len(received'[s]) = size[s]
    /\ Stored(received'[s])
    /\ UploadReturns(s)
    /\ UNCHANGED <<start, shared, chat, client>>

\* The bytes are kept, the answer lost.  After the last ones the session is
\* gone, and the next attempt can only be refused: a complete file, a failed
\* send.
ChunkLost(s) ==
    /\ \E k \in 1..ChunkSize : Keeps(s, k)
    /\ drive' = IF Len(received'[s]) = size[s] THEN Append(drive, received'[s])
                ELSE drive
    /\ Retry(s)
    /\ UNCHANGED <<start, item, shared, chat, client>>

\* GetDriveItem has what the upload's answer left out.
DetailReturns(s) ==
    /\ pc[s] = "detail"
    /\ Goto(s, "link")
    /\ UNCHANGED <<start, item, client, service>>

------------------------------------------------------------------------------
(* CreateShareLink, and the message.                                          *)

LinkReturns(s) ==
    /\ pc[s] = "link"
    /\ shared' = shared \cup {item[s]}
    /\ Goto(s, "post")
    /\ UNCHANGED <<start, item, received, drive, chat, client>>

LinkLost(s) ==
    /\ pc[s] = "link"
    /\ shared' = shared \cup {item[s]}
    /\ Retry(s)
    /\ UNCHANGED <<start, item, received, drive, chat, client>>

Post(s) == chat' = chat \cup {[id |-> clientID[s], item |-> item[s]]}

PostReturns(s) ==
    /\ pc[s] = "post"
    /\ Post(s)
    /\ Goto(s, "sent")
    /\ UNCHANGED <<start, item, received, drive, shared, client>>

PostLost(s) ==
    /\ pc[s] = "post"
    /\ Post(s)
    /\ Retry(s)
    /\ UNCHANGED <<start, item, received, drive, shared, client>>

Step(s) ==
    \/ Generate(s) \/ Generated(s)
    \/ Downloaded(s) \/ NotSendable(s) \/ Unsupported(s)
    \/ Unserved(s) \/ Refused(s)
    \/ PutReturns(s) \/ PutLost(s)
    \/ SessionReturns(s)
    \/ ChunkTaken(s) \/ ChunkOutOfPlace(s) \/ RangeMisnamed(s)
    \/ ChunkCompletes(s) \/ ChunkLost(s)
    \/ DetailReturns(s)
    \/ LinkReturns(s) \/ LinkLost(s)
    \/ PostReturns(s) \/ PostLost(s)

Next == \E s \in Senders : StartTyping(s) \/ Typing(s) \/ Receive(s) \/ Step(s)

\* A call under way goes on, and a session that is asked again and again in the
\* end keeps the bytes it asked for, or says which it wants: the loop itself
\* does not bound the number of 202 answers.
Fairness ==
    \A s \in Senders : /\ WF_vars(Typing(s) \/ Step(s))
                       /\ SF_vars(ChunkTaken(s) \/ ChunkCompletes(s))
                       /\ SF_vars(ChunkOutOfPlace(s))

Spec == Init /\ [][Next]_vars /\ Fairness

------------------------------------------------------------------------------
\* Every message in the chat links a file that holds the sender's bytes, all of
\* them and each in its place, whatever was retried, kept in part or misnamed
\* on the way, and whatever the other senders uploaded meanwhile; and the item
\* was shared before the message could be seen.
PostedFilesUsable ==
    \A m \in chat :
        /\ m.item \in shared
        /\ \A s \in Senders :
             m.id # 0 /\ m.id = clientID[s] => drive[m.item] = Content(s)

\* The id of a send is pending on the Matrix side from its first request until
\* the send fails, so that the echo is recognised and no failed send waits for
\* one (an unsupported message does, for ever); and whatever was posted, by
\* retries included, was posted under the id of its send.
PendingExact ==
    /\ \A s \in Senders : txn[s] # 0 => (txn[s] \in pending <=> pc[s] # "failed")
    /\ \A m \in chat : \E s \in Senders : txn[s] = m.id

\* Every send ends, as sent or as failed, and the Matrix user is told.  It cannot
\* lose the generator's swap for ever: losing one means another call got its id.
SendEnds == \A s \in Senders : (pc[s] = "generate") ~> (pc[s] \in {"sent", "failed", "unsupported"})
==============================================================================
