----------------------------- MODULE HttpClient -----------------------------
(***************************************************************************)
(* JumpropesCommon::HttpClient and its HttpConnection                      *)
(* (Jumpropes/Common/HttpClient.cpp, HttpConnection.cpp,                   *)
(* Jumpropes/ThreadedConnection.cpp): two threads that share receivedData  *)
(* under bufferlock.  The connection thread receives messages, the client  *)
(* thread finds the header and passes the content on to onContent.  The    *)
(* user calls get() with bBlocking.                                        *)
(*                                                                         *)
(* A response is a sequence of tokens: the header, the empty line behind   *)
(* it, the size of a chunk, a line end, a piece of content (which may look *)
(* like a line end itself).  The server cuts it into messages between any  *)
(* two tokens; receivedData is the part received so far, and a position in *)
(* it is an offset.  Finding a text that is split over several messages is *)
(* the business of StringVector.                                           *)
(***************************************************************************)
EXTENDS Integers, Sequences, SequencesExt

CONSTANTS Responses,    \* the responses of the server, see IsResponse
          MaxRequests   \* bound: requests in a behaviour

\* The content arrives with a Content-Length, in chunks, or until the server
\* closes the connection; `chunks` is cut where a chunk ends.  After the end
\* a server may send `extra` tokens nobody asked for.
IsResponse(r) ==
  /\ r.mode \in {"length", "chunked", "close"}
  /\ r.chunks \in Seq(Seq({"text", "crlf"}) \ {<<>>})
  /\ r.extra \in Nat

ASSUME HttpAssumption == MaxRequests \in Nat \ {0} /\ \A r \in Responses : IsResponse(r)

None == -1              \* header.contentlength and iChunkScanLastSize unset

VARIABLES
  response, sent, closed,       \* the server: what it answers, how far it is
  received,                     \* the length of receivedData
  bufferlock,                   \* held by the client across a step
  conn, connRunning, connStop,  \* the connection thread and its flags
  message,                      \* the tokens of sMessage
  client, running, stop,        \* the client thread and its flags
  bHeaderParsed, contentlength, chunked,
  lastSend,                     \* rLastSend.end_pos
  chunkPos,                     \* lastChunkRange.end
  iChunkScanLastSize,
  user,                         \* where the user is in get()
  requests,                     \* history: the requests made
  delivered,                    \* history: the tokens given to onContent
  status                        \* history: the last status of this request

serverVars == <<response, sent, closed>>
connVars   == <<conn, connRunning, connStop, message>>
scanVars   == <<bHeaderParsed, contentlength, chunked, lastSend, chunkPos, iChunkScanLastSize>>
clientVars == <<client, running, stop>>
httpVars   == <<serverVars, received, bufferlock, connVars, clientVars, scanVars,
                user, requests, delivered, status>>

(***************************************************************************)
(* The response as it goes over the connection.                            *)
(***************************************************************************)
Token(kind, size) == [kind |-> kind, size |-> size, content |-> FALSE]
Content(kind)     == [kind |-> kind, size |-> 0, content |-> TRUE]

iHeaderSize == 2
Header == <<Token("header", 0), Token("empty line", 0)>>
Crlf   == <<Token("crlf", 0)>>

Plain(chunk)  == [n \in 1..Len(chunk) |-> Content(chunk[n])]
Framed(chunk) == <<Token("size", Len(chunk))>> \o Crlf \o Plain(chunk) \o Crlf
Extra(r)      == [n \in 1..r.extra |-> Content("text")]

\* The content of the response, in one piece.
Entity(r) == FlattenSeq([k \in 1..Len(r.chunks) |-> Plain(r.chunks[k])])

Stream(r) ==
  Header \o
  (IF r.mode = "chunked"
     THEN FlattenSeq([k \in 1..Len(r.chunks) |-> Framed(r.chunks[k])])
            \o <<Token("size", 0)>> \o Crlf \o Crlf
     ELSE Entity(r)) \o Extra(r)

receivedData == SubSeq(Stream(response), 1, received)

Offsets == DOMAIN Stream(response)

\* The offset behind the first token of the kind at or behind an offset, which
\* is 0 if there is none in receivedData.
Behind(kind, offset) ==
  LET found == {n \in offset + 1 .. received : receivedData[n].kind = kind}
  IN IF found = {} THEN 0 ELSE CHOOSE n \in found : \A k \in found : n <= k

\* copy(): the tokens, by their place in the response, from one offset to another.
Copy(from, to) == [n \in 1..(to - from) |-> from + n]

HttpInit ==
  /\ response \in Responses /\ sent = 0 /\ closed = TRUE
  /\ received = 0 /\ bufferlock = "free"
  /\ conn = "done" /\ connRunning = FALSE /\ connStop = FALSE /\ message = 0
  /\ client = "done" /\ running = FALSE /\ stop = FALSE
  /\ bHeaderParsed = FALSE /\ contentlength = None /\ chunked = FALSE
  /\ lastSend = 0 /\ chunkPos = 0 /\ iChunkScanLastSize = None
  /\ user = "idle" /\ requests = 0
  /\ delivered = <<>> /\ status = "none"

(***************************************************************************)
(* get(), in the user's thread                                             *)
(***************************************************************************)
userOnly == <<serverVars, received, bufferlock, connVars, clientVars, scanVars, requests,
              delivered, status>>

\* reset(): the old connection and its socket are deleted, the header is kept.
reset ==
  /\ bHeaderParsed' = FALSE /\ chunkPos' = 0 /\ iChunkScanLastSize' = None
  /\ lastSend' = 0
  /\ UNCHANGED <<contentlength, chunked>>

Request ==
  /\ user = "idle" /\ ~running
  /\ requests < MaxRequests /\ requests' = requests + 1
  /\ reset
  /\ received' = 0 /\ delivered' = <<>>

\* The socket is connected, and connection->start() returned.
Connect(r) ==
  /\ Request
  /\ user' = "connected"
  /\ response' = r /\ sent' = 0 /\ closed' = FALSE
  /\ conn' = "test" /\ connRunning' = TRUE /\ connStop' = FALSE /\ message' = 0
  /\ status' = "none"
  /\ UNCHANGED <<bufferlock, clientVars>>

\* The host is unknown or refuses the connection.
ConnectFails ==
  /\ Request
  /\ user' = "back"
  /\ status' = "error"
  /\ UNCHANGED <<serverVars, bufferlock, connVars, clientVars>>

Start ==
  /\ user = "connected" /\ user' = "started"
  /\ client' = "test" /\ running' = TRUE /\ stop' = FALSE
  /\ UNCHANGED <<serverVars, received, bufferlock, connVars, scanVars, requests,
                 delivered, status>>

sendGet ==
  /\ user = "started" /\ user' = "blocked"
  /\ UNCHANGED userOnly

GetReturn ==
  /\ user = "blocked" /\ ~running /\ user' = "back"
  /\ UNCHANGED userOnly

get == Start \/ sendGet \/ GetReturn

(***************************************************************************)
(* The server                                                              *)
(***************************************************************************)
Send(n) ==
  /\ user = "blocked" /\ ~closed
  /\ sent + n <= Len(Stream(response)) /\ sent' = sent + n
  /\ UNCHANGED <<response, closed, received, bufferlock, connVars, clientVars, scanVars,
                 user, requests, delivered, status>>

\* The server closes the connection, perhaps too early.
Close ==
  /\ ~closed /\ closed' = TRUE
  /\ UNCHANGED <<response, sent, received, bufferlock, connVars, clientVars, scanVars,
                 user, requests, delivered, status>>

(***************************************************************************)
(* The connection thread: ThreadedConnection::execute()                    *)
(***************************************************************************)
ConnGoto(from, to) ==
  /\ conn = from /\ conn' = to
  /\ UNCHANGED <<serverVars, bufferlock, clientVars, scanVars, user, requests, delivered,
                 status>>

ConnTest ==
  /\ ConnGoto("test", IF connStop THEN "done" ELSE "receive")
  /\ connRunning' = ~connStop
  /\ UNCHANGED <<received, connStop, message>>

\* receive() finds nothing and no error.
ReceiveNothing ==
  /\ ConnGoto("receive", "test")
  /\ sent = received /\ ~closed
  /\ UNCHANGED <<received, connRunning, connStop, message>>

\* A part of what the server sent, as the network delivers it.
ReceiveMessage(n) ==
  /\ ConnGoto("receive", "message")
  /\ n > 0 /\ received + n <= sent
  /\ message' = n
  /\ UNCHANGED <<received, connRunning, connStop>>

\* The connection is closed; what is under way may be lost with it: stop().
ReceiveFails ==
  /\ ConnGoto("receive", "test")
  /\ closed
  /\ connStop' = TRUE
  /\ UNCHANGED <<received, connRunning, message>>

newMessageReceived ==
  /\ ConnGoto("message", "test")
  /\ bufferlock = "free"
  /\ received' = received + message
  /\ message' = 0
  /\ UNCHANGED <<connRunning, connStop>>

Connection ==
  \/ ConnTest \/ ReceiveNothing \/ ReceiveFails \/ newMessageReceived
  \/ \E n \in Offsets : ReceiveMessage(n)

(***************************************************************************)
(* The client thread: HttpClient::execute()                                *)
(***************************************************************************)
ClientGoto(from, to) ==
  /\ client = from /\ client' = to
  /\ UNCHANGED <<serverVars, received, conn, connRunning, message, user, requests>>

ClientTest ==
  /\ ClientGoto("test", IF stop THEN "done" ELSE "execute")
  /\ running' = ~stop
  /\ UNCHANGED <<bufferlock, connStop, stop, scanVars, delivered, status>>

\* What execute() is to do next; in close mode there is nothing to do.
Task == IF ~connRunning              THEN "finish"
        ELSE IF ~bHeaderParsed           THEN "header"
        ELSE IF contentlength # None     THEN "length"
        ELSE IF ~chunked                 THEN "test"
        ELSE IF iChunkScanLastSize = 0   THEN "stop" ELSE "chunk"

Execute ==
  /\ ClientGoto("execute", Task)
  /\ UNCHANGED <<bufferlock, connStop, running, stop, scanVars, delivered, status>>

locateAndParseHeader ==
  /\ ClientGoto("header", "test")
  /\ bufferlock = "free"
  /\ LET end == Behind("empty line", 0)
     IN IF end = 0
          THEN UNCHANGED <<scanVars, status>>
          ELSE /\ bHeaderParsed' = TRUE
               /\ chunked' = (response.mode = "chunked")
               /\ contentlength' = IF response.mode = "length" THEN Len(Entity(response))
                                                              ELSE None
               /\ chunkPos' = end
               /\ lastSend' = end
               /\ status' = "header"
               /\ UNCHANGED iChunkScanLastSize
  /\ UNCHANGED <<bufferlock, connStop, running, stop, delivered>>

\* With a Content-Length: all is there, or not yet.
LengthLock ==
  /\ ClientGoto("length", IF received - iHeaderSize >= contentlength
                            THEN "length stop" ELSE "length send")
  /\ bufferlock = "free" /\ bufferlock' = "client"
  /\ UNCHANGED <<connStop, running, stop, scanVars, delivered, status>>

\* connection->stopAndWait(), with bufferlock held.
LengthStop ==
  /\ ClientGoto("length stop", "length wait")
  /\ connStop' = TRUE
  /\ UNCHANGED <<bufferlock, running, stop, scanVars, delivered, status>>

LengthStopped ==
  /\ ClientGoto("length wait", "length send")
  /\ ~connRunning
  /\ UNCHANGED <<bufferlock, connStop, running, stop, scanVars, delivered, status>>

\* Mutant: what was sent on is not noted.
SendOnAgain ==
  /\ delivered' = IF received > lastSend THEN delivered \o Copy(lastSend, received) ELSE delivered
  /\ UNCHANGED scanVars

\* What is new since the last time goes to onContent.
SendOn ==
  /\ delivered' = IF received > lastSend THEN delivered \o Copy(lastSend, received) ELSE delivered
  /\ lastSend' = IF received > lastSend THEN received ELSE lastSend
  /\ UNCHANGED <<bHeaderParsed, contentlength, chunked, chunkPos, iChunkScanLastSize>>

LengthSend ==
  /\ ClientGoto("length send", "test")
  /\ SendOn
  /\ bufferlock' = "free"
  /\ UNCHANGED <<connStop, running, stop, status>>

\* isEndOfChunkedData(): the line with the size of the next chunk.
ChunkSize ==
  /\ client = "chunk"
  /\ iChunkScanLastSize = None
  /\ bufferlock = "free"
  /\ LET end == Behind("crlf", chunkPos)
     IN IF end = 0
          THEN ClientGoto("chunk", "test") /\ UNCHANGED scanVars
          ELSE LET size == receivedData[chunkPos + 1].size
               IN /\ ClientGoto("chunk", IF size = 0 THEN "stop" ELSE "chunk")
                  /\ iChunkScanLastSize' = size
                  /\ chunkPos' = end
                  /\ UNCHANGED <<bHeaderParsed, contentlength, chunked, lastSend>>
  /\ UNCHANGED <<bufferlock, connStop, running, stop, delivered, status>>

AfterChunk == chunkPos + iChunkScanLastSize + Len(Crlf)

\* The chunk itself, once it is there as a whole.
ChunkData ==
  /\ ClientGoto("chunk", "test")
  /\ iChunkScanLastSize # None
  /\ bufferlock = "free"
  /\ IF received - chunkPos >= iChunkScanLastSize
       THEN /\ delivered' = delivered \o Copy(chunkPos, chunkPos + iChunkScanLastSize)
            /\ chunkPos' = AfterChunk
            /\ iChunkScanLastSize' = None
            /\ UNCHANGED <<bHeaderParsed, contentlength, chunked, lastSend>>
       ELSE UNCHANGED <<delivered, scanVars>>
  /\ UNCHANGED <<bufferlock, connStop, running, stop, status>>

\* Mutant: the connection is not told to stop.
ChunkedStopForgotten ==
  /\ ClientGoto("stop", "wait")
  /\ UNCHANGED <<bufferlock, connStop, running, stop, scanVars, delivered, status>>

\* The last chunk was found: connection->stopAndWait().
ChunkedStop ==
  /\ ClientGoto("stop", "wait")
  /\ connStop' = TRUE
  /\ UNCHANGED <<bufferlock, running, stop, scanVars, delivered, status>>

ChunkedStopped ==
  /\ ClientGoto("wait", "test")
  /\ ~connRunning
  /\ UNCHANGED <<bufferlock, connStop, running, stop, scanVars, delivered, status>>

\* done() begins with what is left: all of it if the length is not known.
parseReceivedData ==
  /\ ClientGoto("finish", "status")
  /\ bufferlock = "free"
  /\ \/ /\ ~bHeaderParsed \/ chunked
        /\ UNCHANGED <<delivered, scanVars>>
     \/ /\ bHeaderParsed /\ ~chunked /\ contentlength # None
        /\ SendOn
     \/ /\ bHeaderParsed /\ ~chunked /\ contentlength = None
        /\ contentlength' = received - iHeaderSize
        /\ delivered' = delivered \o Copy(iHeaderSize, received)
        /\ UNCHANGED <<bHeaderParsed, chunked, lastSend, chunkPos, iChunkScanLastSize>>
  /\ UNCHANGED <<bufferlock, connStop, running, stop, status>>

Done ==
  /\ ClientGoto("status", "test")
  /\ stop' = TRUE
  /\ status' = "done"
  /\ UNCHANGED <<bufferlock, connStop, running, scanVars, delivered>>

Client ==
  \/ ClientTest \/ Execute \/ locateAndParseHeader
  \/ LengthLock \/ LengthStop \/ LengthStopped \/ LengthSend
  \/ ChunkSize \/ ChunkData \/ ChunkedStop \/ ChunkedStopped
  \/ parseReceivedData \/ Done

HttpNext ==
  \/ \E r \in Responses : Connect(r)
  \/ ConnectFails \/ get
  \/ \E n \in Offsets : Send(n)
  \/ Close
  \/ Connection
  \/ Client

(***************************************************************************)
(* Properties.                                                             *)
(***************************************************************************)
\* How far into the response onContent has got.
Reach == IF delivered = <<>> THEN 0 ELSE delivered[Len(delivered)]

\* However the response is cut into messages, onContent gets the content piece
\* by piece in order: nothing twice, nothing left out, no size or line end of
\* the framing, and nothing of an earlier response.  JRHTTPSTATUS_DONE: once the
\* header was found, all that was received behind it was handed on, and a client
\* that ends the connection by itself has all of the content.
DeliveredInOrder ==
  /\ \A i, j \in DOMAIN delivered : i < j => delivered[i] < delivered[j]
  /\ Range(delivered) = {n \in Offsets : n <= Reach /\ Stream(response)[n].content}
  /\ status = "done" =>
       /\ bHeaderParsed /\ ~chunked => delivered = Copy(iHeaderSize, received)
       /\ ~closed => Len(delivered) >= Len(Entity(response))

\* Thread.h:54 has stopAndWait() wait until the execution loop has exited:
\* connection->stopAndWait() (HttpClient.cpp:605) comes back.
StopAndWaitReturns == client = "length wait" ~> client # "length wait"

=============================================================================
