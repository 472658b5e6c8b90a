------------------------------ MODULE Sockets ------------------------------
(***************************************************************************)
(* Jumpropes over TCP: a client whose ThreadedSender sends messages with   *)
(* BaseSocket::send(), and a server whose ThreadedServer accepts sockets   *)
(* and whose ThreadedConnections receive from them (Jumpropes/*.cpp).      *)
(*                                                                         *)
(* TCP is external: a connection keeps what was written and not yet read,  *)
(* in order and up to Room; it may die, and what was written to an end     *)
(* that is closed is lost until the reset comes back.  A message is a      *)
(* sequence of units <<m, k>>.  Sockets are numbered as they connect; -1   *)
(* is no socket and 0 one that is not connected (yet).  The buffer of      *)
(* ThreadedSender is the queue of ThreadedBuffer.                          *)
(***************************************************************************)
EXTENDS Integers, SequencesExt

CONSTANTS
  Messages, Length,     \* the messages and their lengths
  autosplit_size,       \* 1024 in the code
  ReceiveSize,          \* what one recv() takes at most, 1023
  Room,                 \* what TCP keeps of a connection
  MaxConnections,       \* bound: how often the client connects
  NULL

ASSUME SocketsAssumption ==
  /\ NULL \notin [message : Messages, p : Nat, on : Int]
  /\ Length \in [Messages -> Nat \ {0}]
  /\ {autosplit_size, ReceiveSize, Room} \subseteq Nat \ {0}
  /\ MaxConnections \in Nat

Ids          == 1 .. MaxConnections
NoSocket     == -1
NotConnected == 0

VARIABLES
  iSocketId, bConnected,  \* the client's BaseSocket
  connecting,             \* the client is in ClientSocket::connect()
  tcp,                    \* the connections made, in order
  aBuffer,                \* the messages of the ThreadedSender that are not sent
  sending,                \* the send() in progress: [message, p, on], or NULL
  listening,              \* the ServerSocket: "no", "failed" or "on"
  reading,                \* the connections a ThreadedConnection runs for
  added, accepted,        \* history: messages added, and those send() said were sent
  begun, begunOn,         \* history: the messages of the first pieces, of all and of each
                          \* connection
  sent, received,         \* history: the units written to and read from each connection
  cut                     \* history: connections with a short write, or a message that
                          \* was begun on one socket and went on on another

clientVars == <<iSocketId, bConnected, connecting>>
senderVars == <<aBuffer, sending, added, accepted, begun, begunOn, sent, cut>>
serverVars == <<listening, reading, received>>
socketVars == <<clientVars, tcp, senderVars, serverVars>>

SocketsInit ==
  /\ iSocketId = NoSocket /\ bConnected = FALSE /\ connecting = FALSE
  /\ tcp = <<>>
  /\ aBuffer = <<>> /\ sending = NULL
  /\ listening = "no" /\ reading = {}
  /\ added = <<>> /\ accepted = <<>> /\ begun = <<>>
  /\ begunOn = [c \in Ids |-> <<>>]
  /\ sent = [c \in Ids |-> <<>>] /\ received = [c \in Ids |-> <<>>]
  /\ cut = {}

Units(m) == [k \in 1 .. Length[m] |-> <<m, k>>]

\* close() of the client's socket: what was written is still delivered.
Closed(id) ==
  IF id \in DOMAIN tcp THEN [tcp EXCEPT ![id].near = FALSE] ELSE tcp

-----------------------------------------------------------------------------
(* The client's socket                                                      *)

\* BaseSocket::connect(): the old socket is closed and the new one is called
\* connected before it is.
Connect ==
  /\ ~connecting /\ Len(tcp) < MaxConnections
  /\ iSocketId' = NotConnected /\ bConnected' = TRUE /\ connecting' = TRUE
  /\ tcp' = Closed(iSocketId)
  /\ UNCHANGED <<senderVars, serverVars>>

Connected ==
  /\ connecting /\ listening = "on"
  /\ tcp' = Append(tcp, [flight |-> <<>>, near |-> TRUE, far |-> TRUE, taken |-> FALSE, dead |-> FALSE])
  /\ iSocketId' = Len(tcp) + 1 /\ bConnected' = TRUE /\ connecting' = FALSE
  /\ UNCHANGED <<senderVars, serverVars>>

\* A socket that did not connect is kept.
ConnectFails ==
  /\ connecting
  /\ bConnected' = FALSE /\ connecting' = FALSE
  /\ UNCHANGED <<iSocketId, tcp, senderVars, serverVars>>

disconnect ==
  /\ ~connecting /\ iSocketId # NoSocket
  /\ iSocketId' = NoSocket /\ bConnected' = FALSE
  /\ tcp' = Closed(iSocketId)
  /\ UNCHANGED <<connecting, senderVars, serverVars>>

-----------------------------------------------------------------------------
(* ThreadedSender and BaseSocket::send()                                    *)

\* ThreadedSender::add(): a copy of the message.
Add(m) ==
  /\ m \notin Range(added)
  /\ aBuffer' = Append(aBuffer, m) /\ added' = Append(added, m)
  /\ UNCHANGED <<clientVars, tcp, sending, accepted, begun, begunOn, sent, cut, serverVars>>

\* processObject() with the oldest message.
SendCall ==
  /\ sending = NULL /\ aBuffer # <<>>
  /\ sending' = [message |-> Head(aBuffer), p |-> 0, on |-> NoSocket]
  /\ UNCHANGED <<clientVars, tcp, aBuffer, added, accepted, begun, begunOn, sent, cut, serverVars>>

\* select(): there is room, or an error to report.  Without a socket there never
\* is, and send() waits on.
isReadyToSend ==
  \/ iSocketId = NotConnected /\ ~connecting
  \/ iSocketId \in DOMAIN tcp /\ (tcp[iSocketId].dead \/ Len(tcp[iSocketId].flight) < Room)

Refused == iSocketId \in DOMAIN tcp => tcp[iSocketId].dead

\* The piece at p: pieces of autosplit_size, and what is left, perhaps nothing.
IsLast   == sending.p + autosplit_size > Length[sending.message]
PieceEnd == IF IsLast THEN Length[sending.message] ELSE sending.p + autosplit_size

\* isReadyToSend() and ::send() are one step: between them a reader only makes room
\* and a connection that breaks is one that breaks before.  ::send() takes what there
\* is room for; the code looks for -1 only and goes on behind the whole piece.
SendPiece ==
  /\ sending # NULL /\ isReadyToSend /\ ~Refused
  /\ LET m     == sending.message
         room  == Room - Len(tcp[iSocketId].flight)
         end   == Min({PieceEnd, sending.p + room})
         piece == SubSeq(Units(m), sending.p + 1, end)
     IN  /\ tcp' = [tcp EXCEPT ![iSocketId].flight = @ \o piece]
         /\ sent' = [sent EXCEPT ![iSocketId] = @ \o piece]
         /\ IF sending.p = 0
            THEN begun' = Append(begun, m) /\ begunOn' = [begunOn EXCEPT ![iSocketId] = Append(@, m)]
            ELSE UNCHANGED <<begun, begunOn>>
         /\ cut' = cut \union (IF end < PieceEnd THEN {iSocketId} ELSE {})
                       \union (IF sending.p > 0 /\ sending.on # iSocketId THEN {sending.on, iSocketId} ELSE {})
         /\ IF IsLast
            THEN sending' = NULL /\ aBuffer' = Tail(aBuffer) /\ accepted' = Append(accepted, m)
            ELSE /\ sending' = [sending EXCEPT !.p = PieceEnd, !.on = iSocketId]
                 /\ UNCHANGED <<aBuffer, accepted>>
  /\ UNCHANGED <<clientVars, added, serverVars>>

\* Mutant: the answer of ::send() is not looked at.
SendGivesUp ==
  /\ sending # NULL /\ isReadyToSend /\ Refused
  /\ sending' = NULL
  /\ aBuffer' = Tail(aBuffer) /\ accepted' = Append(accepted, sending.message)
  /\ UNCHANGED <<clientVars, tcp, added, begun, begunOn, sent, cut, serverVars>>

\* send() returns false: ThreadedBuffer keeps the message and calls again.
SendFails ==
  /\ sending # NULL /\ isReadyToSend /\ Refused
  /\ sending' = NULL
  /\ UNCHANGED <<clientVars, tcp, aBuffer, added, accepted, begun, begunOn, sent, cut, serverVars>>

-----------------------------------------------------------------------------
(* ThreadedServer, ThreadedConnection and BaseSocket::receive()             *)

\* ServerSocket::connect(): bind() or listen() may fail.
ListenOrFail == listening' \in {"on", "failed"}

\* startListening() starts the thread whether or not the socket could be bound.
startListening ==
  /\ listening # "on"
  /\ ListenOrFail
  /\ UNCHANGED <<clientVars, tcp, senderVars, reading, received>>

\* accept(): the first socket that waits.
waitForNewClient(c) == listening = "on" /\ ~tcp[c].taken /\ \A b \in 1 .. c - 1 : tcp[b].taken

\* execute(); newClientConnection(), which the application writes, makes a
\* ThreadedConnection of the new socket and starts it.
Accept ==
  /\ \E c \in DOMAIN tcp :
       /\ waitForNewClient(c)
       /\ tcp' = [tcp EXCEPT ![c].taken = TRUE]
       /\ reading' = reading \union {c}
  /\ UNCHANGED <<clientVars, senderVars, listening, received>>

\* What is there, up to the size of sMessage, goes to newMessageReceived().
Receive(c) ==
  /\ c \in reading /\ ~tcp[c].dead /\ tcp[c].flight # <<>>
  /\ LET n == Min({ReceiveSize, Len(tcp[c].flight)})
     IN  /\ tcp' = [tcp EXCEPT ![c].flight = SubSeq(@, n + 1, Len(@))]
         /\ received' = [received EXCEPT ![c] = @ \o SubSeq(tcp[c].flight, 1, n)]
  /\ UNCHANGED <<clientVars, senderVars, listening, reading>>

\* Mutant: nothing to read is taken for the end.
EndsWhenNothing(c) == c \in reading /\ (tcp[c].dead \/ tcp[c].flight = <<>>)

\* recv() answers with nothing at the end, and with an error.
Ends(c) == c \in reading /\ (tcp[c].dead \/ (tcp[c].flight = <<>> /\ ~tcp[c].near))

\* receive() returns false: the thread stops.
ReceiveEnds(c) ==
  /\ Ends(c)
  /\ reading' = reading \ {c}
  /\ UNCHANGED <<clientVars, tcp, senderVars, listening, received>>

\* ~ThreadedConnection() stops the thread and deletes the socket.
DeleteConnection(c) ==
  /\ tcp[c].taken /\ tcp[c].far
  /\ reading' = reading \ {c}
  /\ tcp' = [tcp EXCEPT ![c].far = FALSE]
  /\ UNCHANGED <<clientVars, senderVars, listening, received>>

\* The network: a connection dies, among other things because its far end is closed.
Reset(c) ==
  /\ ~tcp[c].dead
  /\ tcp' = [tcp EXCEPT ![c].dead = TRUE]
  /\ UNCHANGED <<clientVars, senderVars, serverVars>>

-----------------------------------------------------------------------------
SenderStep == SendCall \/ SendPiece \/ SendFails

SocketsNext ==
  \/ Connect \/ Connected \/ ConnectFails \/ disconnect
  \/ \E m \in Messages : Add(m)
  \/ SenderStep
  \/ startListening \/ Accept
  \/ \E c \in DOMAIN tcp : Receive(c) \/ ReceiveEnds(c) \/ DeleteConnection(c) \/ Reset(c)

SocketsSpec == SocketsInit /\ [][SocketsNext]_socketVars

\* The threads of the sender, of the server and of the connections run.
FairSocketsSpec ==
  /\ SocketsSpec
  /\ WF_socketVars(SenderStep)
  /\ WF_socketVars(Accept)
  /\ \A c \in Ids : WF_socketVars(c \in DOMAIN tcp /\ Receive(c))

-----------------------------------------------------------------------------
(* Properties.                                                              *)

Text(messages) == FlattenSeq([i \in DOMAIN messages |-> Units(messages[i])])

\* BaseSocket.h:50-51, "splits data to send in chunks and chain-sends these chunks",
\* and ThreadedBuffer's retries: send() says of the messages one after the other
\* that they are sent, each once.  A message is begun again only if it was not
\* accepted, and none is begun before the one in front was.  On every connection
\* that no write was short on and no message changed to or from the units are those
\* of whole messages, one behind the other, but for the last one, and all of a
\* message that is accepted; and what is read is what was written, in order.
StreamIsWhole ==
  /\ accepted \o aBuffer = added
  /\ \A i \in DOMAIN begun :
       i > 1 => \/ begun[i] = begun[i - 1]
                \/ \E k \in 2 .. Len(added) : begun[i] = added[k] /\ begun[i - 1] = added[k - 1]
  /\ \A c \in Ids : IsPrefix(received[c], sent[c])
  /\ \A c \in Ids \ cut : IsPrefix(sent[c], Text(begunOn[c]))
  /\ \A m \in Range(accepted) : \E c \in Ids :
       /\ m \in Range(begunOn[c])
       /\ c \notin cut => Range(Units(m)) \subseteq Range(sent[c])

Up(c) == c \in DOMAIN tcp /\ tcp[c].far /\ ~tcp[c].dead

\* While the server reads from a connection and nothing breaks it, a message in the
\* buffer is accepted as long as the client keeps its socket, and all that was
\* written is read, also when the client has disconnected in the meantime.
SentArrives ==
  /\ \A m \in Messages, c \in Ids :
       (m \in Range(aBuffer) /\ iSocketId = c) ~> (m \in Range(accepted) \/ iSocketId # c \/ ~Up(c))
  /\ \A c \in Ids : (Up(c) /\ listening = "on") ~> (received[c] = sent[c] \/ ~Up(c))
=============================================================================
