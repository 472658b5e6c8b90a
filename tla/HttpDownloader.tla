--------------------------- MODULE HttpDownloader ---------------------------
(***************************************************************************)
(* JumpropesCommon::HttpDownloader (Jumpropes/Common/HttpDownloader.cpp):  *)
(* an HttpClient whose content goes to a FileWriter.  The FileWriter is a  *)
(* ThreadedBuffer (module ThreadedBuffer): here it appears as the queue of *)
(* pieces it has not written yet and the flags of its thread.              *)
(***************************************************************************)
EXTENDS HttpClient

VARIABLES
  pieces,               \* fw.aBuffer: what onData() added, as offsets
  writing, fwStop,      \* the thread of fw and its stop request
  file,                 \* the content of the file
  waiting               \* where the user is in waitToFinish()

fileVars == <<pieces, writing, fwStop, file, waiting>>
dlVars   == <<httpVars, fileVars>>

DownloaderInit ==
  /\ HttpInit
  /\ pieces = <<>>
  /\ writing = FALSE /\ fwStop = FALSE
  /\ file = <<>>
  /\ waiting = "no"

\* download(): the file is emptied, then fw is started and get() is called.
openAndStart ==
  /\ waiting = "no"
  /\ file' = <<>>
  /\ writing' = TRUE /\ fwStop' = FALSE
  /\ UNCHANGED <<pieces, waiting>>

download ==
  /\ ConnectFails \/ \E r \in Responses : Connect(r)
  /\ openAndStart

\* onData(): fw.add() copies what onContent got in this step; empty content
\* leaves no trace in the file.
onData == pieces' = IF delivered' = delivered THEN pieces
                    ELSE Append(pieces, SubSeq(delivered', Len(delivered) + 1, Len(delivered')))

clientThread == Client /\ onData /\ UNCHANGED <<writing, fwStop, file, waiting>>

\* FileWriter::processObject(), and the pop() behind it.
WritePiece ==
  /\ writing /\ pieces # <<>>
  /\ file' = file \o Head(pieces)
  /\ pieces' = Tail(pieces)
  /\ UNCHANGED <<httpVars, writing, fwStop, waiting>>

WriterLeaves ==
  /\ writing /\ fwStop
  /\ writing' = FALSE
  /\ UNCHANGED <<httpVars, pieces, fwStop, file, waiting>>

\* waitToFinish(): until the client does not run and fw is empty.
WaitClient ==
  /\ user = "back" /\ waiting = "no"
  /\ ~running
  /\ waiting' = "fw"
  /\ UNCHANGED <<httpVars, pieces, writing, fwStop, file>>

\* Mutant: waitToFinish() does not wait for fw.isEmpty().
WaitEmptyNot ==
  /\ waiting = "fw"
  /\ waiting' = "stop"
  /\ fwStop' = TRUE
  /\ UNCHANGED <<httpVars, pieces, writing, file>>

WaitEmpty ==
  /\ waiting = "fw"
  /\ pieces = <<>>
  /\ waiting' = "stop"
  /\ fwStop' = TRUE
  /\ UNCHANGED <<httpVars, pieces, writing, file>>

\* fw.stopAndWait() is over: the user may go on to the next download.
WaitStopped ==
  /\ waiting = "stop"
  /\ ~writing
  /\ waiting' = "no" /\ user' = "idle"
  /\ UNCHANGED <<serverVars, received, bufferlock, connVars, clientVars, scanVars, requests,
                 delivered, status, pieces, writing, fwStop, file>>

waitToFinish == WaitClient \/ WaitEmpty \/ WaitStopped

DownloaderNext ==
  \/ download
  \/ get /\ UNCHANGED fileVars
  \/ \E n \in Offsets : Send(n) /\ UNCHANGED fileVars
  \/ Close /\ UNCHANGED fileVars
  \/ Connection /\ UNCHANGED fileVars
  \/ clientThread
  \/ WritePiece \/ WriterLeaves
  \/ waitToFinish

DownloaderSpec == DownloaderInit /\ [][DownloaderNext]_dlVars

\* The server sends what it announced, and closes the connection if that is
\* what ends the response.
ServerFairness ==
  /\ WF_dlVars(\E n \in Offsets : Send(n) /\ UNCHANGED fileVars)
  /\ WF_dlVars(response.mode = "close" /\ sent = Len(Stream(response))
               /\ Close /\ UNCHANGED fileVars)

\* Threads are scheduled fairly; the connection gets bufferlock some time, as
\* the client sleeps between two rounds without it.
ThreadFairness ==
  /\ SF_dlVars(Connection /\ UNCHANGED fileVars)
  /\ WF_dlVars(clientThread)
  /\ WF_dlVars(get /\ UNCHANGED fileVars)
  /\ WF_dlVars(WritePiece \/ WriterLeaves)
  /\ WF_dlVars(waitToFinish)

FairDownloaderSpec == DownloaderSpec /\ ServerFairness /\ ThreadFairness

(***************************************************************************)
(* Properties.                                                             *)
(***************************************************************************)
\* waitToFinish() (HttpDownloader.cpp:32-42) waits for the client, then until
\* fw is empty, then for the thread of fw: when it returns the file has
\* exactly what the client delivered, and nobody writes to it any more.
FileIsComplete ==
  [][WaitStopped => file = delivered /\ ~writing /\ ~running]_dlVars

\* A download comes to its end.
DownloadEnds == user = "connected" ~> user = "idle"

=============================================================================
