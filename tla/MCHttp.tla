------------------------------- MODULE MCHttp -------------------------------
(***************************************************************************)
(* Responses of every kind for HttpDownloader: with chunks whose content   *)
(* looks like a line end, with no content, and with tokens behind the end. *)
(***************************************************************************)
EXTENDS HttpDownloader

Response(mode, chunks, extra) == [mode |-> mode, chunks |-> chunks, extra |-> extra]

MCResponses ==
  { Response("length", <<<<"text", "text">>>>, 0),
    Response("length", <<>>, 0),
    Response("close", <<<<"text", "crlf">>>>, 0),
    Response("chunked", <<<<"text", "crlf">>, <<"text">>>>, 0),
    Response("chunked", <<<<"crlf">>>>, 1) }

\* A server that sends more than the Content-Length it announced.
MCTooMuch == { Response("length", <<<<"text">>>>, 1) }

=============================================================================
