------------------------------ MODULE Squirrel ------------------------------
(***************************************************************************)
(* A query to a MySQL server: RemoteSQL (Groundfloor/Bookshelfs) with its  *)
(* named parameters, TMySQLSquirrel and TMySQLSquirrelConnection           *)
(* (MySQLBooks/MySQLSquirrel.cpp) over the C client.  open() prepares the  *)
(* query and tries to have it executed; each round of its loop is a step,  *)
(* between which the connection may be lost.                               *)
(*                                                                         *)
(* A query is a sequence of symbols, a parameter a colon and a name.  The  *)
(* client and the server are external: a connection is up, lost without    *)
(* the client knowing, or not there, and a query is executed, refused, or  *)
(* meets a lost connection before or after it was executed.                *)
(***************************************************************************)
EXTENDS Strings, StringLookup

CONSTANTS Queries,       \* the texts given to setQuery()
          Names,         \* the names of parameters
          Values,        \* the values each is given: records of a type and a text
          Attempts,      \* rounds of open()'s loop (10 in the code)
          MaxRows,       \* bound: the rows of a result
          MaxOpens,      \* bound: the queries that succeed
          MaxCursor      \* bound: calls of next()

ASSUME AttemptsAssumption == Attempts \in Nat \ {0}

ASSUME MaxRowsAssumption == MaxRows \in Nat

\* A pointer that is NULL is no answer, no result, no parameter and no value.
ASSUME NullAssumption ==
  /\ NULL \notin BOOLEAN
  /\ NULL \notin [id : Nat, count : Nat, at : Nat]
  /\ NULL \notin [name : Names, object : Nat]
  /\ NULL \notin Nat

\* What queries, names and values are written with.
Symbols == {":", "'", "\\", "0", "1"}
             \union UNION {Range(text) : text \in Queries \union Names}
             \union UNION {UNION {Range(value.text) : value \in Values[name]} : name \in Names}

ASSUME TextsAssumption ==
  /\ Queries \union Names \subseteq Seq(Symbols)
  /\ \A name \in Names : \A value \in Values[name] : value.text \in Seq(Symbols)

VARIABLES bConnected, link,                  \* the connection; link: "none", "up" or "lost"
          autoreconnect, sCurrentQuery, params, bvalues,
          pCurrentResult, aCurrentRow, iCurrentRecord, iRecordCount,
          call,                              \* open(): where it is, what it was given, its answer
          opened, onRow, tally               \* history: open() succeeded so often; next() answered
                                             \* true and is the last word; what this open() met

connectionVars == <<bConnected, link>>
queryVars      == <<autoreconnect, sCurrentQuery, params, bvalues>>
cursorVars     == <<pCurrentResult, aCurrentRow, iCurrentRecord, iRecordCount, opened, onRow>>
vars           == <<connectionVars, queryVars, cursorVars, call, tally>>

\* trouble: the server refused the query or could not be reached.
Nothing == [executed |-> 0, answersLost |-> 0, lost |-> 0, trouble |-> FALSE]

Init ==
  /\ bConnected = FALSE /\ link = "none"
  /\ autoreconnect = TRUE /\ sCurrentQuery = <<>>
  /\ params = resizeVector(EmptyVector(10), 10) /\ bvalues = <<>>
  /\ pCurrentResult = NULL /\ aCurrentRow = NULL
  /\ iCurrentRecord = 0 /\ iRecordCount = 0
  /\ opened = 0 /\ onRow = FALSE
  /\ call = [at |-> "idle", retry |-> FALSE, left |-> 0, errData |-> FALSE, answer |-> NULL]
  /\ tally = Nothing

Idle == call.at = "idle"

-----------------------------------------------------------------------------
(* The connection.                                                          *)

\* connect() answers with bConnected, which is never FALSE again.
connect(success) ==
  /\ link' = IF success THEN "up" ELSE "none"
  /\ bConnected' = (bConnected \/ success)

Connect == Idle /\ (\E success \in BOOLEAN : connect(success))
                /\ UNCHANGED <<queryVars, cursorVars, call, tally>>

Disconnect ==
  /\ Idle
  /\ link' = IF bConnected THEN "none" ELSE link
  /\ UNCHANGED <<bConnected, queryVars, cursorVars, call, tally>>

\* The server goes away, or the network does; the client learns of it at the next query.
LoseConnection ==
  /\ link = "up" /\ link' = "lost"
  /\ tally' = IF Idle THEN tally ELSE [tally EXCEPT !.lost = @ + 1]
  /\ UNCHANGED <<bConnected, queryVars, cursorVars, call>>

-----------------------------------------------------------------------------
(* The query and its parameters.                                            *)

Token(name) == <<":">> \o name

escape(text) == FlattenSeq([n \in 1 .. Len(text) |->
                              IF text[n] = "'" THEN <<"\\", "'">> ELSE <<text[n]>>])

Rendered(value) ==
  CASE value.type \in {"int", "int64", "double"} -> escape(value.text)
    [] value.type = "bool" -> IF value.text = <<"true">> THEN <<"1">> ELSE <<"0">>
    [] OTHER -> <<"'">> \o escape(value.text) \o <<"'">>

replaceInQuery(query, name, value) == replace(query, Token(name), Rendered(value))

prepareQuery(query) ==
  LET after[n \in 0 .. size(params)] ==
        LET entry == params.elems[n]
        IN  IF n = 0 THEN query
            ELSE replaceInQuery(after[n - 1], entry.name, bvalues[entry.object])
  IN  after[size(params)]

SetQuery(query) ==
  /\ Idle
  /\ sCurrentQuery' = query
  /\ UNCHANGED <<connectionVars, autoreconnect, params, bvalues, cursorVars, call, tally>>

\* findOrAddParam(name)->setString(..), ->setInteger(..), ...
SetParam(name, value) ==
  LET found == getObjectByString(params, name) IN
  /\ Idle
  /\ IF found # NULL
     THEN bvalues' = [bvalues EXCEPT ![found] = value] /\ UNCHANGED params
     ELSE /\ bvalues' = Append(bvalues, value)
          /\ params' = insertObjectSortedByLength(params, name, Len(bvalues) + 1, FALSE)
  /\ UNCHANGED <<connectionVars, autoreconnect, sCurrentQuery, cursorVars, call, tally>>

SetAutoreconnect ==
  /\ Idle
  /\ autoreconnect' = ~autoreconnect
  /\ UNCHANGED <<connectionVars, sCurrentQuery, params, bvalues, cursorVars, call, tally>>

-----------------------------------------------------------------------------
(* open(): at most Attempts rounds, and none unless autoreconnect is set.    *)

OpenCall(errData) ==
  /\ Idle
  /\ sCurrentQuery' = prepareQuery(sCurrentQuery)
  /\ call' = [at |-> "trying", retry |-> autoreconnect, left |-> Attempts,
              errData |-> errData, answer |-> NULL]
  /\ tally' = Nothing
  /\ UNCHANGED <<connectionVars, autoreconnect, params, bvalues, cursorVars>>

Trying == call.at = "trying" /\ call.retry /\ call.left > 0

Answer(answer) == call' = [call EXCEPT !.at = "idle", !.left = 0, !.answer = answer]

NextRound == call' = [call EXCEPT !.left = @ - 1]

\* Mutant: open() goes on after the query was executed.
StoreResultAndGoOn(rows) ==
  /\ pCurrentResult' = rows
  /\ iRecordCount' = IF rows = NULL THEN 0 ELSE rows.count
  /\ opened' = opened + 1 /\ onRow' = FALSE
  /\ NextRound
  /\ UNCHANGED <<aCurrentRow, iCurrentRecord>>

\* Mutant: the number of rows is that of the previous result.
StoreResultUncounted(rows) ==
  /\ pCurrentResult' = rows
  /\ opened' = opened + 1 /\ onRow' = FALSE
  /\ Answer(TRUE)
  /\ UNCHANGED <<aCurrentRow, iCurrentRecord, iRecordCount>>

\* Without a result (rows is NULL) the query was no question, or its rows could
\* not be stored; a result still held is overwritten.
StoreResult(rows) ==
  /\ pCurrentResult' = rows
  /\ iRecordCount' = IF rows = NULL THEN 0 ELSE rows.count
  /\ opened' = opened + 1 /\ onRow' = FALSE
  /\ Answer(TRUE)
  /\ UNCHANGED <<aCurrentRow, iCurrentRecord>>

OpenSucceeds ==
  /\ Trying /\ bConnected /\ link = "up" /\ opened < MaxOpens
  /\ \E rows \in {NULL} \union {[id |-> opened + 1, count |-> n, at |-> 0] : n \in 0 .. MaxRows} :
       StoreResult(rows)
  /\ tally' = [tally EXCEPT !.executed = @ + 1]
  /\ UNCHANGED <<connectionVars, queryVars>>

OpenIsRefused ==
  /\ Trying /\ bConnected /\ link = "up"
  /\ NextRound
  /\ tally' = [tally EXCEPT !.trouble = TRUE]
  /\ UNCHANGED <<connectionVars, queryVars, cursorVars>>

\* Mutant: the connection that is gone is closed and not made again.
DisconnectOnly == link' = "none" /\ UNCHANGED bConnected /\ tally' = tally

\* disconnect() and connect(), whose answer is not looked at.
Reconnect ==
  \E success \in BOOLEAN :
    /\ connect(success)
    /\ tally' = IF success THEN tally ELSE [tally EXCEPT !.trouble = TRUE]

\* Errors 2006 and 2013: only a caller that passed errData has the code looked at.
OpenMeetsLostConnection ==
  /\ Trying /\ bConnected /\ link # "up"
  /\ IF call.errData THEN Reconnect ELSE link' = "none" /\ UNCHANGED <<bConnected, tally>>
  /\ NextRound
  /\ UNCHANGED <<queryVars, cursorVars>>

\* The server executed the query, and the connection is lost before it could say
\* so; the round ends with OpenMeetsLostConnection.
AnswerIsLost ==
  /\ Trying /\ bConnected /\ link = "up"
  /\ link' = "lost"
  /\ tally' = [tally EXCEPT !.executed = @ + 1, !.answersLost = @ + 1, !.lost = @ + 1]
  /\ UNCHANGED <<bConnected, queryVars, cursorVars, call>>

\* On a connection that was never made, errData is used although it may be NULL.
OpenConnects ==
  /\ Trying /\ ~bConnected
  /\ \/ connect(TRUE) /\ NextRound /\ UNCHANGED tally
     \/ /\ connect(FALSE)
        /\ tally' = [tally EXCEPT !.trouble = TRUE]
        /\ IF call.errData THEN Answer(FALSE) ELSE call' = [call EXCEPT !.at = "crashed"]
  /\ UNCHANGED <<queryVars, cursorVars>>

OpenGivesUp ==
  /\ call.at = "trying" /\ (~call.retry \/ call.left = 0)
  /\ Answer(FALSE)
  /\ UNCHANGED <<connectionVars, queryVars, cursorVars, tally>>

-----------------------------------------------------------------------------
(* The rows of the result.                                                  *)

isOpen  == pCurrentResult # NULL
isFirst == iCurrentRecord = 1
isLast  == iCurrentRecord = iRecordCount

close ==
  /\ Idle /\ isOpen
  /\ pCurrentResult' = NULL /\ onRow' = FALSE
  /\ UNCHANGED <<connectionVars, queryVars, aCurrentRow, iCurrentRecord, iRecordCount,
                 opened, call, tally>>

RowAt(result, n) == IF n <= result.count THEN [id |-> result.id, row |-> n] ELSE NULL

next ==
  /\ Idle /\ isOpen /\ iCurrentRecord < MaxCursor
  /\ iCurrentRecord' = iCurrentRecord + 1
  /\ aCurrentRow' = RowAt(pCurrentResult, pCurrentResult.at + 1)
  /\ pCurrentResult' = [pCurrentResult EXCEPT !.at = Min({@ + 1, pCurrentResult.count})]
  /\ onRow' = (aCurrentRow' # NULL)
  /\ UNCHANGED <<connectionVars, queryVars, iRecordCount, opened, call, tally>>

-----------------------------------------------------------------------------
Next ==
  \/ Connect \/ Disconnect \/ LoseConnection
  \/ \E query \in Queries : SetQuery(query)
  \/ \E name \in Names : \E value \in Values[name] : SetParam(name, value)
  \/ SetAutoreconnect
  \/ \E errData \in BOOLEAN : OpenCall(errData)
  \/ OpenSucceeds \/ OpenIsRefused \/ AnswerIsLost \/ OpenMeetsLostConnection
  \/ OpenConnects \/ OpenGivesUp
  \/ close \/ next

Spec == Init /\ [][Next]_vars

-----------------------------------------------------------------------------
(* Properties.                                                              *)

\* What a query stands for: from the front, every colon followed by the name of
\* a parameter is its value; of several names, the longest.
WithValues(query) ==
  LET from[i \in 0 .. Len(query)] ==
        LET hits == {n \in 1 .. size(params) : OccursAt(query, Token(params.elems[n].name), i)}
            hit  == params.elems[CHOOSE n \in hits :
                      \A other \in hits : Len(params.elems[other].name) <= Len(params.elems[n].name)]
        IN  IF i = Len(query) THEN <<>>
            ELSE IF hits = {} THEN <<CharAt(query, i)>> \o from[i + 1]
            ELSE Rendered(bvalues[hit.object]) \o from[i + Len(Token(hit.name))]
  IN  from[0]

\* Somewhere in the value there is what the token begins with, or all of it.
BeginsWithin(token, value) ==
  \E i \in 0 .. Len(value) - 1 :
    \A k \in 1 .. Len(token) : i + k <= Len(value) => value[i + k] = token[k]

\* The value begins with what a part of the token leaves to follow, or with some of it.
EndsWithin(token, value) ==
  \E k \in 1 .. Len(token) - 1 :
    \A i \in 1 .. Len(value) : k + i <= Len(token) => value[i] = token[k + i]

\* The value does not make a token, nor end one that the query has begun.
StandsApart(value, name) ==
  ~BeginsWithin(Token(name), value) /\ ~EndsWithin(Token(name), value)

\* The parameters are put in one after the other: a value that is put in must not
\* be taken for one that follows, nor may a name hold the colon.
ValuesStandApart ==
  \A n \in 1 .. size(params) :
    LET entry == params.elems[n] IN
    /\ ":" \notin Range(entry.name)
    /\ \A later \in n + 1 .. size(params) :
         StandsApart(Rendered(bvalues[entry.object]), params.elems[later].name)

\* RemoteSquirrel.h:44-45: parameters are replaced by their values, in whatever
\* order they were first named, and one whose name starts with that of another
\* is not taken for the other (the sorted insert, RemoteSquirrel.cpp:29-30).
ParametersTakeTheirValues ==
  [][\A errData \in BOOLEAN :
       OpenCall(errData) /\ ValuesStandApart => sCurrentQuery' = WithValues(sCurrentQuery)]_vars

\* A query is sent again only after it failed: it is executed once in an open()
\* that answers true and not at all in one that answers false, but for the times
\* the server executed it and the connection broke before it could say so.
ExecutedOnceUnlessAnswerLost ==
  Idle => tally.executed = tally.answersLost + (IF call.answer = TRUE THEN 1 ELSE 0)

\* MySQLSquirrel.cpp:256-264: a connection that was lost is made again. open()
\* with errData and autoreconnect fails only if the server refused the query or
\* could not be reached, or the connection was lost in all rounds but one.
GivesUpOnlyInTrouble ==
  (Idle /\ call.answer = FALSE /\ call.retry /\ call.errData) =>
    tally.trouble \/ tally.lost >= Attempts - 1

\* AbstractSquirrel.h:73-79: after next() answered true the rows come one by one
\* and from the result of the last open() that succeeded, and isFirst() and
\* isLast() tell where the row is -- for the first result of a squirrel: the
\* position is never set back.
CursorIsOnTheRow ==
  onRow =>
    /\ isOpen /\ aCurrentRow = [id |-> opened, row |-> pCurrentResult.at]
    /\ opened = 1 => /\ isFirst <=> pCurrentResult.at = 1
                     /\ isLast <=> pCurrentResult.at = pCurrentResult.count
=============================================================================
