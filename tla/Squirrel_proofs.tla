-------------------------- MODULE Squirrel_proofs --------------------------
(***************************************************************************)
(* Theorems about Squirrel, for any queries, parameters and values, any    *)
(* number of rounds, rows, opens and calls of next().                      *)
(*                                                                         *)
(* The argument has three parts.                                           *)
(*                                                                         *)
(* What an open() meets: a query is executed in a round that answers true  *)
(* or loses its answer, so the tally is right after every step; and a      *)
(* round that ended without trouble made a connection, so before it one    *)
(* was lost -- in this open(), but for at most one that was not there when *)
(* it began.                                                               *)
(*                                                                         *)
(* What next() leaves: the client's place in a result (at) follows         *)
(* iCurrentRecord up to the last row, as long as the result is the first.  *)
(*                                                                         *)
(* What open() prepares: the list of parameters holds the longest names    *)
(* first and none twice, because insertObjectSortedByLength() puts a new   *)
(* one behind the longer ones and findOrAddParam() asks for a name before  *)
(* it adds it.  Reading a query from the front, with the values of the     *)
(* first k parameters in the places of their names, is a walk; replacing   *)
(* one parameter more in what each place of the walk has left is the walk  *)
(* with k + 1 (OneMore).  So the replacements, one after the other, are    *)
(* the walk with all of them, which is what a query stands for             *)
(* (PreparedIsWithValues).                                                 *)
(***************************************************************************)
EXTENDS Squirrel, SequenceLemmas, TLAPS

(***************************************************************************)
(* The inductive invariant                                                  *)
(***************************************************************************)

Results == [id : Nat, count : Nat, at : Nat]

TypeInv ==
  /\ {bConnected, autoreconnect, onRow} \subseteq BOOLEAN
  /\ link \in {"none", "up", "lost"}
  /\ call \in [at : {"idle", "trying", "crashed"}, retry : BOOLEAN, left : 0 .. Attempts,
               errData : BOOLEAN, answer : BOOLEAN \union {NULL}]
  /\ tally \in [executed : Nat, answersLost : Nat, lost : Nat, trouble : BOOLEAN]
  /\ pCurrentResult \in Results \union {NULL}
  /\ iCurrentRecord \in Nat /\ opened \in Nat

\* There is a connection only where bConnected says so, and no answer before
\* open() returns.
CallInv ==
  /\ ~bConnected => link = "none"
  /\ ~Idle => call.answer = NULL

TallyInv == tally.executed = tally.answersLost + (IF call.answer = TRUE THEN 1 ELSE 0)

\* The rounds of an open() without trouble so far, and the one that is due if the
\* connection is not there, are no more than the connections it lost and the one
\* it may have found lost.
RoundsInv ==
  (call.at = "trying" /\ call.retry /\ call.errData /\ ~tally.trouble) =>
    (Attempts - call.left) + (IF link = "up" THEN 0 ELSE 1) <= tally.lost + 1

\* A result is that of the last open(); before the first there is none, and the
\* cursor has not moved.
ResultInv ==
  /\ opened = 0 => pCurrentResult = NULL /\ iCurrentRecord = 0
  /\ pCurrentResult # NULL =>
       /\ pCurrentResult.id = opened
       /\ pCurrentResult.count = iRecordCount
       /\ opened = 1 =>
            pCurrentResult.at = IF iCurrentRecord <= iRecordCount THEN iCurrentRecord ELSE iRecordCount

RowInv ==
  onRow => /\ pCurrentResult # NULL
           /\ aCurrentRow = [id |-> opened, row |-> pCurrentResult.at]
           /\ opened = 1 => iCurrentRecord = pCurrentResult.at

SquirrelInv == TypeInv /\ CallInv /\ TallyInv /\ RoundsInv /\ GivesUpOnlyInTrouble
                 /\ ResultInv /\ RowInv

\* An answer is not the value that stands for none.
LEMMA NullIsNoAnswer == NULL # TRUE /\ NULL # FALSE
BY NullAssumption

\* The fields of what open() is in the middle of, and of what it met.
LEMMA CallFields ==
  ASSUME TypeInv
  PROVE  /\ call.left \in Int /\ call.left <= Attempts
         /\ tally.executed \in Nat /\ tally.answersLost \in Nat /\ tally.lost \in Nat
         /\ Attempts \in Nat
BY AttemptsAssumption DEF TypeInv

\* The fields of the call once open() has answered,
LEMMA AnswerFields ==
  ASSUME TypeInv, NEW answer \in BOOLEAN, Answer(answer)
  PROVE  /\ call' \in [at : {"idle"}, retry : BOOLEAN, left : 0 .. Attempts, errData : BOOLEAN,
                       answer : BOOLEAN]
         /\ call'.at = "idle" /\ call'.answer = answer
         /\ call'.retry = call.retry /\ call'.errData = call.errData
<1>1. 0 \in 0 .. Attempts
  BY AttemptsAssumption
<1>2. /\ call'.at = "idle" /\ call'.left = 0 /\ call'.answer = answer
      /\ call'.retry = call.retry /\ call'.errData = call.errData
  BY DEF TypeInv, Answer
<1> QED BY <1>1, <1>2 DEF TypeInv, Answer

\* and where it goes on with the next round.
LEMMA NextRoundFields ==
  ASSUME TypeInv, call.at = "trying", call.left > 0, NextRound
  PROVE  /\ call' \in [at : {"trying"}, retry : BOOLEAN, left : 0 .. Attempts, errData : BOOLEAN,
                       answer : BOOLEAN \union {NULL}]
         /\ call'.at = "trying" /\ call'.left = call.left - 1 /\ call'.answer = call.answer
         /\ call'.retry = call.retry /\ call'.errData = call.errData
<1>1. call.left \in 1 .. Attempts /\ call.left - 1 \in 0 .. Attempts
  BY AttemptsAssumption DEF TypeInv
<1> QED BY <1>1 DEF TypeInv, NextRound

\* What is in trouble, and what met a lost connection.
LEMMA TallyFields ==
  ASSUME TypeInv
  PROVE  /\ LET t == [tally EXCEPT !.trouble = TRUE] IN
              /\ t \in [executed : Nat, answersLost : Nat, lost : Nat, trouble : BOOLEAN]
              /\ t.trouble /\ t.executed = tally.executed /\ t.answersLost = tally.answersLost
         /\ LET t == [tally EXCEPT !.lost = @ + 1] IN
              /\ t \in [executed : Nat, answersLost : Nat, lost : Nat, trouble : BOOLEAN]
              /\ t.lost = tally.lost + 1 /\ t.trouble = tally.trouble
              /\ t.executed = tally.executed /\ t.answersLost = tally.answersLost
         /\ LET t == [tally EXCEPT !.executed = @ + 1] IN
              /\ t \in [executed : Nat, answersLost : Nat, lost : Nat, trouble : BOOLEAN]
              /\ t.lost = tally.lost /\ t.trouble = tally.trouble
              /\ t.executed = tally.executed + 1 /\ t.answersLost = tally.answersLost
         /\ LET t == [tally EXCEPT !.executed = @ + 1, !.answersLost = @ + 1, !.lost = @ + 1] IN
              /\ t \in [executed : Nat, answersLost : Nat, lost : Nat, trouble : BOOLEAN]
              /\ t.lost = tally.lost + 1 /\ t.trouble = tally.trouble
              /\ t.executed = tally.executed + 1 /\ t.answersLost = tally.answersLost + 1
<1>1. tally.executed + 1 \in Nat /\ tally.answersLost + 1 \in Nat /\ tally.lost + 1 \in Nat
  BY DEF TypeInv
<1> QED BY <1>1 DEF TypeInv

\* The invariant holds at the start.
LEMMA InitInv == Init => SquirrelInv
<1> SUFFICES ASSUME Init PROVE SquirrelInv
  OBVIOUS
<1>1. /\ call.at = "idle" /\ call.answer # TRUE /\ call.answer # FALSE
      /\ tally.executed = 0 /\ tally.answersLost = 0
  BY NullIsNoAnswer DEF Init, Nothing
<1>2. TypeInv
  <2>1. 0 \in 0 .. Attempts
    BY AttemptsAssumption
  <2>2. /\ call \in [at : {"idle", "trying", "crashed"}, retry : BOOLEAN, left : 0 .. Attempts,
                    errData : BOOLEAN, answer : BOOLEAN \union {NULL}]
        /\ tally \in [executed : Nat, answersLost : Nat, lost : Nat, trouble : BOOLEAN]
    BY <2>1 DEF Init, Nothing
  <2> QED BY <2>2 DEF Init, TypeInv
<1>3. CallInv /\ RoundsInv /\ GivesUpOnlyInTrouble
  BY <1>1 DEF Init, CallInv, RoundsInv, GivesUpOnlyInTrouble, Idle
<1>4. TallyInv
  <2>1. (IF call.answer = TRUE THEN 1 ELSE 0) = 0
    BY <1>1
  <2> QED BY <1>1, <2>1 DEF TallyInv
<1>5. ResultInv /\ RowInv
  BY DEF Init, ResultInv, RowInv
<1> QED BY <1>2, <1>3, <1>4, <1>5 DEF SquirrelInv

(***************************************************************************)
(* Steps outside open()                                                     *)
(***************************************************************************)

\* What belongs to open() stays as it is, and so does the cursor.
LEMMA OutsideOpen ==
  ASSUME SquirrelInv, Idle, UNCHANGED <<cursorVars, call, tally>>,
         autoreconnect' \in BOOLEAN, bConnected' \in BOOLEAN,
         link' \in {"none", "up", "lost"}, ~bConnected' => link' = "none"
  PROVE  SquirrelInv'
BY DEF SquirrelInv, TypeInv, CallInv, TallyInv, RoundsInv, GivesUpOnlyInTrouble, ResultInv,
       RowInv, Idle, cursorVars

\* It is kept by the calls that set up a query,
LEMMA SettingUpInv ==
  ASSUME SquirrelInv,
         \/ Connect \/ Disconnect \/ SetAutoreconnect
         \/ \E query \in Queries : SetQuery(query)
         \/ \E name \in Names : \E value \in Values[name] : SetParam(name, value)
  PROVE  SquirrelInv'
<1>1. CASE Connect
  BY <1>1, OutsideOpen DEF Connect, connect, queryVars, SquirrelInv, TypeInv, CallInv
<1>2. CASE Disconnect
  BY <1>2, OutsideOpen DEF Disconnect, queryVars, SquirrelInv, TypeInv, CallInv
<1>3. CASE SetAutoreconnect
  BY <1>3, OutsideOpen DEF SetAutoreconnect, connectionVars, SquirrelInv, TypeInv, CallInv
<1>4. CASE \E query \in Queries : SetQuery(query)
  BY <1>4, OutsideOpen DEF SetQuery, connectionVars, SquirrelInv, TypeInv, CallInv
<1>5. CASE \E name \in Names : \E value \in Values[name] : SetParam(name, value)
  BY <1>5, OutsideOpen DEF SetParam, connectionVars, SquirrelInv, TypeInv, CallInv
<1> QED BY <1>1, <1>2, <1>3, <1>4, <1>5

\* by a connection that is lost,
LEMMA LoseConnectionInv ==
  ASSUME SquirrelInv, LoseConnection
  PROVE  SquirrelInv'
<1>1. CASE Idle
  <2>1. CallInv /\ bConnected
    BY DEF LoseConnection, SquirrelInv, CallInv
  <2> QED BY <1>1, <2>1, OutsideOpen DEF LoseConnection, queryVars, SquirrelInv, TypeInv
<1>2. CASE ~Idle
  <2>1. /\ tally'.lost = tally.lost + 1 /\ tally'.trouble = tally.trouble
        /\ tally'.executed = tally.executed /\ tally'.answersLost = tally.answersLost
    BY <1>2, TallyFields DEF LoseConnection, SquirrelInv
  <2>2. TypeInv'
    BY <1>2, TallyFields DEF LoseConnection, SquirrelInv, TypeInv, queryVars, cursorVars
  <2>3. CallInv' /\ TallyInv' /\ ResultInv' /\ RowInv'
    BY <2>1 DEF LoseConnection, SquirrelInv, CallInv, TallyInv, ResultInv, RowInv, Idle, cursorVars
  <2>4. RoundsInv' /\ GivesUpOnlyInTrouble'
    BY <1>2, <2>1, CallFields DEF LoseConnection, SquirrelInv, RoundsInv, GivesUpOnlyInTrouble, Idle
  <2> QED BY <2>2, <2>3, <2>4 DEF SquirrelInv
<1> QED BY <1>1, <1>2

(***************************************************************************)
(* The rounds of open()                                                     *)
(***************************************************************************)

\* The rows are looked at only between two calls.
LEMMA CursorStays ==
  ASSUME SquirrelInv, UNCHANGED cursorVars
  PROVE  ResultInv' /\ RowInv'
BY DEF SquirrelInv, ResultInv, RowInv, cursorVars

\* by the call of open(),
LEMMA OpenCallInv ==
  ASSUME SquirrelInv, NEW errData \in BOOLEAN, OpenCall(errData)
  PROVE  SquirrelInv'
<1>1. /\ call'.at = "trying" /\ call'.left = Attempts /\ call'.answer = NULL
      /\ call'.answer # TRUE /\ call'.answer # FALSE
      /\ tally'.executed = 0 /\ tally'.answersLost = 0 /\ tally'.lost = 0
  BY NullIsNoAnswer DEF OpenCall, Nothing
<1>2. TypeInv'
  BY AttemptsAssumption DEF OpenCall, Nothing, SquirrelInv, TypeInv, connectionVars, cursorVars
<1>3. CallInv' /\ GivesUpOnlyInTrouble'
  BY <1>1 DEF OpenCall, SquirrelInv, CallInv, GivesUpOnlyInTrouble, Idle, connectionVars
<1>4. TallyInv'
  <2>1. (IF call'.answer = TRUE THEN 1 ELSE 0) = 0
    BY <1>1
  <2> QED BY <1>1, <2>1 DEF TallyInv
<1>5. RoundsInv'
  BY <1>1, AttemptsAssumption DEF RoundsInv
<1> QED BY <1>2, <1>3, <1>4, <1>5, CursorStays DEF OpenCall, SquirrelInv

\* by a round whose query is executed,
LEMMA OpenSucceedsInv ==
  ASSUME SquirrelInv, OpenSucceeds
  PROVE  SquirrelInv'
<1> PICK rows \in {NULL} \union {[id |-> opened + 1, count |-> n, at |-> 0] : n \in 0 .. MaxRows} :
      StoreResult(rows)
  BY DEF OpenSucceeds
<1>1. /\ rows = NULL \/ (rows \in Results /\ rows.id = opened + 1 /\ rows.at = 0)
      /\ opened \in Nat /\ opened + 1 \in Nat /\ opened + 1 # 0
  BY MaxRowsAssumption DEF Results, SquirrelInv, TypeInv
<1>2. /\ call.at = "trying" /\ call.answer = NULL /\ call.answer # TRUE
  BY NullIsNoAnswer DEF OpenSucceeds, Trying, SquirrelInv, CallInv, Idle
<1>3. Answer(TRUE) /\ TypeInv /\ tally' = [tally EXCEPT !.executed = @ + 1]
  BY DEF StoreResult, SquirrelInv, OpenSucceeds
<1>4. /\ call'.at = "idle" /\ call'.answer = TRUE
      /\ tally'.executed = tally.executed + 1 /\ tally'.answersLost = tally.answersLost
  BY <1>3, AnswerFields, TallyFields
<1>5. TypeInv'
  <2>1. call' \in [at : {"idle", "trying", "crashed"}, retry : BOOLEAN, left : 0 .. Attempts,
                   errData : BOOLEAN, answer : BOOLEAN \union {NULL}]
    BY <1>3, AnswerFields
  <2>2. tally' \in [executed : Nat, answersLost : Nat, lost : Nat, trouble : BOOLEAN]
    BY <1>3, TallyFields
  <2>3. /\ UNCHANGED <<bConnected, autoreconnect, link, iCurrentRecord>>
        /\ pCurrentResult' = rows /\ opened' = opened + 1 /\ onRow' = FALSE
    BY DEF OpenSucceeds, StoreResult, connectionVars, queryVars
  <2> QED BY <1>1, <1>3, <2>1, <2>2, <2>3 DEF TypeInv
<1>6. CallInv' /\ RoundsInv' /\ GivesUpOnlyInTrouble'
  BY <1>4 DEF OpenSucceeds, SquirrelInv, CallInv, RoundsInv, GivesUpOnlyInTrouble, Idle, connectionVars
<1>7. TallyInv'
  <2>1. (IF call.answer = TRUE THEN 1 ELSE 0) = 0 /\ (IF call'.answer = TRUE THEN 1 ELSE 0) = 1
    BY <1>2, <1>4
  <2> QED BY <1>3, <1>4, <2>1, CallFields DEF SquirrelInv, TallyInv
<1>8. ResultInv' /\ RowInv'
  <2>1. opened = 0 => iCurrentRecord = 0
    BY DEF SquirrelInv, ResultInv
  <2>2. rows # NULL => rows.count \in Nat /\ iRecordCount' = rows.count
    BY <1>1 DEF StoreResult, Results
  <2> QED
    BY <1>1, <2>1, <2>2 DEF StoreResult, SquirrelInv, TypeInv, ResultInv, RowInv
<1> QED BY <1>5, <1>6, <1>7, <1>8 DEF SquirrelInv

\* A round that ends in trouble, or does not end yet.
LEMMA OpenIsRefusedInv ==
  ASSUME SquirrelInv, OpenIsRefused
  PROVE  SquirrelInv'
<1>1. /\ TypeInv /\ call.at = "trying" /\ call.left > 0 /\ NextRound
      /\ tally' = [tally EXCEPT !.trouble = TRUE]
  BY DEF OpenIsRefused, Trying, SquirrelInv
<1>2. /\ call'.at = "trying" /\ call'.answer = call.answer
      /\ tally'.trouble /\ tally'.executed = tally.executed /\ tally'.answersLost = tally.answersLost
  BY <1>1, NextRoundFields, TallyFields
<1>3. TypeInv'
  BY <1>1, NextRoundFields, TallyFields
  DEF OpenIsRefused, TypeInv, connectionVars, queryVars, cursorVars
<1>4. CallInv' /\ TallyInv' /\ RoundsInv' /\ GivesUpOnlyInTrouble'
  BY <1>1, <1>2 DEF OpenIsRefused, SquirrelInv, CallInv, TallyInv, RoundsInv, GivesUpOnlyInTrouble,
                    Idle, connectionVars
<1> QED BY <1>3, <1>4, CursorStays DEF OpenIsRefused, SquirrelInv

\* by one that is executed without the answer coming through,
LEMMA AnswerIsLostInv ==
  ASSUME SquirrelInv, AnswerIsLost
  PROVE  SquirrelInv'
<1>1. /\ TypeInv /\ call.at = "trying" /\ link = "up" /\ link' = "lost" /\ call' = call
      /\ tally' = [tally EXCEPT !.executed = @ + 1, !.answersLost = @ + 1, !.lost = @ + 1]
  BY DEF AnswerIsLost, Trying, SquirrelInv
<1>2. /\ tally'.executed = tally.executed + 1 /\ tally'.answersLost = tally.answersLost + 1
      /\ tally'.lost = tally.lost + 1 /\ tally'.trouble = tally.trouble
  BY <1>1, TallyFields
<1>3. TypeInv'
  BY <1>1, TallyFields DEF AnswerIsLost, TypeInv, queryVars, cursorVars
<1>4. CallInv' /\ TallyInv' /\ RoundsInv' /\ GivesUpOnlyInTrouble'
  BY <1>1, <1>2, CallFields
  DEF AnswerIsLost, SquirrelInv, CallInv, TallyInv, RoundsInv, GivesUpOnlyInTrouble, Idle
<1> QED BY <1>3, <1>4, CursorStays DEF AnswerIsLost, SquirrelInv

\* A connection that was made again has used up the round that was due.
LEMMA OpenMeetsLostConnectionInv ==
  ASSUME SquirrelInv, OpenMeetsLostConnection
  PROVE  SquirrelInv'
<1>1. /\ TypeInv /\ call.at = "trying" /\ call.left > 0 /\ NextRound
      /\ bConnected /\ link # "up" /\ UNCHANGED <<queryVars, cursorVars>>
  BY DEF OpenMeetsLostConnection, Trying, SquirrelInv
<1>2. /\ call'.at = "trying" /\ call'.left = call.left - 1 /\ call'.answer = call.answer
      /\ call'.retry = call.retry /\ call'.errData = call.errData
  BY <1>1, NextRoundFields
<1>3. /\ bConnected' /\ link' \in {"none", "up", "lost"}
      /\ \/ call.errData /\ link' = "up" /\ tally' = tally
         \/ call.errData /\ link' = "none" /\ tally' = [tally EXCEPT !.trouble = TRUE]
         \/ ~call.errData /\ tally' = tally
  BY <1>1 DEF OpenMeetsLostConnection, Reconnect, connect
<1>4. /\ tally' \in [executed : Nat, answersLost : Nat, lost : Nat, trouble : BOOLEAN]
      /\ tally'.executed = tally.executed /\ tally'.answersLost = tally.answersLost
      /\ call.errData => tally'.trouble \/ (link' = "up" /\ tally' = tally)
  BY <1>1, <1>3, TallyFields DEF TypeInv
<1>5. bConnected' \in BOOLEAN
  BY <1>1 DEF OpenMeetsLostConnection, Reconnect, connect, TypeInv
<1>6. TypeInv'
  BY <1>1, <1>3, <1>4, <1>5, NextRoundFields DEF TypeInv, queryVars, cursorVars
<1>7. CallInv' /\ TallyInv'
  BY <1>1, <1>2, <1>3, <1>4 DEF SquirrelInv, CallInv, TallyInv, Idle
<1>8. RoundsInv' /\ GivesUpOnlyInTrouble'
  BY <1>1, <1>2, <1>4, CallFields DEF SquirrelInv, RoundsInv, GivesUpOnlyInTrouble, Idle
<1> QED BY <1>1, <1>6, <1>7, <1>8, CursorStays DEF SquirrelInv

\* by a round without a connection,
LEMMA OpenConnectsInv ==
  ASSUME SquirrelInv, OpenConnects
  PROVE  SquirrelInv'
<1>1. /\ TypeInv /\ call.at = "trying" /\ call.left > 0 /\ call.answer = NULL
      /\ ~bConnected /\ link # "up" /\ UNCHANGED <<queryVars, cursorVars>>
  BY DEF OpenConnects, Trying, SquirrelInv, CallInv, Idle
<1>2. ResultInv' /\ RowInv'
  BY <1>1, CursorStays
<1>3. CASE connect(TRUE) /\ NextRound /\ UNCHANGED tally
  <2>1. /\ call'.at = "trying" /\ call'.left = call.left - 1 /\ call'.answer = call.answer
        /\ call'.retry = call.retry /\ call'.errData = call.errData
        /\ link' = "up" /\ bConnected'
    BY <1>1, <1>3, NextRoundFields DEF connect
  <2>2. TypeInv'
    BY <1>1, <1>3, NextRoundFields DEF connect, TypeInv, queryVars, cursorVars
  <2>3. CallInv' /\ TallyInv'
    BY <1>1, <1>3, <2>1 DEF SquirrelInv, CallInv, TallyInv, Idle
  <2>4. RoundsInv' /\ GivesUpOnlyInTrouble'
    BY <1>1, <1>3, <2>1, CallFields DEF SquirrelInv, RoundsInv, GivesUpOnlyInTrouble, Idle
  <2> QED BY <1>2, <2>2, <2>3, <2>4 DEF SquirrelInv
<1>4. CASE /\ connect(FALSE)
           /\ tally' = [tally EXCEPT !.trouble = TRUE]
           /\ IF call.errData THEN Answer(FALSE) ELSE call' = [call EXCEPT !.at = "crashed"]
  <2>1. /\ call' \in [at : {"idle", "crashed"}, retry : BOOLEAN, left : 0 .. Attempts,
                      errData : BOOLEAN, answer : BOOLEAN \union {NULL}]
        /\ call'.answer # TRUE /\ (call'.at # "idle" => call'.answer = NULL)
        /\ call'.at # "trying"
    <3>1. CASE call.errData
      BY <1>1, <1>4, <3>1, AnswerFields
    <3>2. CASE ~call.errData
      BY <1>1, <1>4, <3>2, NullIsNoAnswer DEF TypeInv
    <3> QED BY <3>1, <3>2
  <2>2. /\ tally' \in [executed : Nat, answersLost : Nat, lost : Nat, trouble : BOOLEAN]
        /\ tally'.trouble /\ tally'.executed = tally.executed /\ tally'.answersLost = tally.answersLost
    BY <1>1, <1>4, TallyFields
  <2>3. TypeInv'
    BY <1>1, <1>4, <2>1, <2>2 DEF connect, TypeInv, queryVars, cursorVars
  <2>4. CallInv' /\ TallyInv' /\ RoundsInv' /\ GivesUpOnlyInTrouble'
    BY <1>1, <1>4, <2>1, <2>2, NullIsNoAnswer
    DEF connect, SquirrelInv, CallInv, TallyInv, RoundsInv, GivesUpOnlyInTrouble, Idle
  <2> QED BY <1>2, <2>3, <2>4 DEF SquirrelInv
<1> QED BY <1>3, <1>4 DEF OpenConnects

\* All rounds are used up, or there was to be none.
LEMMA OpenGivesUpInv ==
  ASSUME SquirrelInv, OpenGivesUp
  PROVE  SquirrelInv'
<1>1. /\ TypeInv /\ call.at = "trying" /\ call.answer = NULL /\ (call.retry => call.left = 0)
      /\ Answer(FALSE) /\ UNCHANGED <<connectionVars, queryVars, cursorVars, tally>>
  BY DEF OpenGivesUp, SquirrelInv, CallInv, Idle
<1>2. /\ call'.at = "idle" /\ call'.answer = FALSE
      /\ call'.retry = call.retry /\ call'.errData = call.errData
  BY <1>1, AnswerFields
<1>3. TypeInv'
  BY <1>1, AnswerFields DEF TypeInv, connectionVars, queryVars, cursorVars
<1>4. CallInv' /\ TallyInv'
  BY <1>1, <1>2, NullIsNoAnswer DEF SquirrelInv, CallInv, TallyInv, Idle, connectionVars
<1>5. RoundsInv' /\ GivesUpOnlyInTrouble'
  BY <1>1, <1>2, CallFields DEF SquirrelInv, RoundsInv, GivesUpOnlyInTrouble, Idle
<1> QED BY <1>1, <1>3, <1>4, <1>5, CursorStays DEF SquirrelInv

(***************************************************************************)
(* The rows                                                                 *)
(***************************************************************************)

\* The cursor's steps leave alone what open() is judged by.
LEMMA OpenStays ==
  ASSUME SquirrelInv, UNCHANGED <<connectionVars, call, tally>>
  PROVE  CallInv' /\ TallyInv' /\ RoundsInv' /\ GivesUpOnlyInTrouble'
BY DEF SquirrelInv, CallInv, TallyInv, RoundsInv, GivesUpOnlyInTrouble, Idle, connectionVars

\* by close(),
LEMMA closeInv ==
  ASSUME SquirrelInv, close
  PROVE  SquirrelInv'
<1>1. TypeInv' /\ ResultInv' /\ RowInv'
  BY DEF close, SquirrelInv, TypeInv, ResultInv, RowInv, connectionVars, queryVars
<1> QED BY <1>1, OpenStays DEF close, SquirrelInv

\* by next(),
LEMMA nextInv ==
  ASSUME SquirrelInv, next
  PROVE  SquirrelInv'
<1> DEFINE result == pCurrentResult
<1>1. /\ result \in Results /\ result.id = opened /\ result.count = iRecordCount
      /\ opened # 0 /\ opened \in Nat /\ iCurrentRecord \in Nat
  BY DEF next, isOpen, SquirrelInv, TypeInv, ResultInv
<1>2. result.at \in Nat /\ result.count \in Nat
  BY <1>1 DEF Results
<1>3. pCurrentResult' = [result EXCEPT !.at = IF @ + 1 <= result.count THEN @ + 1 ELSE result.count]
  <2>1. Min({result.at + 1, result.count})
          = IF result.at + 1 <= result.count THEN result.at + 1 ELSE result.count
    BY <1>2, MinOfTwo
  <2> QED BY <2>1 DEF next
<1>4. pCurrentResult' \in Results /\ pCurrentResult' # NULL
  BY <1>1, <1>2, <1>3, NullAssumption DEF Results
<1>5. /\ pCurrentResult'.id = opened /\ pCurrentResult'.count = iRecordCount
      /\ pCurrentResult'.at = IF result.at + 1 <= result.count THEN result.at + 1 ELSE result.count
  BY <1>1, <1>3 DEF Results
<1>6. opened' = opened /\ iRecordCount' = iRecordCount /\ iCurrentRecord' = iCurrentRecord + 1
  BY DEF next
<1>7. TypeInv'
  BY <1>4 DEF next, SquirrelInv, TypeInv, connectionVars, queryVars
<1>8. opened = 1 => result.at = IF iCurrentRecord <= iRecordCount THEN iCurrentRecord ELSE iRecordCount
  BY DEF next, isOpen, SquirrelInv, ResultInv
<1>9. ResultInv'
  BY <1>1, <1>2, <1>4, <1>5, <1>6, <1>8 DEF ResultInv
<1>10. RowInv'
  <2> SUFFICES ASSUME onRow' PROVE RowInv'
    BY DEF RowInv
  <2>1. RowAt(result, result.at + 1) # NULL
    BY DEF next
  <2>2. result.at + 1 <= result.count /\ aCurrentRow' = [id |-> result.id, row |-> result.at + 1]
    BY <2>1 DEF next, RowAt
  <2> QED BY <1>1, <1>2, <1>4, <1>5, <1>6, <1>8, <2>2 DEF RowInv
<1> QED BY <1>7, <1>9, <1>10, OpenStays DEF next, SquirrelInv

(***************************************************************************)
(* The theorems                                                             *)
(***************************************************************************)

\* and by every step.
LEMMA NextInv == SquirrelInv /\ [Next]_vars => SquirrelInv'
<1> SUFFICES ASSUME SquirrelInv, [Next]_vars PROVE SquirrelInv'
  OBVIOUS
<1>1. CASE \/ Connect \/ Disconnect \/ SetAutoreconnect
           \/ \E query \in Queries : SetQuery(query)
           \/ \E name \in Names : \E value \in Values[name] : SetParam(name, value)
  BY <1>1, SettingUpInv
<1>2. CASE LoseConnection
  BY <1>2, LoseConnectionInv
<1>3. CASE \E errData \in BOOLEAN : OpenCall(errData)
  BY <1>3, OpenCallInv
<1>4. CASE OpenSucceeds \/ OpenIsRefused \/ AnswerIsLost
  BY <1>4, OpenSucceedsInv, OpenIsRefusedInv, AnswerIsLostInv
<1>5. CASE OpenMeetsLostConnection \/ OpenConnects \/ OpenGivesUp
  BY <1>5, OpenMeetsLostConnectionInv, OpenConnectsInv, OpenGivesUpInv
<1>6. CASE close \/ next
  BY <1>6, closeInv, nextInv
<1>7. CASE UNCHANGED vars
  BY <1>7, CursorStays, OpenStays
  DEF vars, SquirrelInv, TypeInv, connectionVars, queryVars, cursorVars
<1> QED BY <1>1, <1>2, <1>3, <1>4, <1>5, <1>6, <1>7 DEF Next

\* The state keeps its types, a query executed once too often is one whose answer
\* was lost, each round without trouble is paid for by a lost connection, and the
\* client's place in the first result is what iCurrentRecord says.
THEOREM SpecInv == Spec => []SquirrelInv
<1>1. Init => SquirrelInv
  BY InitInv
<1>2. SquirrelInv /\ [Next]_vars => SquirrelInv'
  BY NextInv
<1> QED BY <1>1, <1>2, PTL DEF Spec

\* TMySQLSquirrel::open(): a query that open() says was executed was executed once,
\* and one it gave up was not, but for the answers that were lost on the way.
THEOREM ExecutedOnce == Spec => []ExecutedOnceUnlessAnswerLost
<1>1. SquirrelInv => ExecutedOnceUnlessAnswerLost
  BY DEF SquirrelInv, TallyInv, ExecutedOnceUnlessAnswerLost
<1> QED BY <1>1, SpecInv, PTL

\* TMySQLSquirrel::open(): whatever the number of rounds, a caller that passed errData
\* is told FALSE only after the server refused or could not be reached, or the
\* connection was lost in all rounds but one.
THEOREM GivesUp == Spec => []GivesUpOnlyInTrouble
<1>1. SquirrelInv => GivesUpOnlyInTrouble
  BY DEF SquirrelInv
<1> QED BY <1>1, SpecInv, PTL

\* TMySQLSquirrel::next(): the row is the next one of the result of the last open(),
\* and isFirst() and isLast() tell where it is in the first result.
THEOREM CursorOnRow == Spec => []CursorIsOnTheRow
<1>1. SquirrelInv => CursorIsOnTheRow
  BY DEF SquirrelInv, ResultInv, RowInv, CursorIsOnTheRow, isOpen, isFirst, isLast
<1> QED BY <1>1, SpecInv, PTL

(***************************************************************************)
(* The parameters of a query                                                *)
(***************************************************************************)

\* The values that parameters are given; the name and the text of the n-th entry.
Given == UNION {Values[name] : name \in Names}

Name(n) == params.elems[n].name

Val(n) == Rendered(bvalues[params.elems[n].object])

\* The list of parameters is as sorted as it is meant to be, the longest names
\* first and no name twice, and what its entries stand for is there.
ListInv ==
  /\ params \in [elems : Seq([name : Names, object : Nat]), allocated : Nat, removed : Nat,
                 prealloc : {10}, force : BOOLEAN]
  /\ size(params) <= params.allocated
  /\ bvalues \in Seq(Given)
  /\ \A n \in 1 .. size(params) : params.elems[n].object \in 1 .. Len(bvalues)
  /\ \A n, m \in 1 .. size(params) : n < m => Len(Name(n)) >= Len(Name(m)) /\ Name(n) # Name(m)

\* The parameters whose tokens stand at i, of the first k, and the longest of them.
HitsAt(query, k, i) == {n \in 1 .. k : OccursAt(query, Token(params.elems[n].name), i)}

LongestHit(query, k, i) ==
  CHOOSE n \in HitsAt(query, k, i) :
    \A other \in HitsAt(query, k, i) : Len(params.elems[other].name) <= Len(params.elems[n].name)

\* w[i] is the query from i on, with the values of the first k parameters.
Walks(w, query, k) ==
  \A i \in 0 .. Len(query) :
    w[i] = IF i = Len(query) THEN <<>>
           ELSE IF HitsAt(query, k, i) = {} THEN <<CharAt(query, i)>> \o w[i + 1]
           ELSE Val(LongestHit(query, k, i)) \o w[i + Len(Token(Name(LongestHit(query, k, i))))]

\* What the order of the list and the premise of the property give together.
Ready == ListInv /\ ValuesStandApart

\* A value is written with the symbols of its text and a few of its own.
LEMMA RenderedType ==
  ASSUME NEW value, value.text \in Seq(Symbols)
  PROVE  Rendered(value) \in Seq(Symbols)
<1> DEFINE text == value.text
           ss == [n \in 1 .. Len(text) |-> IF text[n] = "'" THEN <<"\\", "'">> ELSE <<text[n]>>]
           q == <<"'">>
<1>1. {"'", "\\", "0", "1"} \subseteq Symbols
  BY DEF Symbols
<1>2. ss \in Seq(Seq(Symbols))
  <2>1. ASSUME NEW n \in 1 .. Len(text)
        PROVE  (IF text[n] = "'" THEN <<"\\", "'">> ELSE <<text[n]>>) \in Seq(Symbols)
    <3>1. text[n] \in Symbols
      OBVIOUS
    <3>2. <<"\\", "'">> \in Seq(Symbols) /\ <<text[n]>> \in Seq(Symbols)
      BY <1>1, <3>1
    <3> QED BY <3>2
  <2>2. Len(text) \in Nat
    OBVIOUS
  <2> HIDE DEF text
  <2>3. ss \in [1 .. Len(text) -> Seq(Symbols)]
    BY <2>1
  <2> HIDE DEF ss
  <2> QED BY <2>2, <2>3, SeqDef
<1>3. escape(value.text) \in Seq(Symbols)
  <2>1. escape(value.text) = FlattenSeq(ss)
    BY DEF escape
  <2> HIDE DEF ss
  <2> QED BY <1>2, <2>1, FlattenType
<1>4. q \in Seq(Symbols) /\ <<"1">> \in Seq(Symbols) /\ <<"0">> \in Seq(Symbols)
  BY <1>1
<1>5. q \o escape(value.text) \o q \in Seq(Symbols)
  <2> HIDE DEF q
  <2> QED BY <1>3, <1>4
<1> QED BY <1>3, <1>4, <1>5 DEF Rendered

\* A token is the colon and the name.
IsToken(token, name) ==
  /\ token \in Seq(Symbols) /\ token # <<>>
  /\ Len(name) \in Nat /\ Len(token) = Len(name) + 1
  /\ token[1] = ":" /\ \A k \in 1 .. Len(name) : token[k + 1] = name[k]

\* That is what Token() makes.
LEMMA TokenIs ==
  ASSUME NEW name \in Seq(Symbols)
  PROVE  IsToken(Token(name), name)
<1> DEFINE c == <<":">>
           t == c \o name
<1>1. c \in Seq(Symbols) /\ Len(c) = 1 /\ c[1] = ":"
  BY DEF Symbols
<1> HIDE DEF c
<1>2. Joins(Symbols, t, c, 1, name, Len(name))
  BY <1>1, JoinsThem
<1>3. Token(name) = t
  BY DEF Token, c
<1> HIDE DEF t
<1>4. t \in Seq(Symbols) /\ Len(name) \in Nat /\ Len(t) = 1 + Len(name) /\ t[1] = c[1]
      /\ \A k \in 1 .. Len(name) : t[1 + k] = name[k]
  BY <1>2 DEF Joins
<1>5. t # <<>> /\ \A k \in 1 .. Len(name) : k + 1 = 1 + k
  BY <1>4
<1> QED BY <1>1, <1>3, <1>4, <1>5 DEF IsToken

\* There is a number of parameters,
LEMMA SizeIs == ListInv => size(params) \in Nat
<1> DEFINE entries == [name : Names, object : Nat]
           e == params.elems
<1> SUFFICES ASSUME ListInv PROVE size(params) \in Nat
  OBVIOUS
<1>1. e \in Seq(entries)
  BY DEF ListInv
<1> HIDE DEF entries, e
<1>2. Len(e) \in Nat
  BY <1>1
<1> QED BY <1>2 DEF size, e

\* each with a name and a value.
LEMMA ParamIs ==
  ASSUME ListInv, NEW n \in 1 .. size(params)
  PROVE  /\ Name(n) \in Seq(Symbols) /\ Val(n) \in Seq(Symbols)
         /\ IsToken(Token(Name(n)), Name(n)) /\ size(params) \in Nat
<1> DEFINE e == params.elems
<1>1. e \in Seq([name : Names, object : Nat]) /\ size(params) = Len(e)
  BY DEF ListInv, size
<1> HIDE DEF e
<1>2. e[n] \in [name : Names, object : Nat] /\ Len(e) \in Nat
  <2>1. n \in 1 .. Len(e)
    BY <1>1
  <2> DEFINE entries == [name : Names, object : Nat]
  <2>2. e \in Seq(entries)
    BY <1>1
  <2> HIDE DEF entries
  <2>3. e[n] \in entries /\ Len(e) \in Nat
    BY <2>1, <2>2
  <2> QED BY <2>3 DEF entries
<1>3. Name(n) \in Seq(Symbols)
  <2>1. Name(n) \in Names
    BY <1>2 DEF Name, e
  <2> QED BY <2>1, TextsAssumption
<1>4. Val(n) \in Seq(Symbols)
  <2>1. e[n].object \in 1 .. Len(bvalues) /\ bvalues \in Seq(Given)
    BY DEF ListInv, e
  <2>2. bvalues[e[n].object] \in Given
    BY <2>1
  <2>3. PICK name \in Names : bvalues[e[n].object] \in Values[name]
    BY <2>2 DEF Given
  <2>4. bvalues[e[n].object].text \in Seq(Symbols)
    BY <2>3, TextsAssumption
  <2> QED BY <2>4, RenderedType DEF Val, e
<1> QED BY <1>1, <1>2, <1>3, <1>4, TokenIs

\* Where a token occurs, its colon and the symbols of its name stand.
LEMMA TokenAt ==
  ASSUME NEW name \in Seq(Symbols), NEW query \in Seq(Symbols), NEW i \in Nat
  PROVE  OccursAt(query, Token(name), i) <=>
           /\ i + Len(name) < Len(query) /\ query[i + 1] = ":"
           /\ \A k \in 1 .. Len(name) : query[i + 1 + k] = name[k]
<1> DEFINE t == Token(name)
           each == \A k \in 1 .. Len(name) : query[i + 1 + k] = name[k]
           l == Len(name)
<1>1. /\ t \in Seq(Symbols) /\ t # <<>> /\ l \in Nat /\ Len(t) = l + 1 /\ t[1] = ":"
      /\ \A k \in 1 .. l : t[k + 1] = name[k]
  BY TokenIs DEF IsToken
<1> HIDE DEF t
<1>2. OccursAt(query, t, i) <=> EachAt(query, t, i)
  BY <1>1, OccursEach
<1>3. Len(query) \in Nat
  OBVIOUS
<1> HIDE DEF l
<1>4. ASSUME EachAt(query, t, i) PROVE i + l < Len(query) /\ query[i + 1] = ":" /\ each
  <2>1. ASSUME NEW k \in 0 .. l PROVE i + k < Len(query) /\ query[i + k + 1] = t[k + 1]
    <3>1. k \in 0 .. Len(t) - 1
      BY <1>1
    <3> QED BY <1>4, <3>1 DEF EachAt, CharAt
  <2>2. 0 \in 0 .. l /\ l \in 0 .. l /\ i + 0 + 1 = i + 1 /\ 0 + 1 = 1
    BY <1>1
  <2>3. \A k \in 1 .. l : k \in 0 .. l /\ i + k + 1 = i + 1 + k
    BY <1>1
  <2>4. query[i + 1] = ":" /\ i + l < Len(query)
    BY <1>1, <2>1, <2>2
  <2>5. each
    BY <1>1, <2>1, <2>3 DEF l
  <2> QED BY <2>4, <2>5
<1>5. ASSUME i + l < Len(query), query[i + 1] = ":", each PROVE EachAt(query, t, i)
  <2> SUFFICES ASSUME NEW k \in 0 .. Len(t) - 1
               PROVE  i + k < Len(query) /\ query[i + k + 1] = t[k + 1]
    BY DEF EachAt, CharAt
  <2>1. CASE k = 0
    BY <1>1, <1>3, <1>5, <2>1
  <2>2. CASE k # 0
    <3>1. k \in 1 .. l /\ i + k + 1 = i + 1 + k
      BY <1>1, <2>2
    <3>2. query[i + 1 + k] = name[k]
      BY <1>5, <3>1 DEF l
    <3> QED BY <1>1, <1>3, <1>5, <3>1, <3>2
  <2> QED BY <2>1, <2>2
<1> QED BY <1>2, <1>4, <1>5 DEF t, l


(***************************************************************************)
(* What stands at a place of the query                                      *)
(***************************************************************************)

\* Two parameters do not stand at one place, unless one is longer.
LEMMA LongerWins ==
  ASSUME ListInv, NEW query \in Seq(Symbols), NEW i \in Nat, NEW k \in 0 .. size(params),
         NEW n \in HitsAt(query, k, i), NEW m \in HitsAt(query, k, i), n < m
  PROVE  Len(Name(n)) > Len(Name(m))
<1>1. n \in 1 .. size(params) /\ m \in 1 .. size(params)
  BY ParamIs DEF HitsAt
<1>2. Name(n) \in Seq(Symbols) /\ Name(m) \in Seq(Symbols)
  BY <1>1, ParamIs
<1>3. OccursAt(query, Token(Name(n)), i) /\ OccursAt(query, Token(Name(m)), i)
  BY DEF HitsAt, Name
<1>4. Len(Name(n)) >= Len(Name(m)) /\ Name(n) # Name(m)
  BY <1>1 DEF ListInv
<1> DEFINE a == Name(n)
           b == Name(m)
<1> HIDE DEF a, b
<1>5. a \in Seq(Symbols) /\ b \in Seq(Symbols) /\ a # b /\ Len(a) >= Len(b)
  BY <1>2, <1>4 DEF a, b
<1>6. /\ \A j \in 1 .. Len(a) : query[i + 1 + j] = a[j]
      /\ \A j \in 1 .. Len(b) : query[i + 1 + j] = b[j]
  BY <1>3, <1>5, TokenAt DEF a, b
<1>7. Len(a) # Len(b)
  <2> SUFFICES ASSUME Len(a) = Len(b) PROVE FALSE
    OBVIOUS
  <2>1. \A j \in 1 .. Len(a) : a[j] = b[j]
    BY <1>6
  <2> QED BY <1>5, <2>1, SeqEqual
<1>8. Len(a) > Len(b)
  BY <1>5, <1>7
<1> QED BY <1>8 DEF a, b

\* n is the longest that stands there.
IsLongest(n, query, k, i) ==
  n \in HitsAt(query, k, i)
    /\ \A other \in HitsAt(query, k, i) : Len(params.elems[other].name) <= Len(params.elems[n].name)

\* There is one, and only one.
LEMMA LongestIsOne ==
  ASSUME ListInv, NEW query \in Seq(Symbols), NEW i \in Nat, NEW k \in 0 .. size(params),
         NEW n, IsLongest(n, query, k, i)
  PROVE  LongestHit(query, k, i) = n
<1> DEFINE h == LongestHit(query, k, i)
<1>1. IsLongest(h, query, k, i)
  BY DEF LongestHit, IsLongest
<1> HIDE DEF h
<1>2. n \in HitsAt(query, k, i) /\ h \in HitsAt(query, k, i) /\ Len(Name(n)) <= Len(Name(h))
      /\ Len(Name(h)) <= Len(Name(n))
  BY <1>1 DEF IsLongest, Name
<1>3. n \in 1 .. size(params) /\ h \in 1 .. size(params) /\ size(params) \in Nat
  BY <1>2, ParamIs DEF HitsAt
<1>4. Len(Name(n)) \in Nat /\ Len(Name(h)) \in Nat
  BY <1>3, ParamIs DEF IsToken
<1>5. ~(n < h) /\ ~(h < n)
  BY <1>2, <1>4, LongerWins
<1>6. n = h
  BY <1>3, <1>5
<1> QED BY <1>6 DEF h

\* Where a token stands there is a longest one, and it is the one that is taken.
LEMMA LongestIs ==
  ASSUME ListInv, NEW query \in Seq(Symbols), NEW i \in Nat, NEW k \in 0 .. size(params),
         HitsAt(query, k, i) # {}
  PROVE  IsLongest(LongestHit(query, k, i), query, k, i)
<1> DEFINE hits == HitsAt(query, k, i)
<1>0. hits \in SUBSET Nat
  BY DEF HitsAt
<1>1. PICK n \in hits : \A m \in hits : n <= m
  <2> HIDE DEF hits
  <2>1. hits # {}
    BY DEF hits
  <2> QED BY <1>0, <2>1, LeastExists
<1>2. ASSUME NEW m \in hits PROVE Len(Name(m)) <= Len(Name(n))
  <2>1. n \in 1 .. size(params) /\ m \in 1 .. size(params)
    BY ParamIs DEF HitsAt
  <2>2. Len(Name(n)) \in Nat /\ Len(Name(m)) \in Nat
    BY <2>1, ParamIs DEF IsToken
  <2>3. CASE n = m
    BY <2>2, <2>3
  <2>4. CASE n # m
    <3>1. n < m
      BY <1>0, <1>1, <2>4
    <3> QED BY <2>2, <3>1, LongerWins
  <2> QED BY <2>3, <2>4
<1>3. IsLongest(n, query, k, i)
  BY <1>2 DEF IsLongest, Name
<1> QED BY <1>3, LongestIsOne

\* A parameter more of the list, which is no longer, takes no place from others,
LEMMA HitStays ==
  ASSUME ListInv, NEW query \in Seq(Symbols), NEW i \in Nat, NEW k \in 0 .. size(params) - 1,
         HitsAt(query, k, i) # {}
  PROVE  HitsAt(query, k + 1, i) # {} /\ LongestHit(query, k + 1, i) = LongestHit(query, k, i)
<1> DEFINE h == LongestHit(query, k, i)
<1>0. size(params) \in Nat
  BY SizeIs
<1>1. IsLongest(h, query, k, i)
  BY <1>0, LongestIs
<1> HIDE DEF h
<1>2. h \in HitsAt(query, k, i) /\ h \in 1 .. k /\ h \in HitsAt(query, k + 1, i)
  BY <1>1 DEF IsLongest, HitsAt
<1>3. ASSUME NEW other \in HitsAt(query, k + 1, i) PROVE Len(Name(other)) <= Len(Name(h))
  <2>1. CASE other \in HitsAt(query, k, i)
    BY <1>1, <2>1 DEF IsLongest, Name
  <2>2. CASE other \notin HitsAt(query, k, i)
    <3>1. other = k + 1
      BY <2>2 DEF HitsAt
    <3>2. h < other /\ h \in 1 .. size(params) /\ other \in 1 .. size(params)
      BY <1>0, <1>2, <3>1
    <3>3. Len(Name(h)) >= Len(Name(other)) /\ Len(Name(h)) \in Nat /\ Len(Name(other)) \in Nat
      BY <3>2, ParamIs DEF ListInv, IsToken
    <3> QED BY <3>3
  <2> QED BY <2>1, <2>2
<1>4. IsLongest(h, query, k + 1, i)
  BY <1>2, <1>3 DEF IsLongest, Name
<1>5. k + 1 \in 0 .. size(params)
  BY <1>0
<1>6. LongestHit(query, k + 1, i) = h
  BY <1>4, <1>5, LongestIsOne
<1> QED BY <1>2, <1>6 DEF h

\* and has its own where nothing stood.
LEMMA HitIsNew ==
  ASSUME ListInv, NEW query \in Seq(Symbols), NEW i \in Nat, NEW k \in 0 .. size(params) - 1,
         HitsAt(query, k, i) = {}, HitsAt(query, k + 1, i) # {}
  PROVE  LongestHit(query, k + 1, i) = k + 1 /\ OccursAt(query, Token(Name(k + 1)), i)
<1>0. size(params) \in Nat /\ k + 1 \in 0 .. size(params)
  BY SizeIs
<1> DEFINE h == LongestHit(query, k + 1, i)
<1>1. IsLongest(h, query, k + 1, i)
  BY <1>0, LongestIs
<1>2. h \in 1 .. k + 1 /\ OccursAt(query, Token(Name(h)), i)
  BY <1>1 DEF IsLongest, HitsAt, Name
<1>3. h \notin 1 .. k
  BY <1>2 DEF HitsAt, Name
<1> HIDE DEF h
<1>4. h = k + 1
  BY <1>2, <1>3
<1> QED BY <1>2, <1>4 DEF h

\* Where no token of the first k and one stands, none of the first k does.
LEMMA FewerHits ==
  ASSUME NEW query, NEW i, NEW k \in Nat
  PROVE  HitsAt(query, k, i) \subseteq HitsAt(query, k + 1, i)
BY DEF HitsAt

(***************************************************************************)
(* The query with the values of the first k parameters                      *)
(***************************************************************************)

\* Behind a token that stands at i there is the rest of the query.
LEMMA BehindHit ==
  ASSUME ListInv, NEW query \in Seq(Symbols), NEW i \in Nat, NEW k \in 0 .. size(params),
         HitsAt(query, k, i) # {}
  PROVE  LET n == LongestHit(query, k, i) IN
         /\ n \in 1 .. k /\ n \in 1 .. size(params) /\ Val(n) \in Seq(Symbols)
         /\ i + Len(Token(Name(n))) \in i + 1 .. Len(query)
<1> DEFINE n == LongestHit(query, k, i)
<1>1. IsLongest(n, query, k, i)
  BY LongestIs
<1> HIDE DEF n
<1>2. n \in 1 .. k /\ n \in 1 .. size(params) /\ OccursAt(query, Token(Name(n)), i)
  BY <1>1, SizeIs DEF IsLongest, HitsAt, Name
<1>3. Val(n) \in Seq(Symbols) /\ Token(Name(n)) \in Seq(Symbols) /\ Token(Name(n)) # <<>>
  BY <1>2, ParamIs DEF IsToken
<1> DEFINE t == Token(Name(n))
<1>4. t \in Seq(Symbols) /\ t # <<>> /\ OccursAt(query, t, i)
  BY <1>2, <1>3
<1> HIDE DEF t
<1>5. i + Len(t) <= Len(query) /\ Len(t) \in Nat /\ Len(t) # 0 /\ Len(query) \in Nat
  BY <1>4 DEF OccursAt
<1>6. i + Len(t) \in i + 1 .. Len(query)
  BY <1>5
<1> QED BY <1>2, <1>3, <1>6 DEF n, t

\* How a walk goes through the query.
Ends(query) == [i \in 0 .. Len(query) |-> i = Len(query)]
Base(query) == [i \in 0 .. Len(query) |-> <<>>]
Before(query, k) ==
  [i \in 0 .. Len(query) |->
     IF i = Len(query) THEN <<>>
     ELSE IF HitsAt(query, k, i) = {} THEN <<CharAt(query, i)>> ELSE Val(LongestHit(query, k, i))]
Beyond(query, k) ==
  [i \in 0 .. Len(query) |->
     IF HitsAt(query, k, i) = {} THEN i + 1
     ELSE i + Len(Token(Name(LongestHit(query, k, i))))]

\* A walk is such a loop,
LEMMA WalkUnrolls ==
  ASSUME NEW w, NEW query \in Seq(Symbols), NEW k
  PROVE  Walks(w, query, k) <=>
           Unrolls(w, Len(query), Ends(query), Base(query), Before(query, k), Beyond(query, k))
<1>1. ASSUME NEW i \in 0 .. Len(query)
      PROVE  (IF Ends(query)[i] THEN Base(query)[i] ELSE Before(query, k)[i] \o w[Beyond(query, k)[i]])
             = (IF i = Len(query) THEN <<>>
                ELSE IF HitsAt(query, k, i) = {} THEN <<CharAt(query, i)>> \o w[i + 1]
                ELSE Val(LongestHit(query, k, i)) \o w[i + Len(Token(Name(LongestHit(query, k, i))))])
  <2>1. /\ Ends(query)[i] = (i = Len(query)) /\ Base(query)[i] = <<>>
        /\ i # Len(query) =>
             Before(query, k)[i] = IF HitsAt(query, k, i) = {} THEN <<CharAt(query, i)>>
                                   ELSE Val(LongestHit(query, k, i))
        /\ Beyond(query, k)[i] = IF HitsAt(query, k, i) = {} THEN i + 1
                                 ELSE i + Len(Token(Name(LongestHit(query, k, i))))
    BY DEF Ends, Base, Before, Beyond
  <2> QED BY <2>1
<1> QED BY <1>1 DEF Walks, Unrolls

\* and each of its steps goes on behind where it was.
LEMMA WalkGoesOn ==
  ASSUME ListInv, NEW query \in Seq(Symbols), NEW k \in 0 .. size(params)
  PROVE  /\ \A i \in 0 .. Len(query) : ~Ends(query)[i] => Beyond(query, k)[i] \in i + 1 .. Len(query)
         /\ Base(query) \in [0 .. Len(query) -> Seq(Symbols)]
         /\ Before(query, k) \in [0 .. Len(query) -> Seq(Symbols)]
<1>1. Len(query) \in Nat /\ <<>> \in Seq(Symbols)
  OBVIOUS
<1>2. ASSUME NEW i \in 0 .. Len(query), i # Len(query)
      PROVE  Beyond(query, k)[i] \in i + 1 .. Len(query) /\ Before(query, k)[i] \in Seq(Symbols)
  <2>0. i \in Nat /\ i + 1 \in i + 1 .. Len(query) /\ i + 1 \in 1 .. Len(query)
    BY <1>1, <1>2
  <2>1. CASE HitsAt(query, k, i) = {}
    <3>1. <<CharAt(query, i)>> \in Seq(Symbols)
      BY <2>0 DEF CharAt
    <3> QED BY <1>2, <2>0, <2>1, <3>1 DEF Beyond, Before
  <2>2. CASE HitsAt(query, k, i) # {}
    BY <1>2, <2>0, <2>2, BehindHit DEF Beyond, Before
  <2> QED BY <2>1, <2>2
<1>3. ASSUME NEW i \in 0 .. Len(query) PROVE Before(query, k)[i] \in Seq(Symbols)
  <2>1. CASE i = Len(query)
    BY <1>1, <2>1 DEF Before
  <2>2. CASE i # Len(query)
    BY <1>2, <2>2
  <2> QED BY <2>1, <2>2
<1>4. Before(query, k) = [i \in 0 .. Len(query) |-> Before(query, k)[i]]
  BY DEF Before
<1>5. Before(query, k) \in [0 .. Len(query) -> Seq(Symbols)]
  BY <1>3, <1>4
<1>6. Base(query) \in [0 .. Len(query) -> Seq(Symbols)]
  BY <1>1 DEF Base
<1> QED BY <1>2, <1>5, <1>6 DEF Ends

\* There is a walk,
LEMMA WalkExists ==
  ASSUME ListInv, NEW query \in Seq(Symbols), NEW k \in 0 .. size(params)
  PROVE  \E w \in [0 .. Len(query) -> Seq(Symbols)] : Walks(w, query, k)
<1> DEFINE n == Len(query)
           ends == Ends(query)
           base == Base(query)
           before == Before(query, k)
           further == Beyond(query, k)
<1>1. /\ n \in Nat /\ base \in [0 .. n -> Seq(Symbols)] /\ before \in [0 .. n -> Seq(Symbols)]
      /\ \A i \in 0 .. n : ~ends[i] => further[i] \in i + 1 .. n
  BY WalkGoesOn
<1> HIDE DEF ends, base, before, further, n
<1>2. \E w \in [0 .. n -> Seq(Symbols)] : Unrolls(w, n, ends, base, before, further)
  BY <1>1, UnrolledExists, Zenon
<1> QED BY <1>2, WalkUnrolls DEF ends, base, before, further, n

\* and only one.
LEMMA WalkIsOne ==
  ASSUME ListInv, NEW query \in Seq(Symbols), NEW k \in 0 .. size(params), NEW v, NEW w,
         Walks(v, query, k), Walks(w, query, k)
  PROVE  v[0] = w[0]
<1> DEFINE n == Len(query)
           ends == Ends(query)
           base == Base(query)
           before == Before(query, k)
           further == Beyond(query, k)
<1>1. n \in Nat /\ \A i \in 0 .. n : ~ends[i] => further[i] \in i + 1 .. n
  BY WalkGoesOn
<1>2. Unrolls(v, n, ends, base, before, further) /\ Unrolls(w, n, ends, base, before, further)
  BY WalkUnrolls
<1> HIDE DEF ends, base, before, further, n
<1>3. \A i \in 0 .. n : v[i] = w[i]
  BY <1>1, <1>2, UnrolledIsOne
<1> QED BY <1>1, <1>3

\* Where nothing is put in, the query is copied.
Copies(w, query, i, m) == w[i] = Part(query, i, m) \o w[i + m]

\* Up to the first place where a token stands, by induction over the distance.
LEMMA Copied ==
  ASSUME ListInv, NEW query \in Seq(Symbols), NEW k \in 0 .. size(params),
         NEW w \in [0 .. Len(query) -> Seq(Symbols)], Walks(w, query, k),
         NEW i \in 0 .. Len(query), NEW m \in Nat, i + m <= Len(query),
         \A j \in i .. i + m - 1 : HitsAt(query, k, j) = {}
  PROVE  Copies(w, query, i, m)
<1> DEFINE n == Len(query)
           S == {d \in Nat : d <= m => Copies(w, query, i, d)}
<1>0. n \in Nat
  OBVIOUS
<1>1. 0 \in S
  <2>1. Part(query, i, 0) = <<>> /\ i + 0 = i /\ <<>> \o w[i] = w[i]
    BY DEF Part
  <2> QED BY <2>1 DEF Copies
<1>2. ASSUME NEW d \in Nat, d \in S PROVE d + 1 \in S
  <2> SUFFICES ASSUME d + 1 <= m PROVE Copies(w, query, i, d + 1)
    OBVIOUS
  <2> DEFINE at == i + d
             c == <<CharAt(query, at)>>
             p == SubSeq(query, i + 1, at)
             r == w[at + 1]
  <2>1. /\ at \in 0 .. n /\ at # n /\ at \in i .. i + m - 1 /\ at + 1 \in 0 .. n /\ at + 1 \in 1 .. n
        /\ at \in Nat /\ i + (d + 1) = at + 1 /\ i + 1 \in Nat \ {0} /\ i + 1 <= at + 1
    BY <1>0
  <2>2. w[at] = c \o r
    BY <2>1 DEF Walks
  <2>3. w[i] = p \o w[at]
    <3>1. Copies(w, query, i, d)
      BY <1>2
    <3> QED BY <3>1 DEF Copies, Part
  <2>4. c \in Seq(Symbols) /\ r \in Seq(Symbols)
    BY <2>1 DEF CharAt
  <2> DEFINE a == i + 1
             b == at + 1
  <2>5. a \in Nat \ {0} /\ b \in Nat /\ at \in Nat /\ a <= b /\ b = at + 1 /\ b <= Len(query) /\ at <= b
        /\ a <= at + 1 /\ at <= Len(query)
    BY <2>1
  <2>6. SubSeq(query, b, b) = c
    <3>1. query[b] = CharAt(query, at)
      BY DEF CharAt
    <3> HIDE DEF b
    <3>2. b \in 1 .. Len(query)
      BY <2>5
    <3>3. SubSeq(query, b, b) = <<query[b]>>
      BY <3>2, OnePiece
    <3> QED BY <3>1, <3>3
  <2> HIDE DEF at, c, r, a, b
  <2>7. SubSeq(query, a, at) \o SubSeq(query, b, b) = SubSeq(query, a, b)
    BY <2>5, CutInTwo
  <2>8. SubSeq(query, a, at) \in Seq(Symbols)
    BY <2>5, PieceOf
  <2>9. JoinThree(SubSeq(query, a, at), c, r)
    BY <2>4, <2>8, JoinsAssociate
  <2>10. w[i] = SubSeq(query, a, b) \o r
    BY <2>2, <2>3, <2>6, <2>7, <2>9 DEF JoinThree, a
  <2> QED BY <2>1, <2>10 DEF Copies, Part, a, b, r
<1> HIDE DEF S
<1>3. m \in S
  BY <1>1, <1>2, SetInduction
<1> QED BY <1>3 DEF S


\* The steps of a walk.
LEMMA WalkEnds ==
  ASSUME NEW query \in Seq(Symbols), NEW k, NEW w, Walks(w, query, k)
  PROVE  w[Len(query)] = <<>>
<1>1. Len(query) \in 0 .. Len(query)
  OBVIOUS
<1> QED BY <1>1 DEF Walks

\* where no token stands it copies a character,
LEMMA WalkCopies ==
  ASSUME NEW query, NEW k, NEW w, Walks(w, query, k), NEW i \in 0 .. Len(query),
         i # Len(query), HitsAt(query, k, i) = {}
  PROVE  w[i] = <<CharAt(query, i)>> \o w[i + 1]
BY DEF Walks

\* and where one stands it puts in the value.
LEMMA WalkHits ==
  ASSUME NEW query, NEW k, NEW w, Walks(w, query, k), NEW i \in 0 .. Len(query),
         i # Len(query), HitsAt(query, k, i) # {}
  PROVE  LET n == LongestHit(query, k, i) IN w[i] = Val(n) \o w[i + Len(Token(Name(n)))]
BY DEF Walks

\* The walk has the token itself, and goes on behind it.
CopiesToken(w, query, i, token) ==
  i + Len(token) \in 0 .. Len(query) /\ w[i] = token \o w[i + Len(token)]

\* A token that stands at i is copied whole: no other begins in it.
LEMMA TokenIsCopied ==
  ASSUME Ready, NEW query \in Seq(Symbols), NEW k \in 0 .. size(params),
         NEW w \in [0 .. Len(query) -> Seq(Symbols)], Walks(w, query, k),
         NEW i \in 0 .. Len(query), HitsAt(query, k, i) = {},
         NEW n \in 1 .. size(params), OccursAt(query, Token(Name(n)), i)
  PROVE  CopiesToken(w, query, i, Token(Name(n)))
<1> DEFINE name == Name(n)
           t == Token(name)
           m == Len(name)
<1>0. ListInv /\ Len(query) \in Nat /\ i \in Nat
  BY DEF Ready
<1>1. name \in Seq(Symbols) /\ m \in Nat /\ t \in Seq(Symbols) /\ Len(t) = m + 1
  BY <1>0, ParamIs DEF IsToken
<1>2. ":" \notin Range(name) /\ OccursAt(query, Token(name), i)
  BY DEF Ready, ValuesStandApart, Name
<1> HIDE DEF name
<1>3. i + m < Len(query) /\ \A j \in 1 .. m : query[i + 1 + j] = name[j]
  BY <1>0, <1>1, <1>2, TokenAt
<1>4. ASSUME NEW j \in i .. i + Len(t) - 1 PROVE HitsAt(query, k, j) = {}
  <2>1. CASE j = i
    BY <2>1
  <2>2. CASE j # i
    <3> DEFINE x == j - i
    <3>1. x \in 1 .. m /\ j + 1 = i + 1 + x /\ j \in Nat
      BY <1>0, <1>1, <2>2
    <3> HIDE DEF x
    <3>2. query[j + 1] # ":"
      <4>1. name[x] \in Range(name)
        BY <1>1, <3>1 DEF Range
      <4>2. query[j + 1] = name[x]
        BY <1>3, <3>1
      <4> QED BY <1>2, <4>1, <4>2
    <3>3. ASSUME NEW o \in HitsAt(query, k, j) PROVE FALSE
      <4>1. o \in 1 .. size(params) /\ OccursAt(query, Token(Name(o)), j)
        BY <1>0, SizeIs DEF HitsAt, Name
      <4>2. Name(o) \in Seq(Symbols)
        BY <1>0, <4>1, ParamIs
      <4> QED BY <3>1, <3>2, <4>1, <4>2, TokenAt
    <3> QED BY <3>3
  <2> QED BY <2>1, <2>2
<1> DEFINE l == Len(t)
<1>5. l \in Nat /\ i + l <= Len(query)
  BY <1>0, <1>1, <1>3
<1>6. Copies(w, query, i, l)
  <2> HIDE DEF l, t
  <2>1. \A j \in i .. i + l - 1 : HitsAt(query, k, j) = {}
    BY <1>4 DEF l
  <2> QED BY <1>0, <1>5, <2>1, Copied
<1>7. Part(query, i, l) = t
  BY DEF OccursAt, name
<1>8. i + l \in 0 .. Len(query)
  BY <1>0, <1>5
<1> QED BY <1>6, <1>7, <1>8 DEF Copies, CopiesToken, name

\* A token does not begin in a value that was put in before.
LEMMA NotInValue ==
  ASSUME Ready, NEW k \in 0 .. size(params) - 1, NEW n \in 1 .. k, NEW rest \in Seq(Symbols)
  PROVE  NoneBefore(Val(n) \o rest, Token(Name(k + 1)), Len(Val(n)))
<1> DEFINE v == Val(n)
           t == Token(Name(k + 1))
           vr == v \o rest
<1>0. ListInv /\ size(params) \in Nat
  BY SizeIs DEF Ready
<1>1. n \in 1 .. size(params) /\ k + 1 \in n + 1 .. size(params) /\ k + 1 \in 1 .. size(params)
  BY <1>0
<1>2. v \in Seq(Symbols) /\ t \in Seq(Symbols) /\ t # <<>>
  BY <1>0, <1>1, ParamIs DEF IsToken
<1>3. ~BeginsWithin(t, v)
  BY <1>1 DEF Ready, ValuesStandApart, StandsApart, Name, Val
<1>4. ASSUME NEW i \in 0 .. Len(v) - 1, OccursAt(vr, t, i) PROVE FALSE
  <2>1. vr \in Seq(Symbols) /\ \A j \in 1 .. Len(v) : vr[j] = v[j]
    <3> HIDE DEF v
    <3> QED BY <1>2, Joined
  <2>2. i \in Nat /\ Len(v) \in Nat
    BY <1>2
  <2> HIDE DEF v, t, vr
  <2>3. \A j \in 0 .. Len(t) - 1 : vr[i + j + 1] = t[j + 1]
    <3>1. EachAt(vr, t, i)
      <4>1. vr \in Seq(Symbols)
        BY <2>1
      <4> QED BY <1>2, <1>4, <2>2, <4>1, OccursEach
    <3> QED BY <3>1 DEF EachAt, CharAt
  <2>4. ASSUME NEW j \in 1 .. Len(t), i + j <= Len(v) PROVE v[i + j] = t[j]
    <3> DEFINE d == j - 1
    <3>1. d \in 0 .. Len(t) - 1 /\ i + d + 1 = i + j /\ d + 1 = j /\ i + j \in 1 .. Len(v)
      BY <1>2, <2>2, <2>4
    <3> HIDE DEF d
    <3>2. vr[i + d + 1] = t[d + 1]
      BY <2>3, <3>1
    <3> QED BY <2>1, <3>1, <3>2
  <2> QED BY <1>3, <2>4 DEF BeginsWithin
<1> QED BY <1>4 DEF NoneBefore

\* Nor is one made of what the query has and a value that follows it.
LEMMA NotMade ==
  ASSUME Ready, NEW query \in Seq(Symbols), NEW k \in 0 .. size(params) - 1,
         NEW w \in [0 .. Len(query) -> Seq(Symbols)], Walks(w, query, k),
         NEW i \in 0 .. Len(query) - 1, HitsAt(query, k + 1, i) = {}
  PROVE  ~OccursAt(w[i], Token(Name(k + 1)), 0)
<1> DEFINE name == Name(k + 1)
           t == Token(name)
           wi == w[i]
           M == {d \in Nat : d > 0 /\ i + d <= Len(query) /\ (i + d = Len(query) \/ HitsAt(query, k, i + d) # {})}
<1>0. ListInv /\ size(params) \in Nat /\ Len(query) \in Nat /\ i \in Nat /\ i \in 0 .. Len(query) /\ k \in Nat
      /\ k \in 0 .. size(params)
  BY SizeIs DEF Ready
<1>1. k + 1 \in 1 .. size(params)
  BY <1>0
<1>2. name \in Seq(Symbols) /\ Len(name) \in Nat /\ t \in Seq(Symbols) /\ t # <<>> /\ Len(t) = Len(name) + 1
      /\ \A j \in 1 .. Len(name) : t[j + 1] = name[j]
  BY <1>0, <1>1, ParamIs DEF IsToken
<1>3. PICK m \in M : \A d \in M : m <= d
  <2>1. Len(query) - i \in M
    BY <1>0
  <2>2. M \in SUBSET Nat /\ M # {}
    BY <2>1
  <2> HIDE DEF M
  <2> QED BY <2>2, LeastExists
<1>4. m \in Nat /\ m > 0 /\ i + m <= Len(query) /\ (i + m = Len(query) \/ HitsAt(query, k, i + m) # {})
  BY <1>3
<1>5. ASSUME NEW j \in i .. i + m - 1 PROVE HitsAt(query, k, j) = {}
  <2>1. CASE j = i
    BY <1>0, <2>1, FewerHits
  <2>2. CASE j # i
    <3> DEFINE d == j - i
    <3>1. d \in Nat /\ d > 0 /\ d < m /\ i + d = j /\ i + d <= Len(query)
      BY <1>0, <1>4, <2>2
    <3>2. d \notin M
      <4> HIDE DEF M, d
      <4> QED BY <1>3, <1>4, <3>1
    <3> QED BY <3>1, <3>2
  <2> QED BY <2>1, <2>2
<1> HIDE DEF M
<1>6. Copies(w, query, i, m)
  BY <1>0, <1>4, <1>5, Copied
<1> DEFINE p == Part(query, i, m)
           r == w[i + m]
<1>7. wi = p \o r
  BY <1>6 DEF Copies
<1>8. p \in Seq(Symbols) /\ Len(p) = m /\ \A j \in 1 .. m : p[j] = query[i + j]
  <2>1. IsPiece(p, Symbols, query, i, m)
    BY <1>0, <1>4, PartIs
  <2> HIDE DEF p
  <2> QED BY <2>1 DEF IsPiece
<1>9. r \in Seq(Symbols) /\ wi \in Seq(Symbols)
  <2>1. i + m \in 0 .. Len(query)
    BY <1>0, <1>4
  <2> QED BY <1>0, <2>1
<1> SUFFICES ASSUME OccursAt(wi, t, 0) PROVE FALSE
  OBVIOUS
<1> HIDE DEF p, r, wi, t, name
<1>10. /\ Len(wi) = m + Len(r) /\ Len(r) \in Nat
       /\ \A j \in 1 .. m : wi[j] = p[j]
       /\ \A j \in 1 .. Len(r) : wi[m + j] = r[j]
  <2>1. /\ Len(p \o r) = Len(p) + Len(r) /\ Len(r) \in Nat
        /\ \A j \in 1 .. Len(p) : (p \o r)[j] = p[j]
        /\ \A j \in 1 .. Len(r) : (p \o r)[Len(p) + j] = r[j]
    <3>1. p \in Seq(Symbols) /\ r \in Seq(Symbols)
      BY <1>8, <1>9
    <3> QED BY <3>1, Joined
  <2> QED BY <1>7, <1>8, <2>1
<1>11. ASSUME NEW j \in 0 .. Len(t) - 1 PROVE j < Len(wi) /\ wi[j + 1] = t[j + 1]
  <2>1. EachAt(wi, t, 0)
    BY <1>2, <1>9, OccursEach
  <2>2. 0 + j = j
    OBVIOUS
  <2> QED BY <2>1, <2>2 DEF EachAt, CharAt
<1>12. CASE Len(t) <= m
  <2>1. ASSUME NEW j \in 0 .. Len(t) - 1 PROVE i + j < Len(query) /\ query[i + j + 1] = t[j + 1]
    <3>1. j + 1 \in 1 .. m /\ i + j < Len(query) /\ i + (j + 1) = i + j + 1
      BY <1>0, <1>2, <1>4, <1>12
    <3>2. p[j + 1] = query[i + (j + 1)] /\ wi[j + 1] = p[j + 1]
      BY <1>8, <1>10, <3>1
    <3> QED BY <1>11, <3>1, <3>2
  <2>2. EachAt(query, t, i)
    BY <2>1 DEF EachAt, CharAt
  <2>3. OccursAt(query, t, i)
    BY <1>0, <1>2, <2>2, OccursEach
  <2>4. k + 1 \in HitsAt(query, k + 1, i)
    BY <1>0, <2>3 DEF HitsAt, t, name, Name
  <2> QED BY <2>4
<1>13. CASE m < Len(t)
  <2>1. m \in 0 .. Len(t) - 1 /\ m \in 1 .. Len(t) - 1
    BY <1>2, <1>4, <1>13
  <2>2. m < Len(wi)
    BY <1>11, <2>1
  <2>3. i + m # Len(query) /\ HitsAt(query, k, i + m) # {}
    <3>1. i + m = Len(query) => r = <<>>
      BY <1>0, WalkEnds DEF r
    <3>2. r # <<>>
      BY <1>4, <1>10, <2>2
    <3> QED BY <1>4, <3>1, <3>2
  <2> DEFINE n == LongestHit(query, k, i + m)
             v == Val(n)
             at == (i + m) + Len(Token(Name(n)))
             s == w[at]
  <2>4. n \in 1 .. k /\ n \in 1 .. size(params) /\ v \in Seq(Symbols) /\ s \in Seq(Symbols)
    <3>1. i + m \in Nat
      BY <1>0, <1>4
    <3>2. n \in 1 .. k /\ n \in 1 .. size(params) /\ v \in Seq(Symbols) /\ at \in (i + m) + 1 .. Len(query)
      BY <1>0, <2>3, <3>1, BehindHit
    <3>3. at \in 0 .. Len(query)
      BY <3>1, <3>2
    <3> QED BY <3>2, <3>3
  <2>5. r = v \o s
    <3>1. i + m \in 0 .. Len(query)
      BY <1>0, <1>4
    <3> QED BY <2>3, <3>1, WalkHits DEF r
  <2> HIDE DEF s
  <2>6. ~EndsWithin(t, v)
    <3>1. k + 1 \in n + 1 .. size(params)
      BY <1>0, <2>4
    <3> QED BY <2>4, <3>1 DEF Ready, ValuesStandApart, StandsApart, Name, Val, name, t
  <2> HIDE DEF v, n
  <2>7. Len(v) \in Nat /\ Len(v) <= Len(r) /\ \A j \in 1 .. Len(v) : r[j] = v[j]
    <3>1. /\ Len(v \o s) = Len(v) + Len(s) /\ Len(v) \in Nat /\ Len(s) \in Nat
          /\ \A j \in 1 .. Len(v) : (v \o s)[j] = v[j]
      BY <2>4, Joined
    <3> QED BY <2>5, <3>1
  <2>8. ASSUME NEW j \in 1 .. Len(v), m + j <= Len(t) PROVE v[j] = t[m + j]
    <3> DEFINE d == m + j - 1
    <3>1. d \in 0 .. Len(t) - 1 /\ d + 1 = m + j /\ j \in 1 .. Len(r)
      BY <1>2, <1>4, <1>10, <2>7, <2>8
    <3> HIDE DEF d
    <3>2. wi[d + 1] = t[d + 1]
      BY <1>11, <3>1
    <3> QED BY <1>10, <2>7, <3>1, <3>2
  <2> QED BY <2>1, <2>6, <2>8 DEF EndsWithin
<1> QED BY <1>2, <1>4, <1>12, <1>13

(***************************************************************************)
(* One parameter after the other                                            *)
(***************************************************************************)

\* In every place of the walk, the next parameter is replaced.
Replaced(w, query, k) ==
  [i \in 0 .. Len(query) |-> replace(w[i], Token(Name(k + 1)), Val(k + 1))]

\* That is the walk with one parameter more.
LEMMA OneMore ==
  ASSUME Ready, NEW query \in Seq(Symbols), NEW k \in 0 .. size(params) - 1,
         NEW w \in [0 .. Len(query) -> Seq(Symbols)], Walks(w, query, k)
  PROVE  Walks(Replaced(w, query, k), query, k + 1)
<1> DEFINE t == Token(Name(k + 1))
           v == Val(k + 1)
           g == Replaced(w, query, k)
           n == Len(query)
<1>0. ListInv /\ size(params) \in Nat /\ n \in Nat /\ k \in 0 .. size(params) /\ k + 1 \in 0 .. size(params)
      /\ k + 1 \in 1 .. size(params) /\ k \in Nat
  BY SizeIs DEF Ready
<1>1. t \in Seq(Symbols) /\ t # <<>> /\ v \in Seq(Symbols)
  BY <1>0, ParamIs DEF IsToken
<1>2. \A i \in 0 .. n : g[i] = replace(w[i], t, v)
  BY DEF Replaced
<1>3. \A i \in 0 .. n : w[i] \in Seq(Symbols)
  OBVIOUS
<1> HIDE DEF g, t, v, n
<1>4. ASSUME NEW i \in 0 .. n
      PROVE  g[i] = IF i = n THEN <<>>
                    ELSE IF HitsAt(query, k + 1, i) = {} THEN <<CharAt(query, i)>> \o g[i + 1]
                    ELSE Val(LongestHit(query, k + 1, i))
                           \o g[i + Len(Token(Name(LongestHit(query, k + 1, i))))]
  <2>0. i \in Nat /\ i \in 0 .. Len(query)
    BY DEF n
  <2>1. CASE i = n
    <3>1. w[i] = <<>>
      BY <2>1, WalkEnds DEF n
    <3> QED BY <1>1, <1>2, <2>1, <3>1, ReplaceNothing
  <2>2. CASE i # n /\ HitsAt(query, k, i) # {}
    <3> DEFINE h == LongestHit(query, k, i)
               at == i + Len(Token(Name(h)))
               x == Val(h)
               r == w[at]
    <3>1. h \in 1 .. k /\ x \in Seq(Symbols) /\ at \in i + 1 .. n
      BY <1>0, <2>0, <2>2, BehindHit DEF n
    <3>2. HitsAt(query, k + 1, i) # {} /\ LongestHit(query, k + 1, i) = h
      BY <1>0, <2>0, <2>2, HitStays
    <3>3. w[i] = x \o r
      BY <2>0, <2>2, WalkHits DEF n
    <3>4. at \in 0 .. n
      BY <1>0, <2>0, <3>1
    <3>5. r \in Seq(Symbols) /\ g[at] = replace(r, t, v)
      BY <1>2, <1>3, <3>4
    <3>6. NoneBefore(x \o r, t, Len(x))
      BY <3>1, <3>5, NotInValue DEF t
    <3> HIDE DEF r, x
    <3>7. replace(x \o r, t, v) = x \o replace(r, t, v)
      BY <1>1, <3>1, <3>5, <3>6, ReplacePasses, SMTT(20)
    <3>8. g[i] = x \o g[at]
      BY <1>2, <3>3, <3>5, <3>7
    <3> QED BY <2>2, <3>2, <3>8 DEF x
  <2>3. CASE i # n /\ HitsAt(query, k, i) = {} /\ HitsAt(query, k + 1, i) # {}
    <3> DEFINE at == i + Len(t)
               r == w[at]
    <3>1. LongestHit(query, k + 1, i) = k + 1 /\ OccursAt(query, Token(Name(k + 1)), i)
      BY <1>0, <2>0, <2>3, HitIsNew
    <3>2. at \in 0 .. n /\ w[i] = t \o r
      <4> DEFINE o == k + 1
      <4>1. o \in 1 .. size(params) /\ OccursAt(query, Token(Name(o)), i) /\ HitsAt(query, k, i) = {}
            /\ k \in 0 .. size(params) /\ i \in 0 .. Len(query)
        BY <1>0, <2>0, <2>3, <3>1
      <4> HIDE DEF o, at, r
      <4>2. CopiesToken(w, query, i, Token(Name(o)))
        BY <4>1, TokenIsCopied
      <4> QED BY <4>2 DEF CopiesToken, t, n, o, at, r
    <3>3. r \in Seq(Symbols) /\ g[at] = replace(r, t, v)
      BY <1>2, <1>3, <3>2
    <3> HIDE DEF r
    <3>4. replace(t \o r, t, v) = v \o replace(r, t, v)
      BY <1>1, <3>3, ReplaceFirst
    <3>5. g[i] = v \o g[at]
      BY <1>2, <3>2, <3>3, <3>4
    <3> QED BY <2>3, <3>1, <3>5 DEF t, v
  <2>4. CASE i # n /\ HitsAt(query, k + 1, i) = {}
    <3> DEFINE c == <<CharAt(query, i)>>
               r == w[i + 1]
    <3>1. HitsAt(query, k, i) = {}
      BY <1>0, <2>4, FewerHits
    <3>2. i + 1 \in 0 .. n /\ i \in 0 .. Len(query) - 1 /\ i + 1 \in 1 .. Len(query)
      BY <1>0, <2>0, <2>4 DEF n
    <3>3. w[i] = c \o r
      BY <2>0, <2>4, <3>1, WalkCopies DEF n
    <3>4. r \in Seq(Symbols) /\ g[i + 1] = replace(r, t, v)
      BY <1>2, <1>3, <3>2
    <3>5. c \in Seq(Symbols) /\ Len(c) = 1
      BY <3>2 DEF CharAt
    <3>6. ~OccursAt(w[i], t, 0)
      BY <2>4, <3>2, NotMade DEF t
    <3> HIDE DEF c, r
    <3>7. NoneBefore(c \o r, t, Len(c))
      <4>1. \A j \in 0 .. Len(c) - 1 : j = 0
        BY <3>5
      <4> QED BY <3>3, <3>6, <4>1 DEF NoneBefore
    <3>8. replace(c \o r, t, v) = c \o replace(r, t, v)
      <4>1. c \in Seq(Symbols)
        BY <3>5
      <4> QED BY <1>1, <3>4, <3>7, <4>1, ReplacePasses
    <3>9. g[i] = c \o g[i + 1]
      BY <1>2, <3>3, <3>4, <3>8
    <3> QED BY <2>4, <3>9 DEF c
  <2> QED BY <2>1, <2>2, <2>3, <2>4
<1>5. Walks(g, query, k + 1)
  BY <1>4 DEF Walks, n
<1> QED BY <1>5 DEF g

\* With no parameter replaced it is the query.
LEMMA WalkFromQuery ==
  ASSUME ListInv, NEW query \in Seq(Symbols), NEW w \in [0 .. Len(query) -> Seq(Symbols)],
         Walks(w, query, 0)
  PROVE  w[0] = query
<1> DEFINE n == Len(query)
<1>1. n \in Nat /\ 0 \in 0 .. n /\ 0 + n <= n /\ 0 + n = n /\ 0 \in 0 .. size(params)
  BY SizeIs
<1>2. \A j : HitsAt(query, 0, j) = {}
  BY DEF HitsAt
<1>3. Copies(w, query, 0, n)
  <2> HIDE DEF n
  <2>1. 0 + n <= Len(query) /\ 0 \in 0 .. Len(query)
    BY <1>1 DEF n
  <2> QED BY <1>1, <1>2, <2>1, Copied
<1>4. Part(query, 0, n) = query
  <2>1. Part(query, 0, n) = SubSeq(query, 1, Len(query))
    BY <1>1 DEF Part
  <2> QED BY <2>1, Uncut
<1>5. w[n] = <<>>
  BY WalkEnds
<1>6. query \o <<>> = query
  OBVIOUS
<1>7. w[0] = Part(query, 0, n) \o w[0 + n]
  BY <1>3 DEF Copies
<1> QED BY <1>1, <1>4, <1>5, <1>6, <1>7

\* prepareQuery() takes one step for each parameter.
PrepareLoop(f, query) ==
  f = [n \in 0 .. size(params) |->
         IF n = 0 THEN query
         ELSE replaceInQuery(f[n - 1], params.elems[n].name, bvalues[params.elems[n].object])]

\* The steps, in the terms of this module.
Prepares(f, query) ==
  /\ f[0] = query
  /\ \A n \in 1 .. size(params) : f[n] = replace(f[n - 1], Token(Name(n)), Val(n))

\* There is such a row of queries, and only one: prepareQuery() answers its last.
LEMMA PrepareTakesSteps ==
  ASSUME ListInv, NEW query \in Seq(Symbols)
  PROVE  \E f \in [0 .. size(params) -> Seq(Symbols)] :
           Prepares(f, query) /\ prepareQuery(query) = f[size(params)]
<1> DEFINE N == size(params)
           S == Seq(Symbols)
           step == [n \in 1 .. N |-> [s \in S |-> replace(s, Token(Name(n)), Val(n))]]
<1>0. N \in Nat
  BY SizeIs
<1>1. ASSUME NEW n \in 1 .. N, NEW s \in S PROVE replace(s, Token(Name(n)), Val(n)) \in S
  <2>1. Token(Name(n)) \in Seq(Symbols) /\ Token(Name(n)) # <<>> /\ Val(n) \in Seq(Symbols)
    BY ParamIs DEF IsToken
  <2> QED BY <2>1, ReplaceType
<1>2. /\ step \in [1 .. N -> [S -> S]]
      /\ \A n \in 1 .. N, s \in S : step[n][s] = replace(s, Token(Name(n)), Val(n))
  <2> HIDE DEF N, S
  <2> QED BY <1>1
<1> HIDE DEF step
<1>3. PICK f \in [0 .. N -> S] : Iterates(f, query, N, step)
  <2> HIDE DEF N
  <2> QED BY <1>0, <1>2, IterationExists
<1>4. ASSUME NEW n \in 1 .. N PROVE f[n] = replace(f[n - 1], Token(Name(n)), Val(n))
  <2>1. n - 1 \in 0 .. N
    BY <1>0
  <2>2. f[n - 1] \in S
    BY <2>1
  <2> QED BY <1>2, <1>3, <2>2 DEF Iterates
<1>5. Prepares(f, query)
  BY <1>3, <1>4 DEF Prepares, Iterates
<1>6. PrepareLoop(f, query)
  <2>1. ASSUME NEW n \in 0 .. N
        PROVE  f[n] = IF n = 0 THEN query
                      ELSE replaceInQuery(f[n - 1], params.elems[n].name, bvalues[params.elems[n].object])
    <3>1. CASE n = 0
      BY <1>5, <3>1 DEF Prepares
    <3>2. CASE n # 0
      <4>1. n \in 1 .. N
        BY <1>0, <3>2
      <4> QED BY <1>4, <3>2, <4>1 DEF replaceInQuery, Name, Val
    <3> QED BY <3>1, <3>2
  <2> QED BY <2>1 DEF PrepareLoop
<1> DEFINE g == CHOOSE g : PrepareLoop(g, query)
<1>7. PrepareLoop(g, query)
  BY <1>6
<1>8. prepareQuery(query) = g[N]
  BY Zenon DEF prepareQuery, PrepareLoop
<1> HIDE DEF g
<1>9. g[N] = f[N]
  <2>1. \A n \in 0 .. N :
          g[n] = IF n = 0 THEN query
                 ELSE replaceInQuery(g[n - 1], params.elems[n].name, bvalues[params.elems[n].object])
    BY <1>7 DEF PrepareLoop
  <2>2. g[0] = f[0]
    BY <1>0, <1>5, <2>1 DEF Prepares
  <2>3. ASSUME NEW n \in 1 .. N, g[n - 1] = f[n - 1] PROVE g[n] = f[n]
    <3>1. n \in 0 .. N /\ n # 0
      BY <1>0
    <3> QED BY <1>4, <2>1, <2>3, <3>1 DEF replaceInQuery, Name, Val
  <2> HIDE DEF N
  <2> QED BY <1>0, <2>2, <2>3, StepsAgree
<1> QED BY <1>5, <1>8, <1>9

\* What a query stands for is the walk with all of the parameters.
WithLoop(f, query) ==
  f = [i \in 0 .. Len(query) |->
         IF i = Len(query) THEN <<>>
         ELSE IF HitsAt(query, size(params), i) = {} THEN <<CharAt(query, i)>> \o f[i + 1]
         ELSE Rendered(bvalues[params.elems[LongestHit(query, size(params), i)].object])
                \o f[i + Len(Token(params.elems[LongestHit(query, size(params), i)].name))]]

\* What a query stands for is the walk with all parameters.
LEMMA WithValuesWalks ==
  ASSUME ListInv, NEW query \in Seq(Symbols),
         NEW w \in [0 .. Len(query) -> Seq(Symbols)], Walks(w, query, size(params))
  PROVE  WithValues(query) = w[0]
<1>1. WithLoop(w, query)
  BY DEF WithLoop, Walks, Name, Val
<1> DEFINE from == CHOOSE from : WithLoop(from, query)
<1>2. WithLoop(from, query)
  BY <1>1
<1>3. WithValues(query) = from[0]
  BY Zenon DEF WithValues, WithLoop, HitsAt, LongestHit
<1> HIDE DEF from
<1>4. Walks(from, query, size(params))
  BY <1>2 DEF WithLoop, Walks, Name, Val
<1>5. size(params) \in 0 .. size(params)
  BY SizeIs
<1>6. from[0] = w[0]
  BY <1>4, <1>5, WalkIsOne
<1> QED BY <1>3, <1>6

\* One parameter after the other gives what the query stands for.
LEMMA PreparedIsWithValues ==
  ASSUME Ready, NEW query \in Seq(Symbols)
  PROVE  prepareQuery(query) = WithValues(query)
<1> DEFINE N == size(params)
           P == [0 .. Len(query) -> Seq(Symbols)]
<1>0. ListInv /\ N \in Nat
  BY SizeIs DEF Ready
<1>1. PICK f \in [0 .. N -> Seq(Symbols)] : Prepares(f, query) /\ prepareQuery(query) = f[N]
  BY <1>0, PrepareTakesSteps
<1> DEFINE S == {k \in Nat : k <= N => \E w \in P : Walks(w, query, k) /\ w[0] = f[k]}
<1>2. 0 \in S
  <2>1. 0 \in 0 .. N
    BY <1>0
  <2>2. PICK w \in P : Walks(w, query, 0)
    BY <1>0, <2>1, WalkExists
  <2>3. w[0] = f[0]
    BY <1>0, <1>1, <2>2, WalkFromQuery DEF Prepares
  <2> QED BY <2>2, <2>3
<1>3. ASSUME NEW k \in Nat, k \in S PROVE k + 1 \in S
  <2> SUFFICES ASSUME k + 1 <= N PROVE \E w \in P : Walks(w, query, k + 1) /\ w[0] = f[k + 1]
    OBVIOUS
  <2>1. PICK w \in P : Walks(w, query, k) /\ w[0] = f[k]
    BY <1>0, <1>3
  <2>2. k \in 0 .. N - 1 /\ k + 1 \in 1 .. N /\ (k + 1) - 1 = k
    BY <1>0
  <2> DEFINE g == Replaced(w, query, k)
             t == Token(Name(k + 1))
             v == Val(k + 1)
  <2>3. Walks(g, query, k + 1)
    BY <2>1, <2>2, OneMore
  <2>4. t \in Seq(Symbols) /\ t # <<>> /\ v \in Seq(Symbols)
    BY <1>0, <2>2, ParamIs DEF IsToken
  <2>5. g = [i \in 0 .. Len(query) |-> replace(w[i], t, v)]
    BY DEF Replaced
  <2> HIDE DEF t, v, g
  <2>6. \A i \in 0 .. Len(query) : replace(w[i], t, v) \in Seq(Symbols)
    BY <2>4, ReplaceType
  <2>7. g \in P
    BY <2>5, <2>6
  <2>8. g[0] = f[k + 1]
    <3>1. f[k + 1] = replace(f[k], t, v)
      BY <1>1, <2>2 DEF Prepares, t, v
    <3>2. 0 \in 0 .. Len(query)
      OBVIOUS
    <3> QED BY <2>1, <2>5, <3>1, <3>2
  <2> QED BY <2>3, <2>7, <2>8
<1> HIDE DEF S
<1>4. N \in S
  BY <1>0, <1>2, <1>3, SetInduction
<1>5. PICK w \in P : Walks(w, query, N) /\ w[0] = f[N]
  BY <1>0, <1>4 DEF S
<1>6. WithValues(query) = w[0]
  BY <1>0, <1>5, WithValuesWalks
<1> QED BY <1>1, <1>5, <1>6

(***************************************************************************)
(* The list stays sorted                                                    *)
(***************************************************************************)

\* A list of parameters: there is memory for what it holds.
Entries == [name : Names, object : Nat]

IsList(v) ==
  /\ v \in [elems : Seq(Entries), allocated : Nat, removed : Nat, prealloc : {10}, force : BOOLEAN]
  /\ Len(v.elems) <= v.allocated

\* r is the list v with x behind the first `at` entries.
IsInserted(r, v, at, x) ==
  /\ IsList(r) /\ Len(r.elems) = Len(v.elems) + 1
  /\ \A i \in 1 .. at : r.elems[i] = v.elems[i]
  /\ r.elems[at + 1] = x
  /\ \A i \in at + 1 .. Len(v.elems) : r.elems[i + 1] = v.elems[i]

\* An entry is not NULL.
LEMMA ListFacts ==
  ASSUME NEW v, IsList(v)
  PROVE  /\ Len(v.elems) \in Nat /\ size(v) = Len(v.elems)
         /\ \A n \in 1 .. Len(v.elems) : v.elems[n] \in Entries /\ v.elems[n] # NULL
<1> DEFINE e == v.elems
<1>1. e \in Seq(Entries)
  BY DEF IsList
<1>2. NULL \notin Entries
  BY NullAssumption DEF Entries
<1> HIDE DEF e
<1>3. Len(e) \in Nat /\ \A n \in 1 .. Len(e) : e[n] \in Entries
  BY <1>1
<1> QED BY <1>2, <1>3 DEF size, e

\* A list whose memory is full is given more; nothing is cut off.
LEMMA AddedAtTheEnd ==
  ASSUME NEW v, IsList(v), NEW x \in Entries
  PROVE  IsInserted(addElement(v, x), v, Len(v.elems), x)
<1> DEFINE e == v.elems
           n == Len(e)
           more == v.allocated + v.prealloc
           grown == IF v.allocated <= size(v) THEN resizeVector(v, more) ELSE v
           r == addElement(v, x)
<1>1. e \in Seq(Entries) /\ n \in Nat /\ v.allocated \in Nat /\ v.prealloc = 10 /\ n <= v.allocated
      /\ v \in [elems : Seq(Entries), allocated : Nat, removed : Nat, prealloc : {10}, force : BOOLEAN]
      /\ size(v) = n
  BY ListFacts DEF IsList
<1>2. SubSeq(e, 1, n) = e
  BY <1>1, Uncut
<1>3. more \in Nat /\ n + 1 <= more /\ ~(more < n)
  BY <1>1
<1> HIDE DEF n
<1>4. /\ grown \in [elems : Seq(Entries), allocated : Nat, removed : Nat, prealloc : {10}, force : BOOLEAN]
      /\ grown.elems = e /\ n + 1 <= grown.allocated
  <2>1. CASE v.allocated <= size(v)
    <3>1. grown = [v EXCEPT !.allocated = more, !.elems = SubSeq(@, 1, IF more < Len(@) THEN more ELSE Len(@))]
      BY <2>1 DEF resizeVector
    <3> HIDE DEF more
    <3>2. SubSeq(v.elems, 1, IF more < Len(v.elems) THEN more ELSE Len(v.elems)) = e
      BY <1>2, <1>3 DEF n
    <3>3. grown = [v EXCEPT !.allocated = more, !.elems = e]
      BY <3>1, <3>2
    <3> HIDE DEF grown
    <3> QED BY <1>1, <1>3, <3>3
  <2>2. CASE ~(v.allocated <= size(v))
    <3>1. grown = v
      BY <2>2
    <3> HIDE DEF grown
    <3> QED BY <1>1, <2>2, <3>1
  <2> QED BY <2>1, <2>2
<1>5. r = [grown EXCEPT !.elems = Append(@, x)]
  BY DEF addElement
<1> DEFINE a == Append(e, x)
<1>6. a \in Seq(Entries) /\ Len(a) = n + 1 /\ a[n + 1] = x /\ \A i \in 1 .. n : a[i] = e[i]
  <2> HIDE DEF e
  <2> QED BY <1>1 DEF n
<1> HIDE DEF r, grown, a, e
<1>7. r.elems = a /\ r.allocated = grown.allocated
      /\ r \in [elems : Seq(Entries), allocated : Nat, removed : Nat, prealloc : {10}, force : BOOLEAN]
  BY <1>4, <1>5, <1>6 DEF a
<1>8. IsList(r)
  BY <1>4, <1>6, <1>7 DEF IsList
<1>9. n + 1 .. n = {}
  BY <1>1
<1>10. IsInserted(r, v, n, x)
  BY <1>6, <1>7, <1>8, <1>9 DEF IsInserted, n, e
<1> QED BY <1>10 DEF r, n, e

\* What comes behind a new entry moves up.
LEMMA InsertedBefore ==
  ASSUME NEW v, IsList(v), NEW at \in Nat, at < Len(v.elems), NEW x \in Entries
  PROVE  IsInserted(insertAt(v, at, x), v, at, x)
<1> DEFINE e == v.elems
           n == Len(e)
           noted == [v EXCEPT !.removed = OneFewer(@)]
           head == SubSeq(e, 1, at)
           one == <<x>>
           m == n - 1
           rest == SubSeq(e, at + 1, m)
           shifted == head \o one \o rest
           u == [noted EXCEPT !.elems = shifted]
           last == e[n]
           r == addElement(u, last)
<1>1. e \in Seq(Entries) /\ n \in Nat /\ at + 1 \in 1 .. n /\ m \in Nat /\ at <= m /\ n = m + 1
      /\ v \in [elems : Seq(Entries), allocated : Nat, removed : Nat, prealloc : {10}, force : BOOLEAN]
      /\ n <= v.allocated /\ size(v) = n
  BY ListFacts DEF IsList
<1>2. \A i \in 1 .. n : e[i] \in Entries /\ e[i] # NULL
  BY ListFacts
<1>3. InBounds(v, at) /\ e[at + 1] # NULL /\ Holes(v, at + 1) = {}
  <2>1. \A i \in at + 1 .. n : i \in 1 .. n
    BY <1>1
  <2> QED BY <1>1, <1>2, <2>1 DEF InBounds, Holes
<1>4. insertAt(v, at, x) = r
  BY <1>3 DEF insertAt
<1>5. head \in Seq(Entries) /\ Len(head) = at /\ \A i \in 1 .. at : head[i] = e[i]
  <2>1. at \in 0 .. Len(e)
    BY <1>1
  <2> HIDE DEF e
  <2> QED BY <1>1, <2>1, FirstPart
<1>6. rest \in Seq(Entries) /\ Len(rest) = m - at /\ \A i \in 1 .. m - at : rest[i] = e[at + i]
  <2> DEFINE a == at + 1
  <2>1. /\ a \in Nat \ {0} /\ m \in Nat /\ a <= m + 1 /\ m <= Len(e) /\ m - a + 1 = m - at
        /\ \A i \in 1 .. m - at : a + i - 1 = at + i
    BY <1>1
  <2> HIDE DEF a, m, e
  <2>2. /\ SubSeq(e, a, m) \in Seq(Entries) /\ Len(SubSeq(e, a, m)) = m - a + 1
        /\ \A i \in 1 .. m - a + 1 : SubSeq(e, a, m)[i] = e[a + i - 1]
    BY <1>1, <2>1, PieceOf
  <2> QED BY <2>1, <2>2 DEF a
<1>7. one \in Seq(Entries) /\ Len(one) = 1 /\ one[1] = x
  OBVIOUS
<1> HIDE DEF head, rest, one, m
<1>8. /\ shifted \in Seq(Entries) /\ Len(shifted) = Len(head) + Len(one) + Len(rest)
      /\ \A i \in 1 .. Len(head) : shifted[i] = head[i]
      /\ \A i \in 1 .. Len(one) : shifted[Len(head) + i] = one[i]
      /\ \A i \in 1 .. Len(rest) : shifted[Len(head) + Len(one) + i] = rest[i]
  <2>1. head \in Seq(Entries) /\ one \in Seq(Entries) /\ rest \in Seq(Entries)
    BY <1>5, <1>6, <1>7
  <2> QED BY <2>1, JoinedThree
<1> HIDE DEF shifted
<1>9. /\ Len(shifted) = n /\ shifted[at + 1] = x
      /\ \A i \in 1 .. at : shifted[i] = e[i]
      /\ \A i \in at + 1 .. m : shifted[i + 1] = e[i]
  <2>1. Len(shifted) = n
    BY <1>1, <1>5, <1>6, <1>7, <1>8
  <2>2. shifted[at + 1] = x
    <3>1. 1 \in 1 .. Len(one)
      BY <1>7
    <3> QED BY <1>5, <1>7, <1>8, <3>1
  <2>3. \A i \in 1 .. at : shifted[i] = e[i]
    BY <1>5, <1>8
  <2>4. ASSUME NEW i \in at + 1 .. m PROVE shifted[i + 1] = e[i]
    <3> DEFINE d == i - at
    <3>1. d \in 1 .. m - at /\ at + d = i /\ at + 1 + d = i + 1
      BY <1>1
    <3> HIDE DEF d
    <3>2. d \in 1 .. Len(rest) /\ rest[d] = e[at + d]
      BY <1>6, <3>1
    <3>3. shifted[at + 1 + d] = rest[d]
      BY <1>5, <1>7, <1>8, <3>2
    <3> QED BY <3>1, <3>2, <3>3
  <2> QED BY <2>1, <2>2, <2>3, <2>4
<1>10. IsList(u) /\ u.elems = shifted
  <2>1. OneFewer(v.removed) \in Nat
    BY <1>1 DEF OneFewer
  <2>2. noted \in [elems : Seq(Entries), allocated : Nat, removed : Nat, prealloc : {10}, force : BOOLEAN]
        /\ noted.allocated = v.allocated
    BY <1>1, <2>1
  <2> HIDE DEF noted
  <2>3. u \in [elems : Seq(Entries), allocated : Nat, removed : Nat, prealloc : {10}, force : BOOLEAN]
        /\ u.allocated = v.allocated /\ u.elems = shifted
    BY <1>8, <2>2
  <2> HIDE DEF u
  <2> QED BY <1>1, <1>9, <2>3 DEF IsList
<1> HIDE DEF u, noted
<1>11. last \in Entries
  <2>1. n \in 1 .. n
    BY <1>1
  <2> QED BY <1>2, <2>1
<1> HIDE DEF last
<1>12. IsInserted(r, u, Len(u.elems), last)
  BY <1>10, <1>11, AddedAtTheEnd
<1> HIDE DEF r, n, e
<1>13. /\ IsList(r) /\ Len(r.elems) = n + 1 /\ r.elems[n + 1] = last
       /\ \A i \in 1 .. n : r.elems[i] = shifted[i]
  BY <1>9, <1>10, <1>12 DEF IsInserted
<1>14. \A i \in 1 .. at : r.elems[i] = e[i]
  BY <1>1, <1>9, <1>13
<1>15. r.elems[at + 1] = x
  BY <1>1, <1>9, <1>13
<1>16. ASSUME NEW i \in at + 1 .. n PROVE r.elems[i + 1] = e[i]
  <2>1. CASE i = n
    BY <1>13, <2>1 DEF last
  <2>2. CASE i # n
    <3>1. i \in at + 1 .. m /\ i + 1 \in 1 .. n
      BY <1>1, <2>2
    <3> QED BY <1>9, <1>13, <3>1
  <2> QED BY <2>1, <2>2
<1>17. IsInserted(r, v, at, x)
  BY <1>13, <1>14, <1>15, <1>16 DEF IsInserted, n, e
<1> QED BY <1>4, <1>17

\* The names of a list, the longest first and none twice.
LongestFirst(v) ==
  \A n, m \in 1 .. Len(v.elems) :
    n < m => /\ Len(v.elems[n].name) >= Len(v.elems[m].name)
             /\ v.elems[n].name # v.elems[m].name

\* Where a name belongs: behind the longer ones.
Belongs(name, v, at) ==
  /\ at \in 0 .. Len(v.elems)
  /\ \A i \in 1 .. at : Len(v.elems[i].name) > Len(name)
  /\ \A i \in at + 1 .. Len(v.elems) : Len(v.elems[i].name) <= Len(name)

\* Names have a length.
LEMMA NamesHaveLength ==
  ASSUME NEW v, IsList(v)
  PROVE  /\ \A name \in Names : Len(name) \in Nat
         /\ \A n \in 1 .. Len(v.elems) : v.elems[n].name \in Names /\ Len(v.elems[n].name) \in Nat
                                         /\ v.elems[n].object \in Nat
<1>1. \A name \in Names : Len(name) \in Nat
  <2> SUFFICES ASSUME NEW name \in Names PROVE Len(name) \in Nat
    OBVIOUS
  <2>1. name \in Seq(Symbols)
    BY TextsAssumption
  <2> QED BY <2>1
<1>2. \A n \in 1 .. Len(v.elems) : v.elems[n] \in Entries
  BY ListFacts
<1>3. \A entry \in Entries : entry.name \in Names /\ entry.object \in Nat
  BY DEF Entries
<1> QED BY <1>1, <1>2, <1>3

\* A new parameter goes where its name belongs.
LEMMA InsertedWhereItBelongs ==
  ASSUME NEW v, IsList(v), LongestFirst(v), NEW name \in Names, NEW object \in Nat
  PROVE  \E at \in 0 .. Len(v.elems) :
           /\ Belongs(name, v, at)
           /\ IsInserted(insertObjectSortedByLength(v, name, object, FALSE), v, at, Entry(name, object))
<1> DEFINE N == Len(v.elems)
           x == Entry(name, object)
           later == {n \in Filled(v) : MayStandBefore(name, v.elems[n], FALSE)}
           r == insertObjectSortedByLength(v, name, object, FALSE)
<1>1. N \in Nat /\ Filled(v) = 1 .. N
  BY ListFacts DEF Filled
<1>2. later = {n \in 1 .. N : Len(name) >= Len(v.elems[n].name)}
  BY <1>1 DEF MayStandBefore
<1>3. x \in Entries
  BY DEF Entry, Entries
<1>4. /\ Len(name) \in Nat /\ \A n \in 1 .. N : Len(v.elems[n].name) \in Nat
      /\ \A n, m \in 1 .. N : n < m => Len(v.elems[n].name) >= Len(v.elems[m].name)
  BY NamesHaveLength DEF LongestFirst
<1>5. r = IF later = {} THEN addElement(v, x) ELSE insertAt(v, Least(later) - 1, x)
  BY DEF insertObjectSortedByLength
<1> SUFFICES \E at \in 0 .. N : Belongs(name, v, at) /\ IsInserted(r, v, at, x)
  OBVIOUS
<1> HIDE DEF r, x, later
<1>6. CASE later = {}
  <2>1. IsInserted(r, v, N, x)
    BY <1>3, <1>5, <1>6, AddedAtTheEnd
  <2>2. Belongs(name, v, N)
    <3>1. \A i \in 1 .. N : Len(v.elems[i].name) > Len(name)
      BY <1>2, <1>4, <1>6
    <3> QED BY <1>1, <3>1 DEF Belongs
  <2>3. N \in 0 .. N
    BY <1>1
  <2> QED BY <2>1, <2>2, <2>3
<1>7. CASE later # {}
  <2> DEFINE first == Least(later)
             at == first - 1
  <2>1. first \in later /\ \A n \in later : first <= n
    <3>1. later \in SUBSET Nat
      BY <1>2
    <3>2. \E n \in later : \A y \in later : n <= y
      BY <1>7, <3>1, LeastExists
    <3> QED BY <3>2 DEF Least
  <2> HIDE DEF first
  <2>2. first \in 1 .. N /\ at \in Nat /\ at < N /\ at + 1 = first
    BY <1>1, <1>2, <2>1
  <2>3. IsInserted(r, v, at, x)
    BY <1>3, <1>5, <1>7, <2>2, InsertedBefore DEF first
  <2>4. \A i \in 1 .. at : Len(v.elems[i].name) > Len(name)
    <3> SUFFICES ASSUME NEW i \in 1 .. at PROVE Len(v.elems[i].name) > Len(name)
      OBVIOUS
    <3>1. i \in 1 .. N /\ ~(first <= i)
      BY <1>1, <2>2
    <3>2. i \notin later
      BY <2>1, <3>1
    <3> QED BY <1>2, <1>4, <3>1, <3>2
  <2>5. \A i \in at + 1 .. N : Len(v.elems[i].name) <= Len(name)
    <3> SUFFICES ASSUME NEW i \in at + 1 .. N PROVE Len(v.elems[i].name) <= Len(name)
      OBVIOUS
    <3>1. i \in 1 .. N /\ (i = first \/ first < i)
      BY <1>1, <2>2
    <3>2. Len(v.elems[first].name) <= Len(name)
      BY <1>2, <1>4, <2>1, <2>2
    <3> QED BY <1>4, <2>2, <3>1, <3>2
  <2> HIDE DEF at
  <2>6. Belongs(name, v, at)
    BY <1>1, <2>2, <2>4, <2>5 DEF Belongs
  <2>7. at \in 0 .. N
    BY <2>6 DEF Belongs
  <2> QED BY <2>3, <2>6, <2>7
<1> QED BY <1>6, <1>7

\* An entry of the longer list is one of the shorter, or the new one.
Origin(r, v, at, x, j) ==
  \/ j \in 1 .. at /\ r.elems[j] = v.elems[j]
  \/ j = at + 1 /\ r.elems[j] = x
  \/ j - 1 \in at + 1 .. Len(v.elems) /\ r.elems[j] = v.elems[j - 1]

\* Every entry has its origin.
LEMMA EntriesComeFrom ==
  ASSUME NEW v, IsList(v), NEW at \in 0 .. Len(v.elems), NEW x, NEW r, IsInserted(r, v, at, x)
  PROVE  \A j \in 1 .. Len(r.elems) : Origin(r, v, at, x, j)
<1> DEFINE N == Len(v.elems)
<1>1. N \in Nat /\ at \in 0 .. N
  BY ListFacts
<1> SUFFICES ASSUME NEW j \in 1 .. Len(r.elems) PROVE Origin(r, v, at, x, j)
  OBVIOUS
<1>2. /\ Len(r.elems) = N + 1 /\ r.elems[at + 1] = x
      /\ \A i \in 1 .. at : r.elems[i] = v.elems[i]
      /\ \A i \in at + 1 .. N : r.elems[i + 1] = v.elems[i]
  BY DEF IsInserted
<1> HIDE DEF N
<1>3. CASE j \in 1 .. at
  BY <1>2, <1>3 DEF Origin
<1>4. CASE j = at + 1
  BY <1>2, <1>4 DEF Origin
<1>5. CASE ~(j \in 1 .. at) /\ j # at + 1
  <2> DEFINE i == j - 1
  <2>1. i \in at + 1 .. N /\ i + 1 = j
    BY <1>1, <1>2, <1>5
  <2> QED BY <1>2, <2>1 DEF Origin, N
<1> QED BY <1>3, <1>4, <1>5

\* A list into which a name came that it did not have is still sorted.
LEMMA StaysSorted ==
  ASSUME NEW v, IsList(v), LongestFirst(v), NEW name \in Names, NEW object \in Nat, NEW at, NEW r,
         Belongs(name, v, at), IsInserted(r, v, at, Entry(name, object)),
         \A n \in 1 .. Len(v.elems) : v.elems[n].name # name
  PROVE  LongestFirst(r)
<1> DEFINE N == Len(v.elems)
           x == Entry(name, object)
<1>1. N \in Nat /\ at \in 0 .. N /\ x.name = name
  BY ListFacts DEF Belongs, Entry
<1>2. /\ Len(name) \in Nat /\ \A n \in 1 .. N : Len(v.elems[n].name) \in Nat
      /\ \A n, m \in 1 .. N : n < m => /\ Len(v.elems[n].name) >= Len(v.elems[m].name)
                                       /\ v.elems[n].name # v.elems[m].name
  BY NamesHaveLength DEF LongestFirst
<1>3. /\ \A i \in 1 .. at : Len(v.elems[i].name) > Len(name)
      /\ \A i \in at + 1 .. N : Len(v.elems[i].name) <= Len(name)
  BY DEF Belongs
<1>4. \A j \in 1 .. Len(r.elems) : Origin(r, v, at, x, j)
  BY <1>1, EntriesComeFrom
<1> SUFFICES ASSUME NEW n \in 1 .. Len(r.elems), NEW m \in 1 .. Len(r.elems), n < m
             PROVE  /\ Len(r.elems[n].name) >= Len(r.elems[m].name)
                    /\ r.elems[n].name # r.elems[m].name
  BY DEF LongestFirst
<1>5. Origin(r, v, at, x, n) /\ Origin(r, v, at, x, m) /\ n \in Int /\ m \in Int
  BY <1>4
<1> HIDE DEF x
<1>6. CASE n \in 1 .. at /\ r.elems[n] = v.elems[n]
  <2>1. n \in 1 .. N
    BY <1>1, <1>6
  <2>2. CASE m \in 1 .. at /\ r.elems[m] = v.elems[m]
    <3>1. m \in 1 .. N
      BY <1>1, <2>2
    <3> QED BY <1>2, <1>6, <2>1, <2>2, <3>1
  <2>3. CASE m = at + 1 /\ r.elems[m] = x
    BY <1>1, <1>2, <1>3, <1>6, <2>1, <2>3
  <2>4. CASE m - 1 \in at + 1 .. N /\ r.elems[m] = v.elems[m - 1]
    <3> DEFINE b == m - 1
    <3>1. b \in 1 .. N /\ n < b /\ r.elems[m] = v.elems[b]
      BY <1>1, <1>6, <2>4
    <3> QED BY <1>2, <1>6, <2>1, <3>1
  <2> QED BY <1>5, <2>2, <2>3, <2>4 DEF Origin
<1>7. CASE n = at + 1 /\ r.elems[n] = x
  <2>1. m - 1 \in at + 1 .. N /\ r.elems[m] = v.elems[m - 1]
    BY <1>1, <1>5, <1>7 DEF Origin
  <2> DEFINE b == m - 1
  <2>2. b \in 1 .. N /\ b \in at + 1 .. N /\ r.elems[m] = v.elems[b]
    BY <1>1, <2>1
  <2> HIDE DEF b
  <2> QED BY <1>1, <1>2, <1>3, <1>7, <2>2
<1>8. CASE n - 1 \in at + 1 .. N /\ r.elems[n] = v.elems[n - 1]
  <2>1. m - 1 \in at + 1 .. N /\ r.elems[m] = v.elems[m - 1]
    BY <1>1, <1>5, <1>8 DEF Origin
  <2> DEFINE a == n - 1
             b == m - 1
  <2>2. a \in 1 .. N /\ b \in 1 .. N /\ a < b /\ r.elems[n] = v.elems[a] /\ r.elems[m] = v.elems[b]
    BY <1>1, <1>5, <1>8, <2>1
  <2> HIDE DEF a, b
  <2> QED BY <1>2, <2>2
<1> QED BY <1>5, <1>6, <1>7, <1>8 DEF Origin

\* What ListInv says of params, as it is said of any list.
LEMMA ListIs ==
  ListInv <=> /\ IsList(params) /\ LongestFirst(params)
              /\ bvalues \in Seq(Given)
              /\ \A n \in 1 .. Len(params.elems) : params.elems[n].object \in 1 .. Len(bvalues)
BY DEF ListInv, IsList, LongestFirst, Entries, Name, size

\* A parameter that is found has a value; otherwise no entry has the name.
LEMMA FoundOrNew ==
  ASSUME ListInv, NEW name
  PROVE  LET found == getObjectByString(params, name)
         IN  IF found = NULL THEN \A n \in 1 .. Len(params.elems) : params.elems[n].name # name
             ELSE found \in 1 .. Len(bvalues)
<1> DEFINE N == Len(params.elems)
           named == {n \in Filled(params) : params.elems[n].name = name}
           found == getObjectByString(params, name)
<1>1. IsList(params) /\ bvalues \in Seq(Given)
      /\ \A n \in 1 .. N : params.elems[n].object \in 1 .. Len(bvalues)
  BY ListIs
<1>2. N \in Nat /\ Filled(params) = 1 .. N
  BY <1>1, ListFacts DEF Filled
<1>3. found = IF named = {} THEN NULL ELSE params.elems[Least(named)].object
  BY DEF getObjectByString
<1>4. named = {n \in 1 .. N : params.elems[n].name = name}
  BY <1>2
<1>5. Len(bvalues) \in Nat
  BY <1>1
<1> SUFFICES IF found = NULL THEN \A n \in 1 .. N : params.elems[n].name # name
             ELSE found \in 1 .. Len(bvalues)
  OBVIOUS
<1> HIDE DEF found, named
<1>6. CASE named = {}
  BY <1>3, <1>4, <1>6
<1>7. CASE named # {}
  <2>1. named \in SUBSET Nat
    BY <1>4
  <2>2. \E n \in named : \A y \in named : n <= y
    BY <1>7, <2>1, LeastExists
  <2>3. Least(named) \in 1 .. N
    BY <1>4, <2>2 DEF Least
  <2>4. found \in 1 .. Len(bvalues)
    BY <1>1, <1>3, <1>7, <2>3
  <2>5. found # NULL
    BY <1>5, <2>4, NullAssumption
  <2> QED BY <2>4, <2>5
<1> QED BY <1>6, <1>7

\* A parameter that is there is given another value.
LEMMA ValueIsSet ==
  ASSUME ListInv, NEW name \in Names, NEW value \in Values[name], NEW found \in 1 .. Len(bvalues),
         bvalues' = [bvalues EXCEPT ![found] = value], UNCHANGED params
  PROVE  ListInv'
<1>1. IsList(params) /\ LongestFirst(params) /\ bvalues \in Seq(Given)
      /\ \A n \in 1 .. Len(params.elems) : params.elems[n].object \in 1 .. Len(bvalues)
  BY ListIs
<1>2. value \in Given
  BY DEF Given
<1>3. bvalues' \in Seq(Given) /\ Len(bvalues') = Len(bvalues)
  BY <1>1, <1>2
<1> QED BY <1>1, <1>3 DEF ListInv, IsList, LongestFirst, Entries, Name, size

\* A parameter that is new goes behind the longer ones, its value behind the others.
LEMMA ValueIsAdded ==
  ASSUME ListInv, NEW name \in Names, NEW value \in Values[name],
         \A n \in 1 .. Len(params.elems) : params.elems[n].name # name,
         bvalues' = Append(bvalues, value),
         params' = insertObjectSortedByLength(params, name, Len(bvalues) + 1, FALSE)
  PROVE  ListInv'
<1> DEFINE b == Len(bvalues)
           new == b + 1
           x == Entry(name, new)
           r == insertObjectSortedByLength(params, name, new, FALSE)
<1>1. IsList(params) /\ LongestFirst(params) /\ bvalues \in Seq(Given)
      /\ \A n \in 1 .. Len(params.elems) : params.elems[n].object \in 1 .. b
  BY ListIs
<1>2. value \in Given
  BY DEF Given
<1>3. b \in Nat /\ new \in Nat /\ new = b + 1 /\ bvalues' \in Seq(Given) /\ Len(bvalues') = new
  BY <1>1, <1>2
<1>4. x.object = new
  BY DEF Entry
<1>5. params' = r
  OBVIOUS
<1> HIDE DEF b, new
<1>6. PICK at \in 0 .. Len(params.elems) : Belongs(name, params, at) /\ IsInserted(r, params, at, x)
  BY <1>1, <1>3, InsertedWhereItBelongs
<1>7. IsList(r) /\ LongestFirst(r)
  <2>1. IsList(r)
    BY <1>6 DEF IsInserted
  <2>2. LongestFirst(r)
    BY <1>1, <1>3, <1>6, StaysSorted
  <2> QED BY <2>1, <2>2
<1>8. \A n \in 1 .. Len(r.elems) : r.elems[n].object \in 1 .. new
  <2>1. \A n \in 1 .. Len(r.elems) : Origin(r, params, at, x, n)
    BY <1>1, <1>6, EntriesComeFrom
  <2>2. Len(params.elems) \in Nat
    BY <1>1, ListFacts
  <2> HIDE DEF r, x
  <2> SUFFICES ASSUME NEW n \in 1 .. Len(r.elems) PROVE r.elems[n].object \in 1 .. new
    OBVIOUS
  <2>3. CASE n \in 1 .. at /\ r.elems[n] = params.elems[n]
    <3>1. n \in 1 .. Len(params.elems)
      BY <2>2, <2>3
    <3> QED BY <1>1, <1>3, <2>3, <3>1
  <2>4. CASE n = at + 1 /\ r.elems[n] = x
    BY <1>3, <1>4, <2>4
  <2>5. CASE n - 1 \in at + 1 .. Len(params.elems) /\ r.elems[n] = params.elems[n - 1]
    <3> DEFINE m == n - 1
    <3>1. m \in 1 .. Len(params.elems) /\ r.elems[n] = params.elems[m]
      BY <2>2, <2>5
    <3> HIDE DEF m
    <3> QED BY <1>1, <1>3, <3>1
  <2> QED BY <2>1, <2>3, <2>4, <2>5 DEF Origin
<1> HIDE DEF r, x
<1>9. IsList(params') /\ LongestFirst(params') /\ bvalues' \in Seq(Given)
      /\ \A n \in 1 .. Len(params'.elems) : params'.elems[n].object \in 1 .. Len(bvalues')
  BY <1>3, <1>7, <1>8, <1>5
<1> QED BY <1>9 DEF ListInv, IsList, LongestFirst, Entries, Name, size

(***************************************************************************)
(* Every step                                                               *)
(***************************************************************************)

\* Between any two calls the parameters are in order, and the query is a text.
QueryInv == ListInv /\ sCurrentQuery \in Seq(Symbols)

\* There are no parameters at the start.
LEMMA InitQueryInv == Init => QueryInv
<1> SUFFICES ASSUME Init PROVE QueryInv
  OBVIOUS
<1> DEFINE none == <<>>
<1>1. params = resizeVector(EmptyVector(10), 10) /\ bvalues = none /\ sCurrentQuery = none
  BY DEF Init
<1>2. none \in Seq(Entries) /\ none \in Seq(Given) /\ none \in Seq(Symbols) /\ Len(none) = 0
      /\ SubSeq(none, 1, 0) = none
  OBVIOUS
<1>3. params = [elems |-> none, allocated |-> 10, removed |-> 0, prealloc |-> 10, force |-> FALSE]
  <2> DEFINE v == [elems |-> none, allocated |-> 0, removed |-> 0, prealloc |-> 10, force |-> FALSE]
  <2>1. EmptyVector(10) = v
    BY DEF EmptyVector
  <2>2. params = [v EXCEPT !.allocated = 10,
                           !.elems = SubSeq(@, 1, IF 10 < Len(@) THEN 10 ELSE Len(@))]
    BY <1>1, <2>1 DEF resizeVector
  <2>3. SubSeq(v.elems, 1, IF 10 < Len(v.elems) THEN 10 ELSE Len(v.elems)) = none
    <3> HIDE DEF none
    <3> QED BY <1>2
  <2>4. params = [v EXCEPT !.allocated = 10, !.elems = none]
    BY <2>2, <2>3
  <2> HIDE DEF none
  <2> QED BY <2>4
<1> HIDE DEF none
<1>4. IsList(params) /\ Len(params.elems) = 0
  BY <1>2, <1>3 DEF IsList
<1>5. LongestFirst(params) /\ \A n \in 1 .. Len(params.elems) : params.elems[n].object \in 1 .. Len(bvalues)
  BY <1>4 DEF LongestFirst
<1>6. ListInv
  BY <1>1, <1>2, <1>4, <1>5, ListIs
<1> QED BY <1>1, <1>2, <1>6 DEF QueryInv

\* A step that gives no parameter leaves the list as it is.
LEMMA ListStays == ListInv /\ UNCHANGED <<params, bvalues>> => ListInv'
BY DEF ListInv, Name, size

\* Giving a parameter keeps it so,
LEMMA SetParamInv ==
  ASSUME QueryInv, NEW name \in Names, NEW value \in Values[name], SetParam(name, value)
  PROVE  QueryInv'
<1> DEFINE found == getObjectByString(params, name)
<1>1. /\ IF found # NULL
         THEN bvalues' = [bvalues EXCEPT ![found] = value] /\ UNCHANGED params
         ELSE /\ bvalues' = Append(bvalues, value)
              /\ params' = insertObjectSortedByLength(params, name, Len(bvalues) + 1, FALSE)
      /\ sCurrentQuery' = sCurrentQuery
  BY DEF SetParam
<1>2. ListInv /\ sCurrentQuery \in Seq(Symbols)
  BY DEF QueryInv
<1>3. IF found = NULL THEN \A n \in 1 .. Len(params.elems) : params.elems[n].name # name
      ELSE found \in 1 .. Len(bvalues)
  BY <1>2, FoundOrNew
<1> HIDE DEF found
<1>4. CASE found = NULL
  BY <1>1, <1>2, <1>3, <1>4, ValueIsAdded DEF QueryInv
<1>5. CASE found # NULL
  BY <1>1, <1>2, <1>3, <1>5, ValueIsSet DEF QueryInv
<1> QED BY <1>4, <1>5

\* and so does open(), which leaves the prepared query for the next.
LEMMA OpenCallQueryInv ==
  ASSUME QueryInv, NEW errData \in BOOLEAN, OpenCall(errData)
  PROVE  QueryInv'
<1>1. sCurrentQuery' = prepareQuery(sCurrentQuery) /\ UNCHANGED <<params, bvalues>>
  BY DEF OpenCall
<1>2. ListInv /\ sCurrentQuery \in Seq(Symbols)
  BY DEF QueryInv
<1>3. PICK f \in [0 .. size(params) -> Seq(Symbols)] : prepareQuery(sCurrentQuery) = f[size(params)]
  BY <1>2, PrepareTakesSteps
<1>4. size(params) \in 0 .. size(params)
  BY <1>2, SizeIs
<1>5. sCurrentQuery' \in Seq(Symbols)
  BY <1>1, <1>3, <1>4
<1> QED BY <1>1, <1>2, <1>5, ListStays DEF QueryInv

\* No other step gives a parameter, and only setQuery() another query.
LEMMA NextQueryInv == QueryInv /\ [Next]_vars => QueryInv'
<1> SUFFICES ASSUME QueryInv, [Next]_vars PROVE QueryInv'
  OBVIOUS
<1>1. ASSUME UNCHANGED <<sCurrentQuery, params, bvalues>> PROVE QueryInv'
  BY <1>1, ListStays DEF QueryInv
<1>2. ASSUME NEW query \in Queries, SetQuery(query) PROVE QueryInv'
  <2>1. query \in Seq(Symbols)
    BY TextsAssumption
  <2> QED BY <1>2, <2>1, ListStays DEF QueryInv, SetQuery
<1>3. ASSUME NEW name \in Names, NEW value \in Values[name], SetParam(name, value) PROVE QueryInv'
  BY <1>3, SetParamInv
<1>4. ASSUME NEW errData \in BOOLEAN, OpenCall(errData) PROVE QueryInv'
  BY <1>4, OpenCallQueryInv
<1>5. CASE SetAutoreconnect
  BY <1>1, <1>5 DEF SetAutoreconnect
<1>6. CASE Connect \/ Disconnect \/ LoseConnection \/ OpenSucceeds \/ OpenIsRefused \/ AnswerIsLost
             \/ OpenMeetsLostConnection \/ OpenConnects \/ OpenGivesUp \/ close \/ next
  <2>1. UNCHANGED queryVars
    BY <1>6 DEF Connect, Disconnect, LoseConnection, OpenSucceeds, OpenIsRefused, AnswerIsLost,
                OpenMeetsLostConnection, OpenConnects, OpenGivesUp, close, next
  <2> QED BY <1>1, <2>1 DEF queryVars
<1>7. CASE UNCHANGED vars
  BY <1>1, <1>7 DEF vars, queryVars
<1> QED BY <1>2, <1>3, <1>4, <1>5, <1>6, <1>7 DEF Next

\* The list of the parameters is sorted and what is in it is there, in every state.
THEOREM QueryIsReady == Spec => []QueryInv
<1>1. QueryInv /\ [Next]_vars => QueryInv'
  BY NextQueryInv
<1> QED BY InitQueryInv, <1>1, PTL DEF Spec

\* RemoteSquirrel.h:44-45: open() puts the values of the parameters in the places
\* of their names, in whatever order they were first named, where no value that is
\* put in is taken for the name of another.
THEOREM ParametersInPlace == Spec => ParametersTakeTheirValues
<1>1. QueryInv /\ [Next]_vars =>
        [\A errData \in BOOLEAN :
           OpenCall(errData) /\ ValuesStandApart => sCurrentQuery' = WithValues(sCurrentQuery)]_vars
  <2> SUFFICES ASSUME QueryInv, NEW errData \in BOOLEAN, OpenCall(errData), ValuesStandApart
               PROVE  sCurrentQuery' = WithValues(sCurrentQuery)
    OBVIOUS
  <2>1. sCurrentQuery' = prepareQuery(sCurrentQuery)
    BY DEF OpenCall
  <2>2. Ready /\ sCurrentQuery \in Seq(Symbols)
    BY DEF Ready, QueryInv
  <2> QED BY <2>1, <2>2, PreparedIsWithValues
<1> QED BY <1>1, QueryIsReady, PTL DEF Spec, ParametersTakeTheirValues
=============================================================================
