--------------------------- MODULE Sockets_proofs ---------------------------
(***************************************************************************)
(* Theorems about Sockets, for any messages and lengths, sizes of a piece, *)
(* of a read and of what TCP keeps, and any number of connections.         *)
(*                                                                         *)
(* The argument: a connection that no write was short on and no message    *)
(* changed to or from has, as long as it can be written to, all of the     *)
(* messages that were begun on it but the rest of the one in hand.  When   *)
(* it cannot be written to any more it stays the beginning of them.        *)
(***************************************************************************)
EXTENDS Sockets, SequenceLemmas

(***************************************************************************)
(* The inductive invariant                                                  *)
(***************************************************************************)

Unit == Messages \X Nat
Connections == [flight : Seq(Unit), near : BOOLEAN, far : BOOLEAN, taken : BOOLEAN, dead : BOOLEAN]
Sends == [message : Messages, p : Nat, on : Int]

SocketsTypeInv ==
  /\ tcp \in Seq(Connections) /\ Len(tcp) <= MaxConnections
  /\ iSocketId \in {NoSocket, NotConnected} \union DOMAIN tcp
  /\ connecting => iSocketId = NotConnected /\ Len(tcp) < MaxConnections
  /\ {aBuffer, added, accepted, begun} \subseteq Seq(Messages)
  /\ begunOn \in [Ids -> Seq(Messages)]
  /\ sending \in Sends \union {NULL}
  /\ {sent, received} \subseteq [Ids -> Seq(Unit)]

\* In the middle of a message.
Midway == sending # NULL /\ sending.p > 0

\* The message in hand is the oldest one, and the last that was begun when it was.
BufferInv ==
  /\ accepted \o aBuffer = added
  /\ sending # NULL => /\ aBuffer # <<>> /\ sending.message = Head(aBuffer)
                       /\ sending.p <= Length[sending.message]
  /\ Midway => begun # <<>> /\ begun[Len(begun)] = sending.message /\ sending.on \in DOMAIN tcp

BegunInv ==
  /\ begun = <<>> => accepted = <<>>
  /\ begun # <<>> => \E k \in {Len(accepted), Len(accepted) + 1} \intersect (1 .. Len(added)) :
                        begun[Len(begun)] = added[k]
  /\ \A i \in 2 .. Len(begun) :
       \/ begun[i] = begun[i - 1]
       \/ \E k \in 2 .. Len(added) : begun[i] = added[k] /\ begun[i - 1] = added[k - 1]

\* What is on the way is what was written and is not read.
FlightInv ==
  \A c \in Ids : IF c \in DOMAIN tcp THEN received[c] \o tcp[c].flight = sent[c]
                                     ELSE sent[c] = <<>> /\ received[c] = <<>> /\ begunOn[c] = <<>>

\* What is left of a message from a place on, and of the one that send() is about
\* on the socket it is on.
Left(a, m) == SubSeq(Units(m), a + 1, Length[m])
Remaining(c) == IF Midway /\ sending.on = c THEN Left(sending.p, sending.message) ELSE <<>>

\* A connection that can still be written to has all of the messages that were begun
\* on it but the rest of the one in hand.
WholeInv ==
  \A c \in Ids \ cut :
    /\ IsPrefix(sent[c], Text(begunOn[c]))
    /\ c = iSocketId /\ ~tcp[c].dead => sent[c] \o Remaining(c) = Text(begunOn[c])

AcceptedInv ==
  /\ \A m \in Range(accepted) : \E c \in Ids :
       /\ m \in Range(begunOn[c])
       /\ c \notin cut => Range(Units(m)) \subseteq Range(sent[c])
  /\ Midway => \E c \in cut \union {sending.on} : c \in Ids /\ sending.message \in Range(begunOn[c])

SocketsInv ==
  SocketsTypeInv /\ BufferInv /\ BegunInv /\ FlightInv /\ WholeInv /\ AcceptedInv

(***************************************************************************)
(* Sequences of messages                                                    *)
(***************************************************************************)

\* The units of a message,
LEMMA UnitsType ==
  ASSUME NEW m \in Messages
  PROVE  Units(m) \in Seq(Unit) /\ Len(Units(m)) = Length[m] /\ Length[m] \in Nat \ {0}
<1>1. Length[m] \in Nat \ {0}
  BY SocketsAssumption
<1> QED BY <1>1 DEF Units, Unit

\* the text of no messages,
LEMMA TextEmpty == Text(<<>>) = <<>>
<1>1. [i \in DOMAIN <<>> |-> Units(<<>>[i])] = <<>>
  OBVIOUS
<1> QED BY <1>1, FlattenEmpty DEF Text

\* what FlattenSeq flattens,
LEMMA UnitsOfEach ==
  ASSUME NEW ms \in Seq(Messages)
  PROVE  LET ss == [i \in DOMAIN ms |-> Units(ms[i])] IN
         ss \in Seq(Seq(Unit)) /\ Len(ss) = Len(ms)
<1>1. \A i \in DOMAIN ms : Units(ms[i]) \in Seq(Unit)
  BY UnitsType
<1> QED BY <1>1

\* the type of a text,
LEMMA TextType ==
  ASSUME NEW ms \in Seq(Messages)
  PROVE  Text(ms) \in Seq(Unit)
BY UnitsOfEach, FlattenType DEF Text

\* and the text with one more message.
LEMMA TextAppend ==
  ASSUME NEW ms \in Seq(Messages), NEW m \in Messages
  PROVE  Text(Append(ms, m)) = Text(ms) \o Units(m)
<1> DEFINE ss == [i \in DOMAIN ms |-> Units(ms[i])]
           nn == Append(ms, m)
           tt == [i \in DOMAIN nn |-> Units(nn[i])]
<1>1. ss \in Seq(Seq(Unit)) /\ Len(ss) = Len(ms)
  BY UnitsOfEach
<1>2. tt = Append(ss, Units(m))
  <2> DEFINE n == Len(ms)
             aa == Append(ss, Units(m))
  <2>1. n \in Nat /\ nn \in Seq(Messages) /\ DOMAIN nn = 1 .. n + 1 /\ DOMAIN ms = 1 .. n
    OBVIOUS
  <2>2. nn[n + 1] = m /\ \A i \in 1 .. n : nn[i] = ms[i]
    OBVIOUS
  <2>3. \A i \in 1 .. n : ss[i] = Units(ms[i])
    OBVIOUS
  <2> HIDE DEF nn, ss, n
  <2>4. tt \in Seq(Seq(Unit)) /\ Len(tt) = n + 1 /\ \A i \in 1 .. n + 1 : tt[i] = Units(nn[i])
    <3>1. tt \in Seq(Seq(Unit)) /\ Len(tt) = Len(nn)
      BY <2>1, UnitsOfEach
    <3>2. \A i \in 1 .. n + 1 : tt[i] = Units(nn[i])
      BY <2>1
    <3>3. Len(nn) = n + 1
      BY <2>1
    <3> QED BY <3>1, <3>2, <3>3
  <2> USE DEF n
  <2>5. /\ aa \in Seq(Seq(Unit)) /\ Len(aa) = n + 1
        /\ aa[n + 1] = Units(m) /\ \A i \in 1 .. n : aa[i] = ss[i]
    <3> DEFINE U == Seq(Unit)
               u == Units(m)
    <3>1. ss \in Seq(U) /\ u \in U /\ Len(ss) = n
      BY <1>1, UnitsType
    <3> HIDE DEF U, u, n
    <3>2. Append(ss, u) \in Seq(U) /\ Len(Append(ss, u)) = n + 1
      BY <3>1, AppendProperties
    <3>3. Append(ss, u)[n + 1] = u /\ \A i \in 1 .. n : Append(ss, u)[i] = ss[i]
      BY <3>1, AppendProperties
    <3> QED BY <3>2, <3>3 DEF U, u
  <2> HIDE DEF tt, n, aa
  <2>6. ASSUME NEW i \in 1 .. n + 1 PROVE tt[i] = aa[i]
    <3>1. CASE i = n + 1
      BY <2>2, <2>4, <2>5, <3>1
    <3>2. CASE i # n + 1
      <4>1. i \in 1 .. n
        BY <2>1, <3>2
      <4> QED BY <2>2, <2>3, <2>4, <2>5, <4>1
    <3> QED BY <3>1, <3>2
  <2>7. tt = aa
    BY <2>4, <2>5, <2>6, SeqEqual
  <2> QED BY <2>7 DEF aa
<1> HIDE DEF ss
<1>3. FlattenSeq(tt) = FlattenSeq(ss) \o Units(m)
  BY <1>1, <1>2, UnitsType, FlattenAppend
<1> QED BY <1>3 DEF Text, ss

\* The units of a message are among those of the messages it is one of.
LEMMA TextHasAll ==
  ASSUME NEW ms \in Seq(Messages), NEW m \in Range(ms)
  PROVE  Range(Units(m)) \subseteq Range(Text(ms))
<1> DEFINE ss == [i \in DOMAIN ms |-> Units(ms[i])]
<1>1. ss \in Seq(Seq(Unit)) /\ Len(ss) = Len(ms)
  BY UnitsOfEach
<1>2. PICK i \in DOMAIN ms : ms[i] = m
  BY DEF Range
<1>3. ss[i] = Units(m) /\ i \in 1 .. Len(ss)
  BY <1>1, <1>2
<1> HIDE DEF ss
<1> QED BY <1>1, <1>3, FlattenHasAll DEF Text, ss

(***************************************************************************)
(* Steps                                                                    *)
(***************************************************************************)

\* Nothing is sent or begun yet.
LEMMA SocketsInitInv == SocketsInit => SocketsInv
<1> SUFFICES ASSUME SocketsInit PROVE SocketsInv
  OBVIOUS
<1>1. SocketsTypeInv
  BY SocketsAssumption DEF SocketsInit, SocketsTypeInv
<1>2. BufferInv /\ BegunInv
  BY DEF SocketsInit, BufferInv, BegunInv, Midway
<1>3. FlightInv
  BY DEF SocketsInit, FlightInv
<1>4. WholeInv
  <2> SUFFICES ASSUME NEW c \in Ids PROVE IsPrefix(sent[c], Text(begunOn[c])) /\ c # iSocketId
    BY DEF WholeInv
  <2>1. sent[c] = <<>> /\ begunOn[c] = <<>>
    BY DEF SocketsInit
  <2>2. IsPrefix(<<>>, <<>>)
    BY DEF IsPrefix
  <2>3. c # iSocketId
    BY SocketsAssumption DEF SocketsInit, NoSocket, Ids
  <2> QED BY <2>1, <2>2, <2>3, TextEmpty
<1>5. AcceptedInv
  BY DEF SocketsInit, AcceptedInv, Midway, Range
<1> QED BY <1>1, <1>2, <1>3, <1>4, <1>5 DEF SocketsInv

\* What a step that neither writes nor reads does to the connections.
SameFlights ==
  /\ tcp' \in Seq(Connections) /\ Len(tcp') = Len(tcp) /\ DOMAIN tcp' = DOMAIN tcp
  /\ \A c \in DOMAIN tcp : tcp'[c].flight = tcp[c].flight /\ (tcp[c].dead => tcp'[c].dead)

\* One of the flags of a connection is set.
LEMMA FieldSet ==
  ASSUME tcp \in Seq(Connections), NEW c \in DOMAIN tcp, NEW v \in BOOLEAN,
         \/ tcp' = [tcp EXCEPT ![c].near = v]
         \/ tcp' = [tcp EXCEPT ![c].far = v]
         \/ tcp' = [tcp EXCEPT ![c].taken = v]
         \/ tcp' = [tcp EXCEPT ![c].dead = TRUE]
  PROVE  SameFlights
<1>1. tcp[c] \in Connections /\ \A d \in DOMAIN tcp : tcp[d] \in Connections
  OBVIOUS
<1>2. PICK r \in Connections : /\ tcp' = [tcp EXCEPT ![c] = r]
                               /\ r.flight = tcp[c].flight /\ (tcp[c].dead => r.dead)
  <2>1. CASE tcp' = [tcp EXCEPT ![c].near = v]
    <3>1. [tcp[c] EXCEPT !.near = v] \in Connections
      BY <1>1 DEF Connections
    <3>2. /\ [tcp[c] EXCEPT !.near = v].flight = tcp[c].flight
          /\ [tcp[c] EXCEPT !.near = v].dead = tcp[c].dead
      BY <1>1 DEF Connections
    <3> QED BY <2>1, <3>1, <3>2
  <2>2. CASE tcp' = [tcp EXCEPT ![c].far = v]
    <3>1. [tcp[c] EXCEPT !.far = v] \in Connections
      BY <1>1 DEF Connections
    <3>2. /\ [tcp[c] EXCEPT !.far = v].flight = tcp[c].flight
          /\ [tcp[c] EXCEPT !.far = v].dead = tcp[c].dead
      BY <1>1 DEF Connections
    <3> QED BY <2>2, <3>1, <3>2
  <2>3. CASE tcp' = [tcp EXCEPT ![c].taken = v]
    <3>1. [tcp[c] EXCEPT !.taken = v] \in Connections
      BY <1>1 DEF Connections
    <3>2. /\ [tcp[c] EXCEPT !.taken = v].flight = tcp[c].flight
          /\ [tcp[c] EXCEPT !.taken = v].dead = tcp[c].dead
      BY <1>1 DEF Connections
    <3> QED BY <2>3, <3>1, <3>2
  <2>4. CASE tcp' = [tcp EXCEPT ![c].dead = TRUE]
    <3>1. [tcp[c] EXCEPT !.dead = TRUE] \in Connections
      BY <1>1 DEF Connections
    <3>2. /\ [tcp[c] EXCEPT !.dead = TRUE].flight = tcp[c].flight
          /\ [tcp[c] EXCEPT !.dead = TRUE].dead
      BY <1>1 DEF Connections
    <3> QED BY <2>4, <3>1, <3>2
  <2> QED BY <2>1, <2>2, <2>3, <2>4
<1>3. tcp' \in Seq(Connections) /\ Len(tcp') = Len(tcp) /\ DOMAIN tcp' = DOMAIN tcp
  BY <1>2, ExceptSeq
<1>4. \A d \in DOMAIN tcp : tcp'[d] = IF d = c THEN r ELSE tcp[d]
  BY <1>2
<1> QED BY <1>2, <1>3, <1>4 DEF SameFlights

\* The message in hand may change as it does where nothing is written.
NothingWritten ==
  \/ sending' = sending
  \/ sending' = NULL /\ Refused
  \/ /\ sending = NULL /\ aBuffer # <<>>
     /\ sending' = [message |-> Head(aBuffer), p |-> 0, on |-> NoSocket]

\* A step that neither writes nor reads keeps the invariant.
LEMMA QuietKeeps ==
  ASSUME SocketsInv, SameFlights, NothingWritten,
         iSocketId' \in {iSocketId, NoSocket, NotConnected},
         connecting' => iSocketId' = NotConnected /\ Len(tcp) < MaxConnections,
         UNCHANGED <<aBuffer, added, accepted, begun, begunOn, sent, cut, received>>
  PROVE  SocketsInv'
<1>1. SocketsTypeInv'
  <2>1. sending' \in Sends \union {NULL}
    <3>1. aBuffer # <<>> => Head(aBuffer) \in Messages
      BY DEF SocketsInv, SocketsTypeInv
    <3> QED BY <3>1 DEF SocketsInv, SocketsTypeInv, NothingWritten, Sends, NoSocket
  <2> QED BY <2>1 DEF SocketsInv, SocketsTypeInv, SameFlights
<1>2. Midway' => Midway /\ sending' = sending
  BY DEF Midway, NothingWritten
<1>3. BufferInv'
  <2>1. sending' # NULL => /\ aBuffer # <<>> /\ sending'.message = Head(aBuffer)
                           /\ sending'.p <= Length[sending'.message]
    <3>1. aBuffer # <<>> => Head(aBuffer) \in Messages
      BY DEF SocketsInv, SocketsTypeInv
    <3>2. aBuffer # <<>> => 0 <= Length[Head(aBuffer)]
      BY <3>1, UnitsType
    <3> QED BY <3>2 DEF SocketsInv, BufferInv, NothingWritten
  <2> QED BY <1>2, <2>1 DEF SocketsInv, BufferInv, SameFlights
<1>4. BegunInv'
  BY DEF SocketsInv, BegunInv
<1>5. FlightInv'
  BY DEF SocketsInv, FlightInv, SameFlights
<1>6. WholeInv'
  <2> SUFFICES ASSUME NEW c \in Ids \ cut
               PROVE  /\ IsPrefix(sent[c], Text(begunOn[c]))
                      /\ c = iSocketId' /\ ~tcp'[c].dead => sent[c] \o Remaining(c)' = Text(begunOn[c])
    BY DEF WholeInv
  <2>1. IsPrefix(sent[c], Text(begunOn[c]))
    BY DEF SocketsInv, WholeInv
  <2>2. ASSUME c = iSocketId', ~tcp'[c].dead PROVE sent[c] \o Remaining(c)' = Text(begunOn[c])
    <3>1. c = iSocketId /\ c \in DOMAIN tcp
      BY <2>2 DEF SocketsInv, SocketsTypeInv, Ids, NoSocket, NotConnected
    <3>2. ~tcp[c].dead /\ ~Refused
      BY <2>2, <3>1 DEF SameFlights, Refused
    <3>3. Remaining(c)' = Remaining(c)
      <4>1. CASE sending' = sending
        BY <4>1 DEF Remaining, Left, Midway, Units
      <4>2. CASE sending' # sending
        BY <3>2, <4>2 DEF Remaining, Midway, NothingWritten
      <4> QED BY <4>1, <4>2
    <3> QED BY <3>1, <3>2, <3>3 DEF SocketsInv, WholeInv
  <2> QED BY <2>1, <2>2
<1>7. AcceptedInv'
  BY <1>2 DEF SocketsInv, AcceptedInv, Units
<1> QED BY <1>1, <1>3, <1>4, <1>5, <1>6, <1>7 DEF SocketsInv

\* The new connection has nothing yet.
LEMMA ConnectedInv == ASSUME SocketsInv, Connected PROVE SocketsInv'
<1> DEFINE id == Len(tcp) + 1
           r == [flight |-> <<>>, near |-> TRUE, far |-> TRUE, taken |-> FALSE, dead |-> FALSE]
<1>1. /\ iSocketId' = id /\ ~connecting' /\ tcp' = Append(tcp, r)
      /\ UNCHANGED <<aBuffer, sending, added, accepted, begun, begunOn, sent, cut, received>>
  BY DEF Connected, senderVars, serverVars
<1>2. r \in Connections /\ r.flight = <<>>
  BY DEF Connections
<1>3. tcp \in Seq(Connections) /\ Len(tcp) \in Nat /\ Len(tcp) < MaxConnections /\ MaxConnections \in Nat
  BY SocketsAssumption DEF SocketsInv, SocketsTypeInv, Connected
<1> HIDE DEF r
<1>4. /\ tcp' \in Seq(Connections) /\ Len(tcp') = id /\ DOMAIN tcp' = DOMAIN tcp \union {id}
      /\ id \notin DOMAIN tcp /\ id \in Ids /\ tcp'[id] = r /\ \A c \in DOMAIN tcp : tcp'[c] = tcp[c]
  BY <1>1, <1>2, <1>3 DEF Ids
<1>5. sent[id] = <<>> /\ received[id] = <<>> /\ begunOn[id] = <<>>
  BY <1>4 DEF SocketsInv, FlightInv
<1> HIDE DEF id
<1>6. SocketsTypeInv'
  <2>1. Len(tcp') <= MaxConnections
    BY <1>3, <1>4 DEF id
  <2> QED BY <1>1, <1>4, <2>1 DEF SocketsInv, SocketsTypeInv
<1>7. BufferInv' /\ BegunInv'
  <2>1. BufferInv'
    BY <1>1, <1>4 DEF SocketsInv, BufferInv, Midway
  <2>2. BegunInv'
    BY <1>1 DEF SocketsInv, BegunInv
  <2> QED BY <2>1, <2>2
<1>8. FlightInv'
  <2> SUFFICES ASSUME NEW c \in Ids
               PROVE  IF c \in DOMAIN tcp' THEN received[c] \o tcp'[c].flight = sent[c]
                      ELSE sent[c] = <<>> /\ received[c] = <<>> /\ begunOn[c] = <<>>
    BY <1>1 DEF FlightInv
  <2>1. CASE c = id
    <3>1. <<>> \o <<>> = <<>>
      OBVIOUS
    <3> QED BY <1>2, <1>4, <1>5, <2>1, <3>1
  <2>2. CASE c # id
    BY <1>4, <2>2 DEF SocketsInv, FlightInv
  <2> QED BY <2>1, <2>2
<1>9. WholeInv'
  <2> SUFFICES ASSUME NEW c \in Ids \ cut
               PROVE  /\ IsPrefix(sent[c], Text(begunOn[c]))
                      /\ c = id => sent[c] \o Remaining(c)' = Text(begunOn[c])
    BY <1>1 DEF WholeInv
  <2>1. IsPrefix(sent[c], Text(begunOn[c]))
    BY DEF SocketsInv, WholeInv
  <2>2. ASSUME c = id PROVE sent[c] \o Remaining(c)' = Text(begunOn[c])
    <3>1. ~(Midway /\ sending.on = id)
      BY <1>4 DEF SocketsInv, BufferInv
    <3>2. Remaining(c)' = <<>>
      BY <1>1, <2>2, <3>1 DEF Remaining, Midway
    <3>3. <<>> \o <<>> = <<>>
      OBVIOUS
    <3> QED BY <1>5, <2>2, <3>2, <3>3, TextEmpty
  <2> QED BY <2>1, <2>2
<1>10. AcceptedInv'
  BY <1>1 DEF SocketsInv, AcceptedInv, Midway, Units
<1> QED BY <1>6, <1>7, <1>8, <1>9, <1>10 DEF SocketsInv

\* A message more in the buffer; those in front of it stay where they are.
LEMMA AddInv == ASSUME SocketsInv, NEW m \in Messages, Add(m) PROVE SocketsInv'
<1>1. /\ aBuffer' = Append(aBuffer, m) /\ added' = Append(added, m)
      /\ UNCHANGED <<clientVars, tcp, sending, accepted, begun, begunOn, sent, cut, received>>
  BY DEF Add, serverVars
<1>2. aBuffer \in Seq(Messages) /\ added \in Seq(Messages) /\ accepted \in Seq(Messages)
  BY DEF SocketsInv, SocketsTypeInv
<1>3. SocketsTypeInv'
  BY <1>1, <1>2 DEF SocketsInv, SocketsTypeInv, clientVars
<1>4. BufferInv'
  <2>1. accepted \o aBuffer' = added'
    BY <1>1, <1>2 DEF SocketsInv, BufferInv
  <2>2. aBuffer # <<>> => aBuffer' # <<>> /\ Head(aBuffer') = Head(aBuffer)
    BY <1>1, <1>2
  <2> QED BY <1>1, <2>1, <2>2 DEF SocketsInv, BufferInv, Midway
<1>5. BegunInv'
  <2>1. \A k \in 1 .. Len(added) : added'[k] = added[k] /\ k \in 1 .. Len(added')
    BY <1>1, <1>2
  <2>2. \A k \in 2 .. Len(added) : k - 1 \in 1 .. Len(added) /\ k \in 1 .. Len(added) /\ k \in 2 .. Len(added')
    BY <1>1, <1>2
  <2>3. begun # <<>> => \E k \in {Len(accepted), Len(accepted) + 1} \intersect (1 .. Len(added')) :
                           begun[Len(begun)] = added'[k]
    BY <2>1 DEF SocketsInv, BegunInv
  <2>4. \A i \in 2 .. Len(begun) :
          \/ begun[i] = begun[i - 1]
          \/ \E k \in 2 .. Len(added') : begun[i] = added'[k] /\ begun[i - 1] = added'[k - 1]
    BY <2>1, <2>2 DEF SocketsInv, BegunInv
  <2> QED BY <1>1, <2>3, <2>4 DEF SocketsInv, BegunInv
<1>6. FlightInv' /\ WholeInv' /\ AcceptedInv'
  BY <1>1 DEF SocketsInv, FlightInv, WholeInv, Remaining, Left, Midway, AcceptedInv, Units, clientVars
<1> QED BY <1>3, <1>4, <1>5, <1>6 DEF SocketsInv

\* What is read is no longer on the way.
LEMMA ReceiveInv == ASSUME SocketsInv, NEW c \in DOMAIN tcp, Receive(c) PROVE SocketsInv'
<1> DEFINE f == tcp[c].flight
           n == Min({ReceiveSize, Len(f)})
           r == [tcp[c] EXCEPT !.flight = SubSeq(f, n + 1, Len(f))]
<1>1. /\ tcp' = [tcp EXCEPT ![c] = r] /\ received' = [received EXCEPT ![c] = @ \o SubSeq(f, 1, n)]
      /\ UNCHANGED <<clientVars, aBuffer, sending, added, accepted, begun, begunOn, sent, cut>>
  BY DEF Receive, senderVars
<1>2. /\ tcp \in Seq(Connections) /\ tcp[c] \in Connections /\ f \in Seq(Unit) /\ c \in Ids
      /\ received[c] \in Seq(Unit) /\ \A d \in DOMAIN tcp : tcp[d] \in Connections
  <2>1. tcp \in Seq(Connections) /\ Len(tcp) <= MaxConnections /\ received \in [Ids -> Seq(Unit)]
    BY DEF SocketsInv, SocketsTypeInv
  <2>2. c \in Ids
    BY <2>1, SocketsAssumption DEF Ids
  <2>3. \A d \in DOMAIN tcp : tcp[d] \in Connections
    BY <2>1
  <2>4. f \in Seq(Unit)
    BY <2>3 DEF Connections
  <2> QED BY <2>1, <2>2, <2>3, <2>4
<1>3. n \in 0 .. Len(f)
  <2>1. Len(f) \in Nat /\ ReceiveSize \in Nat
    BY <1>2, SocketsAssumption
  <2> QED BY <2>1, MinOfTwo
<1> HIDE DEF n
<1>4. SubSeq(f, 1, n) \in Seq(Unit) /\ SubSeq(f, n + 1, Len(f)) \in Seq(Unit)
  BY <1>2, <1>3
<1>5. SubSeq(f, 1, n) \o SubSeq(f, n + 1, Len(f)) = f
  <2> DEFINE g == f
  <2>1. g \in Seq(Unit) /\ n \in Nat /\ Len(g) \in Nat /\ 0 <= n /\ n <= Len(g)
    BY <1>2, <1>3
  <2> HIDE DEF g
  <2>2. SubSeq(g, 1, n) \o SubSeq(g, n + 1, Len(g)) = SubSeq(g, 1, Len(g))
    <3> DEFINE d == n + 1
               e == Len(g)
    <3>1. d \in Nat /\ 1 <= d /\ d = n + 1 /\ e \in Nat /\ n <= e /\ e <= Len(g)
      BY <2>1
    <3> HIDE DEF d, e
    <3>2. SubSeq(g, 1, n) \o SubSeq(g, d, e) = SubSeq(g, 1, e)
      BY <2>1, <3>1, CutInTwo
    <3> QED BY <3>2 DEF d, e
  <2>3. SubSeq(g, 1, Len(g)) = g
    BY <2>1, Uncut
  <2> QED BY <2>2, <2>3 DEF g
<1>6. r \in Connections /\ r.flight = SubSeq(f, n + 1, Len(f)) /\ r.dead = tcp[c].dead
  BY <1>2, <1>4 DEF Connections
<1> HIDE DEF r
<1>7. /\ tcp' \in Seq(Connections) /\ Len(tcp') = Len(tcp) /\ DOMAIN tcp' = DOMAIN tcp
      /\ tcp'[c] = r /\ \A d \in DOMAIN tcp \ {c} : tcp'[d] = tcp[d]
  <2>1. \A d \in DOMAIN tcp : tcp'[d] = IF d = c THEN r ELSE tcp[d]
    BY <1>1
  <2> QED BY <1>1, <1>2, <1>6, <2>1, ExceptSeq
<1>8. /\ received' \in [Ids -> Seq(Unit)] /\ received'[c] = received[c] \o SubSeq(f, 1, n)
      /\ \A d \in Ids \ {c} : received'[d] = received[d]
  <2>1. received[c] \o SubSeq(f, 1, n) \in Seq(Unit)
    BY <1>2, <1>4
  <2> QED BY <1>1, <1>2, <2>1 DEF SocketsInv, SocketsTypeInv
<1>9. SocketsTypeInv'
  BY <1>1, <1>7, <1>8 DEF SocketsInv, SocketsTypeInv, clientVars
<1>10. BufferInv' /\ BegunInv' /\ AcceptedInv'
  BY <1>1, <1>7 DEF SocketsInv, BufferInv, BegunInv, AcceptedInv, Midway, Units
<1>11. FlightInv'
  <2> SUFFICES ASSUME NEW d \in Ids
               PROVE  IF d \in DOMAIN tcp THEN received'[d] \o tcp'[d].flight = sent[d]
                      ELSE sent[d] = <<>> /\ received'[d] = <<>> /\ begunOn[d] = <<>>
    BY <1>1, <1>7 DEF FlightInv
  <2>1. CASE d = c
    <3> DEFINE x == received[c]
               y == SubSeq(f, 1, n)
               z == SubSeq(f, n + 1, Len(f))
    <3>1. x \in Seq(Unit) /\ y \in Seq(Unit) /\ z \in Seq(Unit)
      BY <1>2, <1>4
    <3>2. x \o (y \o z) = sent[c]
      BY <1>2, <1>5 DEF SocketsInv, FlightInv
    <3>3. received'[c] \o tcp'[c].flight = (x \o y) \o z
      BY <1>6, <1>7, <1>8
    <3> HIDE DEF x, y, z
    <3>4. (x \o y) \o z = x \o (y \o z)
      BY <3>1, ConcatAssociative
    <3> QED BY <2>1, <3>2, <3>3, <3>4
  <2>2. CASE d # c
    BY <1>7, <1>8, <2>2 DEF SocketsInv, FlightInv
  <2> QED BY <2>1, <2>2
<1>12. WholeInv'
  <2>1. \A d \in Ids : d = iSocketId => d \in DOMAIN tcp
    BY DEF SocketsInv, SocketsTypeInv, Ids, NoSocket, NotConnected
  <2>2. \A d \in DOMAIN tcp : tcp'[d].dead = tcp[d].dead
    BY <1>6, <1>7
  <2> QED BY <1>1, <2>1, <2>2 DEF SocketsInv, WholeInv, Remaining, Left, Midway, Units, clientVars
<1> QED BY <1>9, <1>10, <1>11, <1>12 DEF SocketsInv

\* All of a message is left at its beginning,
LEMMA LeftAll ==
  ASSUME NEW m \in Messages
  PROVE  Left(0, m) = Units(m)
<1>1. Units(m) \in Seq(Unit) /\ Len(Units(m)) = Length[m]
  BY UnitsType
<1> QED BY <1>1, Uncut DEF Left

\* what is left is the next piece and what is left then,
LEMMA LeftIsPieceAndLeft ==
  ASSUME NEW m \in Messages, NEW a \in Nat, NEW b \in Nat, a <= b, b <= Length[m]
  PROVE  /\ SubSeq(Units(m), a + 1, b) \in Seq(Unit) /\ Left(b, m) \in Seq(Unit)
         /\ SubSeq(Units(m), a + 1, b) \o Left(b, m) = Left(a, m)
<1> DEFINE u == Units(m)
           n == Length[m]
           x == a + 1
           y == b + 1
<1>1. u \in Seq(Unit) /\ Len(u) = n /\ n \in Nat
  BY UnitsType
<1>2. /\ x \in Nat \ {0} /\ y \in Nat \ {0} /\ y = b + 1
      /\ x <= y /\ b <= n /\ n <= Len(u) /\ b <= Len(u) /\ y <= n + 1
  BY <1>1
<1> HIDE DEF u, n, x, y
<1>3. SubSeq(u, x, b) \in Seq(Unit)
  BY <1>1, <1>2, PieceOf
<1>4. SubSeq(u, y, n) \in Seq(Unit)
  BY <1>1, <1>2, PieceOf
<1>5. SubSeq(u, x, b) \o SubSeq(u, y, n) = SubSeq(u, x, n)
  BY <1>1, <1>2, CutInTwo
<1> QED BY <1>3, <1>4, <1>5 DEF Left, u, n, x, y

\* and nothing is left at its end.
LEMMA NothingLeft == \A m \in Messages : Left(Length[m], m) = <<>>
<1> SUFFICES ASSUME NEW m \in Messages PROVE Left(Length[m], m) = <<>>
  OBVIOUS
<1>1. Length[m] \in Nat
  BY UnitsType
<1> QED BY <1>1, SubSeqEmpty DEF Left

\* Where send() is, and the socket it is on.
LEMMA SendFacts ==
  ASSUME SocketsInv, sending # NULL, isReadyToSend, ~Refused
  PROVE  /\ iSocketId \in DOMAIN tcp /\ iSocketId \in Ids /\ ~tcp[iSocketId].dead
         /\ tcp[iSocketId] \in Connections /\ Len(tcp[iSocketId].flight) < Room
         /\ aBuffer # <<>> /\ sending.message = Head(aBuffer)
         /\ sending \in Sends /\ sending.message \in Messages
         /\ sending.p \in Nat /\ sending.p <= Length[sending.message]
         /\ PieceEnd \in Nat /\ sending.p <= PieceEnd /\ PieceEnd <= Length[sending.message]
         /\ IsLast => PieceEnd = Length[sending.message]
         /\ ~IsLast => PieceEnd > 0
<1>1. iSocketId \in DOMAIN tcp /\ ~tcp[iSocketId].dead
  BY DEF Refused
<1>2. Len(tcp[iSocketId].flight) < Room
  BY <1>1 DEF isReadyToSend, SocketsInv, SocketsTypeInv, NotConnected
<1>3. tcp \in Seq(Connections) /\ Len(tcp) <= MaxConnections
  BY DEF SocketsInv, SocketsTypeInv
<1>4. iSocketId \in Ids /\ tcp[iSocketId] \in Connections
  BY <1>1, <1>3, SocketsAssumption DEF Ids
<1>5. /\ aBuffer # <<>> /\ sending.message = Head(aBuffer) /\ sending \in Sends
      /\ sending.message \in Messages /\ sending.p \in Nat /\ sending.p <= Length[sending.message]
  BY DEF SocketsInv, SocketsTypeInv, BufferInv, Sends
<1>6. Length[sending.message] \in Nat /\ autosplit_size \in Nat \ {0}
  BY <1>5, UnitsType, SocketsAssumption
<1>7. /\ PieceEnd \in Nat /\ sending.p <= PieceEnd /\ PieceEnd <= Length[sending.message]
      /\ IsLast => PieceEnd = Length[sending.message]
      /\ ~IsLast => PieceEnd > 0
  BY <1>5, <1>6 DEF PieceEnd, IsLast
<1> QED BY <1>1, <1>2, <1>4, <1>5, <1>7

\* What SendPiece does to the connections, and to the histories of what was written
\* and of what was begun.
LEMMA PieceWritten ==
  ASSUME SocketsInv, SendPiece
  PROVE  \E end \in Nat :
           LET id    == iSocketId
               m     == sending.message
               piece == SubSeq(Units(m), sending.p + 1, end)
           IN  /\ sending.p <= end /\ end <= PieceEnd
               /\ cut \subseteq cut' /\ (id \notin cut' => end = PieceEnd)
               /\ sending.p > 0 /\ sending.on # id => {id, sending.on} \subseteq cut'
               /\ tcp' \in Seq(Connections) /\ Len(tcp') = Len(tcp) /\ DOMAIN tcp' = DOMAIN tcp
               /\ tcp'[id].flight = tcp[id].flight \o piece
               /\ \A c \in DOMAIN tcp \ {id} : tcp'[c] = tcp[c]
               /\ sent' \in [Ids -> Seq(Unit)] /\ sent'[id] = sent[id] \o piece
               /\ \A c \in Ids \ {id} : sent'[c] = sent[c]
<1> DEFINE id == iSocketId
           m == sending.message
           a == sending.p
           u == Units(m)
           b == a + (Room - Len(tcp[id].flight))
           end == Min({PieceEnd, b})
           piece == SubSeq(u, a + 1, end)
           r == [tcp[id] EXCEPT !.flight = @ \o piece]
<1>1. sending # NULL /\ isReadyToSend /\ ~Refused
  BY DEF SendPiece
<1>2. /\ id \in DOMAIN tcp /\ id \in Ids /\ tcp[id] \in Connections /\ Len(tcp[id].flight) < Room
      /\ m \in Messages /\ a \in Nat /\ PieceEnd \in Nat /\ a <= PieceEnd /\ PieceEnd <= Length[m]
  BY <1>1, SendFacts
<1>3. /\ tcp' = [tcp EXCEPT ![id] = r] /\ sent' = [sent EXCEPT ![id] = @ \o piece]
      /\ cut' = cut \union (IF end < PieceEnd THEN {id} ELSE {})
                    \union (IF a > 0 /\ sending.on # id THEN {sending.on, id} ELSE {})
  BY DEF SendPiece
<1>4. end \in Nat /\ a <= end /\ end <= PieceEnd
  <2>1. tcp[id].flight \in Seq(Unit)
    BY <1>2 DEF Connections
  <2>2. b \in Nat /\ a <= b
    BY <1>2, <2>1, SocketsAssumption
  <2> HIDE DEF b
  <2>3. end = IF PieceEnd <= b THEN PieceEnd ELSE b
    BY <1>2, <2>2, MinOfTwo
  <2> HIDE DEF end
  <2> QED BY <1>2, <2>2, <2>3
<1> HIDE DEF end, m
<1>5. piece \in Seq(Unit)
  <2>1. end <= Length[m]
    BY <1>2, <1>4, UnitsType
  <2> QED BY <1>2, <1>4, <2>1, LeftIsPieceAndLeft
<1> HIDE DEF piece
<1>6. /\ cut \subseteq cut' /\ (id \notin cut' => end = PieceEnd)
      /\ (a > 0 /\ sending.on # id => {id, sending.on} \subseteq cut')
  BY <1>2, <1>3, <1>4
<1>7. r \in Connections /\ r.flight = tcp[id].flight \o piece
  <2>1. tcp[id].flight \in Seq(Unit)
    BY <1>2 DEF Connections
  <2>2. tcp[id].flight \o piece \in Seq(Unit)
    BY <1>5, <2>1
  <2> QED BY <1>2, <2>2 DEF Connections
<1> HIDE DEF r
<1>8. tcp \in Seq(Connections) /\ sent \in [Ids -> Seq(Unit)]
  BY DEF SocketsInv, SocketsTypeInv
<1> HIDE DEF id
<1>9. /\ tcp' \in Seq(Connections) /\ Len(tcp') = Len(tcp) /\ DOMAIN tcp' = DOMAIN tcp
      /\ tcp'[id] = r /\ \A c \in DOMAIN tcp \ {id} : tcp'[c] = tcp[c]
  <2>1. \A d \in DOMAIN tcp : tcp'[d] = IF d = id THEN r ELSE tcp[d]
    BY <1>3
  <2> QED BY <1>2, <1>3, <1>7, <1>8, <2>1, ExceptSeq
<1>10. /\ sent' \in [Ids -> Seq(Unit)] /\ sent'[id] = sent[id] \o piece
       /\ \A c \in Ids \ {id} : sent'[c] = sent[c]
  <2>1. sent[id] \o piece \in Seq(Unit)
    BY <1>2, <1>5, <1>8
  <2> QED BY <1>2, <1>3, <1>8, <2>1
<1> QED BY <1>4, <1>6, <1>7, <1>9, <1>10 DEF id, m, piece

\* What the last step of a message, and the others, do to the buffer and to the
\* message in hand, and the first one to what is begun.
LEMMA SendMoves ==
  ASSUME SocketsInv, SendPiece
  PROVE  LET id == iSocketId
             m  == sending.message
         IN  /\ UNCHANGED <<iSocketId, connecting, added, received>>
             /\ \/ /\ IsLast /\ sending' = NULL
                   /\ aBuffer' = Tail(aBuffer) /\ accepted' = Append(accepted, m)
                \/ /\ ~IsLast /\ sending' = [message |-> m, p |-> PieceEnd, on |-> id]
                   /\ UNCHANGED <<aBuffer, accepted>>
             /\ IF sending.p = 0 THEN begun' = Append(begun, m) ELSE begun' = begun
             /\ begunOn' \in [Ids -> Seq(Messages)]
             /\ begunOn'[id] = IF sending.p = 0 THEN Append(begunOn[id], m) ELSE begunOn[id]
             /\ \A c \in Ids \ {id} : begunOn'[c] = begunOn[c]
<1> DEFINE id == iSocketId
           m == sending.message
<1>1. id \in Ids /\ m \in Messages /\ sending \in Sends
  BY SendFacts DEF SendPiece
<1>2. /\ UNCHANGED <<iSocketId, connecting, added, received>>
      /\ IF sending.p = 0
         THEN begun' = Append(begun, m) /\ begunOn' = [begunOn EXCEPT ![id] = Append(@, m)]
         ELSE begun' = begun /\ begunOn' = begunOn
      /\ IF IsLast
         THEN sending' = NULL /\ aBuffer' = Tail(aBuffer) /\ accepted' = Append(accepted, m)
         ELSE sending' = [sending EXCEPT !.p = PieceEnd, !.on = id] /\ UNCHANGED <<aBuffer, accepted>>
  BY DEF SendPiece, clientVars, serverVars
<1>3. [sending EXCEPT !.p = PieceEnd, !.on = id] = [message |-> m, p |-> PieceEnd, on |-> id]
  <2> DEFINE x == [sending EXCEPT !.p = PieceEnd, !.on = id]
             y == [message |-> m, p |-> PieceEnd, on |-> id]
  <2>1. DOMAIN x = {"message", "p", "on"} /\ x = [i \in DOMAIN x |-> x[i]]
    BY <1>1 DEF Sends
  <2>2. DOMAIN y = {"message", "p", "on"} /\ y = [i \in DOMAIN y |-> y[i]]
    OBVIOUS
  <2>3. x["message"] = y["message"] /\ x["p"] = y["p"] /\ x["on"] = y["on"]
    BY <1>1 DEF Sends
  <2> HIDE DEF x, y
  <2>4. x = y
    BY <2>1, <2>2, <2>3
  <2> QED BY <2>4 DEF x, y
<1>4. begunOn \in [Ids -> Seq(Messages)]
  BY DEF SocketsInv, SocketsTypeInv
<1> HIDE DEF id, m
<1>5. begunOn[id] \in Seq(Messages) /\ Append(begunOn[id], m) \in Seq(Messages)
  BY <1>1, <1>4
<1>6. /\ begunOn' \in [Ids -> Seq(Messages)]
      /\ begunOn'[id] = IF sending.p = 0 THEN Append(begunOn[id], m) ELSE begunOn[id]
      /\ \A c \in Ids \ {id} : begunOn'[c] = begunOn[c]
  BY <1>1, <1>2, <1>4, <1>5
<1>7. IF sending.p = 0 THEN begun' = Append(begun, m) ELSE begun' = begun
  BY <1>2
<1>8. \/ /\ IsLast /\ sending' = NULL
         /\ aBuffer' = Tail(aBuffer) /\ accepted' = Append(accepted, m)
      \/ /\ ~IsLast /\ sending' = [message |-> m, p |-> PieceEnd, on |-> id]
         /\ UNCHANGED <<aBuffer, accepted>>
  BY <1>2, <1>3
<1> QED BY <1>2, <1>6, <1>7, <1>8 DEF id, m

\* SendPiece keeps the types,
LEMMA SendPieceType == ASSUME SocketsInv, SendPiece PROVE SocketsTypeInv'
<1> DEFINE id == iSocketId
           m == sending.message
<1>1. id \in DOMAIN tcp /\ m \in Messages /\ PieceEnd \in Nat /\ aBuffer # <<>>
  BY SendFacts DEF SendPiece
<1>2. /\ tcp' \in Seq(Connections) /\ Len(tcp') = Len(tcp) /\ DOMAIN tcp' = DOMAIN tcp
      /\ sent' \in [Ids -> Seq(Unit)]
  BY PieceWritten
<1>3. SocketsTypeInv
  BY DEF SocketsInv
<1>4. begun' \in Seq(Messages)
  <2>1. begun' \in {begun, Append(begun, m)}
    BY SendMoves
  <2>2. begun \in Seq(Messages)
    BY <1>3 DEF SocketsTypeInv
  <2> HIDE DEF m
  <2> QED BY <1>1, <2>1, <2>2
<1>5. aBuffer' \in Seq(Messages) /\ accepted' \in Seq(Messages)
  <2>1. aBuffer' \in {aBuffer, Tail(aBuffer)} /\ accepted' \in {accepted, Append(accepted, m)}
    BY SendMoves
  <2>2. aBuffer \in Seq(Messages) /\ accepted \in Seq(Messages)
    BY <1>3 DEF SocketsTypeInv
  <2> HIDE DEF m
  <2>3. Tail(aBuffer) \in Seq(Messages)
    BY <1>1, <2>2, HeadTailProperties
  <2>4. Append(accepted, m) \in Seq(Messages)
    BY <1>1, <2>2
  <2> QED BY <2>1, <2>2, <2>3, <2>4
<1>6. sending' \in Sends \union {NULL}
  <2>1. tcp \in Seq(Connections)
    BY <1>3 DEF SocketsTypeInv
  <2>2. id \in Int
    BY <1>1, <2>1
  <2> QED BY <1>1, <2>2, SendMoves DEF Sends
<1>7. /\ UNCHANGED <<iSocketId, connecting, added, received>>
      /\ begunOn' \in [Ids -> Seq(Messages)]
  BY SendMoves
<1> QED BY <1>2, <1>3, <1>4, <1>5, <1>6, <1>7 DEF SocketsTypeInv

\* the message in hand,
LEMMA SendPieceBuffer == ASSUME SocketsInv, SendPiece PROVE BufferInv'
<1> DEFINE id == iSocketId
           m == sending.message
<1>1. /\ id \in DOMAIN tcp /\ m \in Messages /\ aBuffer # <<>> /\ m = Head(aBuffer)
      /\ sending # NULL /\ PieceEnd <= Length[m] /\ sending.p \in Nat
  BY SendFacts DEF SendPiece
<1>2. DOMAIN tcp' = DOMAIN tcp
  BY PieceWritten
<1>3. /\ aBuffer \in Seq(Messages) /\ accepted \in Seq(Messages) /\ begun \in Seq(Messages)
      /\ accepted \o aBuffer = added /\ added' = added
  BY SendMoves DEF SocketsInv, SocketsTypeInv, BufferInv
<1>4. accepted' \o aBuffer' = added'
  <2>1. Append(accepted, Head(aBuffer)) \o Tail(aBuffer) = accepted \o aBuffer
    BY <1>1, <1>3, HeadMoves
  <2> QED BY <1>1, <1>3, <2>1, SendMoves
<1>5. begun' # <<>> /\ begun'[Len(begun')] = m
  <2>1. CASE sending.p = 0
    <3>1. begun' = Append(begun, m)
      BY <2>1, SendMoves
    <3> QED BY <1>1, <1>3, <3>1
  <2>2. CASE sending.p # 0
    <3>1. begun' = begun /\ Midway
      BY <1>1, <2>2, SendMoves DEF Midway
    <3> QED BY <3>1 DEF SocketsInv, BufferInv
  <2> QED BY <2>1, <2>2
<1>6. sending' # NULL => /\ aBuffer' # <<>> /\ sending'.message = Head(aBuffer')
                         /\ sending'.p <= Length[sending'.message]
                         /\ sending'.message = m /\ sending'.on = id
  BY <1>1, SendMoves
<1> QED BY <1>1, <1>2, <1>4, <1>5, <1>6 DEF BufferInv, Midway

\* the order in which messages are begun,
LEMMA SendPieceBegun == ASSUME SocketsInv, SendPiece PROVE BegunInv'
<1> DEFINE m == sending.message
           k == Len(accepted)
           n == Len(begun)
<1>1. /\ m \in Messages /\ aBuffer # <<>> /\ m = Head(aBuffer) /\ sending.p \in Nat /\ sending # NULL
  BY SendFacts DEF SendPiece
<1>2. /\ aBuffer \in Seq(Messages) /\ accepted \in Seq(Messages) /\ begun \in Seq(Messages)
      /\ accepted \o aBuffer = added /\ added' = added
  BY SendMoves DEF SocketsInv, SocketsTypeInv, BufferInv
<1>3. k \in Nat /\ n \in Nat /\ k + 1 \in 1 .. Len(added) /\ m = added[k + 1]
  BY <1>1, <1>2
<1>4. begun' # <<>> /\ begun'[Len(begun')] = m
  <2>1. BufferInv'
    BY SendPieceBuffer
  <2>2. CASE sending.p = 0
    <3>1. begun' = Append(begun, m)
      BY <2>2, SendMoves
    <3> QED BY <1>1, <1>2, <3>1
  <2>3. CASE sending.p # 0
    <3>1. begun' = begun /\ Midway
      BY <1>1, <2>3, SendMoves DEF Midway
    <3> QED BY <3>1 DEF SocketsInv, BufferInv
  <2> QED BY <2>2, <2>3
<1>5. k + 1 \in {Len(accepted'), Len(accepted') + 1}
  BY <1>1, <1>2, SendMoves
<1>6. ASSUME NEW i \in 2 .. Len(begun')
      PROVE  \/ begun'[i] = begun'[i - 1]
             \/ \E j \in 2 .. Len(added) : begun'[i] = added[j] /\ begun'[i - 1] = added[j - 1]
  <2>1. CASE begun' = begun
    BY <2>1 DEF SocketsInv, BegunInv
  <2>2. CASE begun' = Append(begun, m)
    <3>1. Len(begun') = n + 1 /\ begun'[n + 1] = m /\ \A j \in 1 .. n : begun'[j] = begun[j]
      BY <1>1, <1>2, <2>2
    <3> HIDE DEF n
    <3>2. CASE i = n + 1
      <4>1. begun # <<>> /\ i - 1 = n /\ n \in 1 .. n
        BY <1>3, <3>2 DEF n
      <4>2. PICK j \in {k, k + 1} \intersect (1 .. Len(added)) : begun[n] = added[j]
        BY <4>1 DEF SocketsInv, BegunInv, n
      <4>3. begun'[i] = m /\ begun'[i - 1] = added[j]
        BY <3>1, <3>2, <4>1, <4>2
      <4> HIDE DEF k
      <4>4. CASE j = k + 1
        BY <1>3, <4>3, <4>4
      <4>5. CASE j = k
        <5>1. k + 1 \in 2 .. Len(added) /\ (k + 1) - 1 = k
          BY <1>3, <4>5
        <5> QED BY <1>3, <4>3, <4>5, <5>1
      <4> QED BY <4>4, <4>5
    <3>3. CASE i # n + 1
      <4>1. i \in 2 .. n /\ i \in 1 .. n /\ i - 1 \in 1 .. n
        BY <1>3, <3>1, <3>3
      <4>2. begun'[i] = begun[i] /\ begun'[i - 1] = begun[i - 1]
        BY <3>1, <4>1
      <4> QED BY <4>1, <4>2 DEF SocketsInv, BegunInv, n
    <3> QED BY <3>2, <3>3
  <2> QED BY <2>1, <2>2, SendMoves
<1> QED BY <1>2, <1>3, <1>4, <1>5, <1>6 DEF BegunInv

\* and that what is on the way is what was written and is not read.
LEMMA SendPieceFlight == ASSUME SocketsInv, SendPiece PROVE FlightInv'
<1> DEFINE id == iSocketId
<1>1. id \in DOMAIN tcp /\ id \in Ids /\ sending.message \in Messages /\ tcp[id] \in Connections
  BY SendFacts DEF SendPiece
<1>2. PICK piece \in Seq(Unit) :
        /\ DOMAIN tcp' = DOMAIN tcp /\ tcp'[id].flight = tcp[id].flight \o piece
        /\ \A c \in DOMAIN tcp \ {id} : tcp'[c] = tcp[c]
        /\ sent'[id] = sent[id] \o piece /\ \A c \in Ids \ {id} : sent'[c] = sent[c]
  <2> DEFINE m == sending.message
  <2>1. PICK end \in Nat :
          /\ sending.p <= end /\ end <= PieceEnd /\ DOMAIN tcp' = DOMAIN tcp
          /\ tcp'[id].flight = tcp[id].flight \o SubSeq(Units(m), sending.p + 1, end)
          /\ \A c \in DOMAIN tcp \ {id} : tcp'[c] = tcp[c]
          /\ sent'[id] = sent[id] \o SubSeq(Units(m), sending.p + 1, end)
          /\ \A c \in Ids \ {id} : sent'[c] = sent[c]
    BY PieceWritten
  <2>2. sending.p \in Nat /\ m \in Messages /\ PieceEnd \in Nat /\ PieceEnd <= Length[m] /\ Length[m] \in Nat
    BY SendFacts, UnitsType DEF SendPiece
  <2>3. end <= Length[m]
    BY <2>1, <2>2
  <2>4. SubSeq(Units(m), sending.p + 1, end) \in Seq(Unit)
    BY <2>1, <2>2, <2>3, LeftIsPieceAndLeft
  <2> QED BY <2>1, <2>4
<1>3. received' = received /\ \A c \in Ids \ {id} : begunOn'[c] = begunOn[c]
  BY SendMoves
<1> SUFFICES ASSUME NEW c \in Ids
             PROVE  IF c \in DOMAIN tcp THEN received[c] \o tcp'[c].flight = sent'[c]
                    ELSE sent'[c] = <<>> /\ received[c] = <<>> /\ begunOn'[c] = <<>>
  BY <1>2, <1>3 DEF FlightInv
<1>4. CASE c = id
  <2> DEFINE x == received[c]
             y == tcp[c].flight
  <2>1. x \in Seq(Unit) /\ y \in Seq(Unit)
    BY <1>1, <1>4 DEF SocketsInv, SocketsTypeInv, Connections
  <2>2. x \o y = sent[c]
    BY <1>1, <1>4 DEF SocketsInv, FlightInv
  <2>3. tcp'[c].flight = y \o piece /\ sent'[c] = sent[c] \o piece
    BY <1>2, <1>4
  <2> HIDE DEF x, y
  <2>4. x \o (y \o piece) = (x \o y) \o piece
    BY <2>1, ConcatAssociative
  <2> QED BY <1>1, <1>4, <2>2, <2>3, <2>4 DEF x
<1>5. CASE c # id
  BY <1>2, <1>3, <1>5 DEF SocketsInv, FlightInv
<1> QED BY <1>4, <1>5

\* On a connection that is still whole all but the rest is there.
LEMMA SendPieceWhole ==
  ASSUME SocketsInv, SendPiece, iSocketId \notin cut'
  PROVE  LET id == iSocketId IN
         /\ sent'[id] \in Seq(Unit) /\ Remaining(id)' \in Seq(Unit)
         /\ sent'[id] \o Remaining(id)' = Text(begunOn'[id])
         /\ IsLast => Remaining(id)' = <<>>
<1> DEFINE id == iSocketId
           m == sending.message
           a == sending.p
           piece == SubSeq(Units(m), a + 1, PieceEnd)
           rest == Left(PieceEnd, m)
<1>1. /\ id \in Ids /\ ~tcp[id].dead /\ sending # NULL /\ a \in Nat /\ m \in Messages
      /\ PieceEnd \in Nat /\ a <= PieceEnd /\ PieceEnd <= Length[m]
      /\ (IsLast => PieceEnd = Length[m]) /\ (~IsLast => PieceEnd > 0)
  BY SendFacts DEF SendPiece
<1>2. /\ cut \subseteq cut' /\ (a > 0 => sending.on = id)
      /\ sent'[id] = sent[id] \o piece /\ sent' \in [Ids -> Seq(Unit)]
  BY PieceWritten
<1>3. sent[id] \in Seq(Unit) /\ begunOn[id] \in Seq(Messages)
  BY <1>1 DEF SocketsInv, SocketsTypeInv
<1>4. sent[id] \o Remaining(id) = Text(begunOn[id])
  BY <1>1, <1>2 DEF SocketsInv, WholeInv
<1> HIDE DEF m, a
<1>5. piece \in Seq(Unit) /\ rest \in Seq(Unit) /\ piece \o rest = Left(a, m)
  BY <1>1, LeftIsPieceAndLeft
<1>6. sent[id] \o Left(a, m) = Text(begunOn'[id])
  <2>1. CASE a = 0
    <3>1. Remaining(id) = <<>>
      BY <2>1 DEF Remaining, Midway, a
    <3>2. sent[id] = Text(begunOn[id])
      BY <1>3, <1>4, <3>1
    <3>3. begunOn'[id] = Append(begunOn[id], m)
      BY <2>1, SendMoves DEF a, m
    <3> QED BY <1>1, <1>3, <2>1, <3>2, <3>3, TextAppend, LeftAll
  <2>2. CASE a # 0
    <3>1. Remaining(id) = Left(a, m)
      BY <1>1, <1>2, <2>2 DEF Remaining, Midway, a, m
    <3>2. begunOn'[id] = begunOn[id]
      BY <2>2, SendMoves DEF a
    <3> QED BY <1>4, <3>1, <3>2
  <2> QED BY <2>1, <2>2
<1>7. Remaining(id)' = rest
  <2>1. iSocketId' = id
    BY SendMoves
  <2>2. CASE IsLast
    <3>1. sending' = NULL /\ rest = <<>>
      BY <1>1, <2>2, SendMoves, NothingLeft
    <3> QED BY <3>1 DEF Remaining, Midway
  <2>3. CASE ~IsLast
    <3>1. sending' = [message |-> m, p |-> PieceEnd, on |-> id]
      BY <2>3, SendMoves DEF m
    <3>2. sending' # NULL /\ sending'.p = PieceEnd /\ sending'.on = id /\ sending'.message = m
      <4>1. NULL \notin Sends
        BY SocketsAssumption DEF Sends
      <4>2. id \in Int
        BY <1>1 DEF Ids
      <4> QED BY <1>1, <3>1, <4>1, <4>2 DEF Sends
    <3> QED BY <1>1, <2>1, <2>3, <3>2 DEF Remaining, Midway, Left, Units
  <2> QED BY <2>2, <2>3
<1>8. IsLast => rest = <<>>
  BY <1>1, NothingLeft
<1> HIDE DEF id, piece, rest
<1>9. (sent[id] \o piece) \o rest = sent[id] \o (piece \o rest)
  <2> DEFINE x == sent[id]
  <2>1. x \in Seq(Unit) /\ piece \in Seq(Unit) /\ rest \in Seq(Unit)
    BY <1>3, <1>5
  <2> HIDE DEF x
  <2>2. (x \o piece) \o rest = x \o (piece \o rest)
    BY <2>1, ConcatAssociative
  <2> QED BY <2>2 DEF x
<1> QED BY <1>1, <1>2, <1>5, <1>6, <1>7, <1>8, <1>9 DEF id

\* SendPiece keeps the invariant: a connection that is not whole any more is in cut.
LEMMA SendPieceInv == ASSUME SocketsInv, SendPiece PROVE SocketsInv'
<1> DEFINE id == iSocketId
           m == sending.message
           x == sent'[id]
           y == Remaining(id)'
           z == Text(begunOn'[id])
<1>1. /\ id \in DOMAIN tcp /\ id \in Ids /\ m \in Messages /\ sending # NULL /\ sending.p \in Nat
  BY SendFacts DEF SendPiece
<1>2. PICK piece \in Seq(Unit) :
        /\ cut \subseteq cut' /\ (sending.p > 0 /\ sending.on # id => {id, sending.on} \subseteq cut')
        /\ sent'[id] = sent[id] \o piece /\ \A c \in Ids \ {id} : sent'[c] = sent[c]
  <2>1. PICK end \in Nat :
          /\ sending.p <= end /\ end <= PieceEnd
          /\ cut \subseteq cut' /\ (sending.p > 0 /\ sending.on # id => {id, sending.on} \subseteq cut')
          /\ sent'[id] = sent[id] \o SubSeq(Units(m), sending.p + 1, end)
          /\ \A c \in Ids \ {id} : sent'[c] = sent[c]
    BY PieceWritten
  <2>2. PieceEnd \in Nat /\ PieceEnd <= Length[m] /\ Length[m] \in Nat
    BY SendFacts, UnitsType DEF SendPiece
  <2>3. end <= Length[m]
    BY <2>1, <2>2
  <2>4. SubSeq(Units(m), sending.p + 1, end) \in Seq(Unit)
    BY <1>1, <2>1, <2>3, LeftIsPieceAndLeft
  <2> QED BY <2>1, <2>4
<1>3. /\ iSocketId' = id
      /\ \/ IsLast /\ sending' = NULL /\ accepted' = Append(accepted, m)
         \/ /\ ~IsLast /\ sending' = [message |-> m, p |-> PieceEnd, on |-> id]
            /\ accepted' = accepted
      /\ begunOn'[id] = IF sending.p = 0 THEN Append(begunOn[id], m) ELSE begunOn[id]
      /\ \A c \in Ids \ {id} : begunOn'[c] = begunOn[c]
      /\ begunOn' \in [Ids -> Seq(Messages)]
  BY SendMoves
<1>4. SocketsTypeInv' /\ BufferInv' /\ BegunInv' /\ FlightInv'
  BY SendPieceType, SendPieceBuffer, SendPieceBegun, SendPieceFlight
<1>5. begunOn \in [Ids -> Seq(Messages)] /\ sent \in [Ids -> Seq(Unit)] /\ accepted \in Seq(Messages)
  BY DEF SocketsInv, SocketsTypeInv
<1>6. id \notin cut' => x \in Seq(Unit) /\ y \in Seq(Unit) /\ x \o y = z /\ (IsLast => y = <<>>)
  BY SendPieceWhole
<1> HIDE DEF x, y, z
<1>7. WholeInv'
  <2> SUFFICES ASSUME NEW c \in Ids \ cut'
               PROVE  /\ IsPrefix(sent'[c], Text(begunOn'[c]))
                      /\ c = id => sent'[c] \o Remaining(c)' = Text(begunOn'[c])
    BY <1>3 DEF WholeInv, Text, Units
  <2>1. CASE c = id
    <3>1. x \in Seq(Unit) /\ y \in Seq(Unit) /\ x \o y = z
      BY <1>6, <2>1
    <3>2. Remaining(c)' = y
      BY <1>3, <2>1 DEF y
    <3>3. IsPrefix(x, z)
      BY <3>1, PrefixOfConcat
    <3> QED BY <2>1, <3>1, <3>2, <3>3 DEF x, z
  <2>2. CASE c # id
    <3>1. sent'[c] = sent[c] /\ begunOn'[c] = begunOn[c] /\ c \in Ids \ cut
      BY <1>2, <1>3, <2>2
    <3> QED BY <2>2, <3>1 DEF SocketsInv, WholeInv
  <2> QED BY <2>1, <2>2
<1>8. \A c \in Ids : Range(begunOn[c]) \subseteq Range(begunOn'[c]) /\ Range(sent[c]) \subseteq Range(sent'[c])
  <2> SUFFICES ASSUME NEW c \in Ids
               PROVE  /\ Range(begunOn[c]) \subseteq Range(begunOn'[c])
                      /\ Range(sent[c]) \subseteq Range(sent'[c])
    OBVIOUS
  <2>1. CASE c = id
    <3> DEFINE v == begunOn[c]
               w == sent[c]
    <3>1. v \in Seq(Messages) /\ w \in Seq(Unit)
      BY <1>5
    <3>2. begunOn'[c] \in {v, Append(v, m)} /\ sent'[c] = w \o piece
      BY <1>2, <1>3, <2>1
    <3> HIDE DEF v, w, m
    <3>3. Range(Append(v, m)) = Range(v) \union {m}
      BY <1>1, <3>1, RangeAppend
    <3>4. Range(w) \subseteq Range(sent'[c])
      BY <3>1, <3>2, RangeConcat
    <3> QED BY <3>2, <3>3, <3>4 DEF v, w
  <2>2. CASE c # id
    BY <1>2, <1>3, <2>2
  <2> QED BY <2>1, <2>2
\* The message in hand was begun on its socket, or on one it left.
<1>9. \E c \in Ids : m \in Range(begunOn'[c]) /\ (c = id \/ c \in cut')
  <2>1. CASE sending.p = 0
    <3> DEFINE v == begunOn[id]
    <3>1. v \in Seq(Messages) /\ begunOn'[id] = Append(v, m)
      BY <1>1, <1>3, <1>5, <2>1
    <3> HIDE DEF v, m
    <3>2. m \in Range(begunOn'[id])
      BY <1>1, <3>1, RangeAppend
    <3> QED BY <1>1, <3>2
  <2>2. CASE sending.p # 0
    <3>1. Midway
      BY <1>1, <2>2 DEF Midway
    <3>2. PICK c \in cut \union {sending.on} : c \in Ids /\ m \in Range(begunOn[c])
      BY <3>1 DEF SocketsInv, AcceptedInv
    <3>3. c = id \/ c \in cut'
      BY <1>2, <3>1, <3>2 DEF Midway
    <3> QED BY <1>8, <3>2, <3>3
  <2> QED BY <2>1, <2>2
<1>10. AcceptedInv'
  <2>1. ASSUME NEW w \in Range(accepted')
        PROVE  \E c \in Ids : /\ w \in Range(begunOn'[c])
                              /\ c \notin cut' => Range(Units(w)) \subseteq Range(sent'[c])
    <3>1. CASE w \in Range(accepted)
      <4>1. PICK c \in Ids : /\ w \in Range(begunOn[c])
                             /\ c \notin cut => Range(Units(w)) \subseteq Range(sent[c])
        BY <3>1 DEF SocketsInv, AcceptedInv
      <4> QED BY <1>2, <1>8, <4>1
    <3>2. CASE w \notin Range(accepted)
      <4>1. IsLast /\ w = m
        <5>1. accepted' # accepted
          BY <3>2
        <5>2. IsLast /\ accepted' = Append(accepted, m)
          BY <1>3, <5>1
        <5> HIDE DEF m
        <5> QED BY <1>1, <1>5, <3>2, <5>2, RangeAppend
      <4>2. PICK c \in Ids : m \in Range(begunOn'[c]) /\ (c = id \/ c \in cut')
        BY <1>9
      <4>3. CASE c \in cut'
        BY <4>1, <4>2, <4>3
      <4>4. CASE c = id /\ c \notin cut'
        <5>1. sent'[id] = Text(begunOn'[id])
          <6>1. x \in Seq(Unit) /\ x \o <<>> = z
            BY <1>6, <4>1, <4>4
          <6>2. x \o <<>> = x
            BY <6>1
          <6> QED BY <6>1, <6>2 DEF x, z
        <5>2. begunOn'[id] \in Seq(Messages)
          BY <1>1, <1>3
        <5>3. Range(Units(m)) \subseteq Range(Text(begunOn'[id]))
          BY <4>2, <4>4, <5>2, TextHasAll
        <5> QED BY <4>1, <4>2, <4>4, <5>1, <5>3
      <4> QED BY <4>2, <4>3, <4>4
    <3> QED BY <3>1, <3>2
  <2>2. Midway' => \E c \in cut' \union {sending'.on} : c \in Ids /\ sending'.message \in Range(begunOn'[c])
    <3>1. Midway' => sending'.on = id /\ sending'.message = m
      BY <1>3 DEF Midway
    <3> QED BY <1>9, <3>1
  <2> QED BY <2>1, <2>2 DEF AcceptedInv, Units
<1> QED BY <1>4, <1>7, <1>10 DEF SocketsInv

\* close() of the client's socket changes a flag, if there is one to change.
LEMMA StayOrClose ==
  ASSUME SocketsInv, tcp' = tcp \/ tcp' = Closed(iSocketId)
  PROVE  SameFlights
<1>1. tcp \in Seq(Connections)
  BY DEF SocketsInv, SocketsTypeInv
<1>2. CASE tcp' = tcp
  BY <1>1, <1>2 DEF SameFlights
<1>3. CASE tcp' # tcp
  <2>1. iSocketId \in DOMAIN tcp /\ tcp' = [tcp EXCEPT ![iSocketId].near = FALSE]
    BY <1>3 DEF Closed
  <2> QED BY <1>1, <2>1, FieldSet
<1> QED BY <1>2, <1>3

\* Every step keeps the invariant.
LEMMA SocketsNextInv == SocketsInv /\ [SocketsNext]_socketVars => SocketsInv'
<1> SUFFICES ASSUME SocketsInv, [SocketsNext]_socketVars PROVE SocketsInv'
  OBVIOUS
<1>1. tcp \in Seq(Connections) /\ (connecting => iSocketId = NotConnected /\ Len(tcp) < MaxConnections)
  BY DEF SocketsInv, SocketsTypeInv
<1> USE DEF senderVars, serverVars, clientVars
<1>2. CASE Connect
  BY <1>2, StayOrClose, QuietKeeps DEF Connect, NothingWritten
<1>3. CASE Connected
  BY <1>3, ConnectedInv
<1>4. CASE ConnectFails
  BY <1>4, StayOrClose, QuietKeeps DEF ConnectFails, NothingWritten
<1>5. CASE disconnect
  BY <1>5, StayOrClose, QuietKeeps DEF disconnect, NothingWritten
<1>6. ASSUME NEW m \in Messages, Add(m) PROVE SocketsInv'
  BY <1>6, AddInv
<1>7. CASE SendCall
  BY <1>1, <1>7, StayOrClose, QuietKeeps DEF SendCall, NothingWritten
<1>8. CASE SendPiece
  BY <1>8, SendPieceInv
<1>9. CASE SendFails
  BY <1>1, <1>9, StayOrClose, QuietKeeps DEF SendFails, NothingWritten
<1>10. CASE startListening
  BY <1>1, <1>10, StayOrClose, QuietKeeps DEF startListening, NothingWritten
<1>11. CASE Accept
  <2>1. PICK c \in DOMAIN tcp : tcp' = [tcp EXCEPT ![c].taken = TRUE]
    BY <1>11 DEF Accept
  <2>2. SameFlights
    BY <1>1, <2>1, FieldSet
  <2> QED BY <1>1, <1>11, <2>2, QuietKeeps DEF Accept, NothingWritten
<1>12. ASSUME NEW c \in DOMAIN tcp, Receive(c) PROVE SocketsInv'
  BY <1>12, ReceiveInv
<1>13. ASSUME NEW c \in DOMAIN tcp, ReceiveEnds(c) PROVE SocketsInv'
  BY <1>1, <1>13, StayOrClose, QuietKeeps DEF ReceiveEnds, NothingWritten
<1>14. ASSUME NEW c \in DOMAIN tcp, DeleteConnection(c) PROVE SocketsInv'
  <2>1. SameFlights
    BY <1>1, <1>14, FieldSet DEF DeleteConnection
  <2> QED BY <1>1, <1>14, <2>1, QuietKeeps DEF DeleteConnection, NothingWritten
<1>15. ASSUME NEW c \in DOMAIN tcp, Reset(c) PROVE SocketsInv'
  <2>1. SameFlights
    BY <1>1, <1>15, FieldSet DEF Reset
  <2> QED BY <1>1, <1>15, <2>1, QuietKeeps DEF Reset, NothingWritten
<1>16. CASE UNCHANGED socketVars
  BY <1>1, <1>16, StayOrClose, QuietKeeps DEF socketVars, NothingWritten
<1> QED BY <1>2, <1>3, <1>4, <1>5, <1>6, <1>7, <1>8, <1>9, <1>10, <1>11, <1>12, <1>13, <1>14, <1>15, <1>16
        DEF SocketsNext, SenderStep

(***************************************************************************)
(* Theorems                                                                 *)
(***************************************************************************)

\* Type correctness and the inductive invariant, of every reachable state.
THEOREM SocketsCorrect == SocketsSpec => []SocketsInv
<1> QED BY SocketsInitInv, SocketsNextInv, PTL DEF SocketsSpec

\* What send() says is sent was sent, each message once and in the order of add(),
\* and is on the connections: on one that no write was short on and no message
\* changed to or from the units are those of whole messages, one behind the other,
\* with all of every message that is accepted; what is read is what was written.
THEOREM StreamArrivesWhole == SocketsSpec => []StreamIsWhole
<1>1. SocketsInv => StreamIsWhole
  <2> SUFFICES ASSUME SocketsInv PROVE StreamIsWhole
    OBVIOUS
  <2>1. accepted \o aBuffer = added
    BY DEF SocketsInv, BufferInv
  <2>2. \A i \in DOMAIN begun :
          i > 1 => \/ begun[i] = begun[i - 1]
                   \/ \E k \in 2 .. Len(added) : begun[i] = added[k] /\ begun[i - 1] = added[k - 1]
    <3>1. begun \in Seq(Messages)
      BY DEF SocketsInv, SocketsTypeInv
    <3>2. \A i \in DOMAIN begun : i > 1 => i \in 2 .. Len(begun)
      BY <3>1
    <3> QED BY <3>2 DEF SocketsInv, BegunInv
  <2>3. ASSUME NEW c \in Ids PROVE IsPrefix(received[c], sent[c])
    <3> DEFINE r == received[c]
               s == sent[c]
    <3>1. r \in Seq(Unit) /\ s \in Seq(Unit)
      BY DEF SocketsInv, SocketsTypeInv
    <3>2. PICK t \in Seq(Unit) : r \o t = s
      <4>1. CASE c \in DOMAIN tcp
        <5>1. tcp[c].flight \in Seq(Unit)
          <6>1. tcp \in Seq(Connections)
            BY DEF SocketsInv, SocketsTypeInv
          <6>2. tcp[c] \in Connections
            BY <4>1, <6>1
          <6> QED BY <6>2 DEF Connections
        <5> QED BY <4>1, <5>1 DEF SocketsInv, FlightInv
      <4>2. CASE c \notin DOMAIN tcp
        <5>1. r = <<>> /\ s = <<>>
          BY <4>2 DEF SocketsInv, FlightInv
        <5>2. <<>> \in Seq(Unit) /\ <<>> \o <<>> = <<>>
          OBVIOUS
        <5> QED BY <5>1, <5>2
      <4> QED BY <4>1, <4>2
    <3> HIDE DEF r, s
    <3>3. IsPrefix(r, s)
      BY <3>1, <3>2, PrefixOfConcat
    <3> QED BY <3>3 DEF r, s
  <2>4. \A c \in Ids \ cut : IsPrefix(sent[c], Text(begunOn[c]))
    BY DEF SocketsInv, WholeInv
  <2>5. \A m \in Range(accepted) : \E c \in Ids :
          /\ m \in Range(begunOn[c])
          /\ c \notin cut => Range(Units(m)) \subseteq Range(sent[c])
    BY DEF SocketsInv, AcceptedInv
  <2> QED BY <2>1, <2>2, <2>3, <2>4, <2>5 DEF StreamIsWhole
<1> QED BY <1>1, SocketsCorrect, PTL
=============================================================================
