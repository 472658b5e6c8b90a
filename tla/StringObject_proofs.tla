------------------------ MODULE StringObject_proofs ------------------------
(***************************************************************************)
(* Theorem about a String's memory, for any texts, any bound on the        *)
(* memory that may be had and any sequence of calls: it holds the text     *)
(* the calls stand for.                                                    *)
(*                                                                         *)
(* The invariant: the object is one as the code keeps it (IsString:        *)
(* memory of size + 4 characters, a length that is not beyond size, a      *)
(* zero behind the text) and shows the text (Shows: character by           *)
(* character). There is one lemma for each operation, of any object and    *)
(* any text it shows, ...Holds, and one for each call, ...Keeps.           *)
(*                                                                         *)
(* replace() runs a loop: ReplaceInMemory is the object of the last of     *)
(* its rounds, as many as the text has characters (ReplaceIsTheRounds).    *)
(* After n of them the object shows what the answer begins with and what   *)
(* is left of the text from its n-th character on, or the loop is over     *)
(* and it shows the answer (OnTheWay).                                     *)
(***************************************************************************)
EXTENDS StringObject, SequenceLemmas

\* What a text may be made of: what the calls are given, and what memory may hold.
Symbols == (UNION {Range(s) : s \in Values}) \union {Zero, Garbage}

\* An object as the code keeps it.
IsString(o) ==
  /\ o = [value |-> o.value, strlength |-> o.strlength, size |-> o.size]
  /\ o.size \in Nat /\ o.strlength \in 0 .. o.size
  /\ o.value \in [0 .. o.size + 3 -> Symbols]
  /\ o.value[o.strlength] = Zero

\* t is the text the object holds.
Shows(o, t) ==
  /\ t \in Seq(Symbols) /\ Len(t) = o.strlength
  /\ \A i \in 0 .. o.strlength - 1 : o.value[i] = t[i + 1]

Memory(value, size) == size \in Nat /\ value \in [0 .. size + 3 -> Symbols]

\* Memory holds zeros where a text ends, and garbage where nobody wrote.
LEMMA SymbolsAre == Zero \in Symbols /\ Garbage \in Symbols
BY DEF Symbols

\* What the calls are given is a text over the symbols.
LEMMA ValuesAreTexts ==
  ASSUME NEW s \in Values
  PROVE  s \in Seq(Symbols)
<1>1. s \in Seq(Range(s))
  BY ValuesAssumption
<1>2. Range(s) \subseteq Symbols
  BY DEF Symbols
<1> HIDE DEF Symbols
<1> QED BY <1>1, <1>2

\* Content is what the object shows.
LEMMA ContentShows ==
  ASSUME NEW o, IsString(o)
  PROVE  Shows(o, Content(o))
<1>1. o.size \in Nat /\ o.strlength \in 0 .. o.size /\ o.value \in [0 .. o.size + 3 -> Symbols]
  BY DEF IsString
<1>2. Content(o) = [k \in 1 .. o.strlength |-> o.value[k - 1]]
  <2>1. \A k \in 1 .. o.strlength : 0 + k - 1 = k - 1
    BY <1>1
  <2> QED BY <2>1 DEF Content, Copied
<1>3. \A k \in 1 .. o.strlength : o.value[k - 1] \in Symbols
  BY <1>1
<1>4. Content(o) \in Seq(Symbols) /\ Len(Content(o)) = o.strlength
  BY <1>1, <1>2, <1>3
<1>5. ASSUME NEW i \in 0 .. o.strlength - 1 PROVE o.value[i] = Content(o)[i + 1]
  <2>1. i + 1 \in 1 .. o.strlength /\ (i + 1) - 1 = i
    BY <1>1
  <2> QED BY <1>2, <2>1
<1> QED BY <1>4, <1>5 DEF Shows

\* An object shows one text only.
LEMMA ShownIsContent ==
  ASSUME NEW o, NEW t, IsString(o), Shows(o, t)
  PROVE  Content(o) = t
<1> DEFINE c == Content(o)
<1>1. /\ c \in Seq(Symbols) /\ Len(c) = o.strlength
      /\ \A i \in 0 .. o.strlength - 1 : o.value[i] = c[i + 1]
  BY ContentShows DEF Shows
<1> HIDE DEF c
<1>2. /\ t \in Seq(Symbols) /\ Len(t) = o.strlength
      /\ \A i \in 0 .. o.strlength - 1 : o.value[i] = t[i + 1]
  BY DEF Shows
<1>3. ASSUME NEW k \in 1 .. Len(c) PROVE c[k] = t[k]
  <2>1. k - 1 \in 0 .. o.strlength - 1 /\ (k - 1) + 1 = k
    BY <1>1
  <2> QED BY <1>1, <1>2, <2>1
<1>4. c = t
  BY <1>1, <1>2, <1>3, SeqEqual
<1> QED BY <1>4 DEF c

-----------------------------------------------------------------------------
(* What the steps on memory do.                                             *)

Overwritten(w, value, size, at, s) ==
  /\ Memory(w, size)
  /\ \A i \in 0 .. size + 3 : i \in at .. at + Len(s) - 1 => w[i] = s[i - at + 1]
  /\ \A i \in 0 .. size + 3 : i \notin at .. at + Len(s) - 1 => w[i] = value[i]

\* Writing a text into the memory changes the places it is written to.
LEMMA WrittenAt ==
  ASSUME NEW value, NEW size, Memory(value, size), NEW at \in Nat, NEW s \in Seq(Symbols)
  PROVE  Overwritten(Written(value, at, s), value, size, at, s)
<1>1. DOMAIN value = 0 .. size + 3
  BY DEF Memory
<1>2. ASSUME NEW i \in 0 .. size + 3, i \in at .. at + Len(s) - 1 PROVE s[i - at + 1] \in Symbols
  <2>1. i - at + 1 \in 1 .. Len(s)
    BY <1>2
  <2> QED BY <2>1
<1> QED BY <1>1, <1>2 DEF Written, Memory, CharAt, Overwritten

\* Ending a text changes the four places behind it.
LEMMA TerminatedAt ==
  ASSUME NEW value, NEW size, Memory(value, size), NEW at
  PROVE  /\ Memory(Terminated(value, at), size)
         /\ \A i \in 0 .. size + 3 :
              Terminated(value, at)[i] = IF i \in at .. at + 3 THEN Zero ELSE value[i]
BY SymbolsAre DEF Terminated, Memory

IsCopy(c, value, at, length) ==
  /\ c \in Seq(Symbols) /\ Len(c) = length
  /\ \A k \in 1 .. length : c[k] = value[at + k - 1]

\* What is copied out of the memory is what it holds there.
LEMMA CopiedFrom ==
  ASSUME NEW value, NEW size, Memory(value, size), NEW at \in Nat, NEW length \in Nat,
         at + length <= size + 4
  PROVE  IsCopy(Copied(value, at, length), value, at, length)
<1>1. \A k \in 1 .. length : at + k - 1 \in 0 .. size + 3
  BY DEF Memory
<1>2. \A k \in 1 .. length : value[at + k - 1] \in Symbols
  BY <1>1 DEF Memory
<1> QED BY <1>2 DEF Copied, IsCopy

\* setValue() has the object hold what it is given.
LEMMA SetValueHolds ==
  ASSUME NEW o, NEW s \in Seq(Symbols)
  PROVE  IsString(setValue(o, s)) /\ Shows(setValue(o, s), s)
<1> DEFINE n == Len(s)
           f == Fresh(n)
           w == Written(f, 0, s)
           v == Terminated(w, n)
<1>1. n \in Nat /\ 0 \in Nat
  OBVIOUS
<1>2. Memory(f, n)
  BY <1>1, SymbolsAre DEF Fresh, Memory
<1> HIDE DEF f, n
<1>3. Memory(w, n)
  <2>1. Overwritten(w, f, n, 0, s)
    BY <1>1, <1>2, WrittenAt
  <2> QED BY <2>1 DEF Overwritten
<1>4. \A i \in 0 .. n - 1 : w[i] = s[i + 1]
  BY <1>1, <1>2 DEF Written, Memory, CharAt, n
<1> HIDE DEF w
<1>5. Memory(v, n) /\ \A i \in 0 .. n + 3 : v[i] = IF i \in n .. n + 3 THEN Zero ELSE w[i]
  BY <1>3, TerminatedAt
<1> HIDE DEF v
<1>6. setValue(o, s) = [value |-> v, strlength |-> n, size |-> n]
  BY DEF setValue, v, w, f, n
<1>7. v[n] = Zero /\ \A i \in 0 .. n - 1 : v[i] = s[i + 1]
  <2>1. n \in 0 .. n + 3 /\ n \in n .. n + 3
        /\ \A i \in 0 .. n - 1 : i \in 0 .. n + 3 /\ i \notin n .. n + 3
    BY <1>1
  <2> QED BY <1>4, <1>5, <2>1
<1> QED BY <1>1, <1>5, <1>6, <1>7 DEF IsString, Shows, Memory, n

\* setSize() keeps what fits, and the object is as large as was asked for.
LEMMA SetSizeHolds ==
  ASSUME NEW o, IsString(o), NEW t, Shows(o, t), NEW n \in Nat
  PROVE  /\ IsString(setSize(o, n))
         /\ MaySetSize(n) => setSize(o, n).size = n
         /\ Shows(setSize(o, n), IF MaySetSize(n) /\ n < Len(t) THEN SubSeq(t, 1, n) ELSE t)
<1> DEFINE l == IF n < o.strlength THEN n ELSE o.strlength
           m == [i \in 0 .. n + 3 |-> IF i <= o.size + 3 THEN o.value[i] ELSE Garbage]
           v == Terminated(m, n)
           u == IF n < Len(t) THEN SubSeq(t, 1, n) ELSE t
<1>1. /\ o.size \in Nat /\ o.strlength \in 0 .. o.size
      /\ o.value \in [0 .. o.size + 3 -> Symbols] /\ o.value[o.strlength] = Zero
      /\ t \in Seq(Symbols) /\ Len(t) = o.strlength
      /\ \A i \in 0 .. o.strlength - 1 : o.value[i] = t[i + 1]
  BY DEF IsString, Shows
<1>2. CASE ~MaySetSize(n)
  BY <1>2 DEF setSize
<1>3. CASE MaySetSize(n)
  <2>1. Memory(m, n)
    <3>1. \A i \in 0 .. n + 3 : i <= o.size + 3 => o.value[i] \in Symbols
      BY <1>1
    <3> QED BY <3>1, SymbolsAre DEF Memory
  <2>2. \A i \in 0 .. n + 3 : i <= o.size + 3 => m[i] = o.value[i]
    OBVIOUS
  <2> HIDE DEF m
  <2>3. Memory(v, n) /\ \A i \in 0 .. n + 3 : v[i] = IF i \in n .. n + 3 THEN Zero ELSE m[i]
    BY <2>1, TerminatedAt
  <2> HIDE DEF v
  <2>4. setSize(o, n) = [value |-> v, strlength |-> l, size |-> n]
    BY <1>1, <1>3 DEF setSize, Least, v, m
  <2>5. u \in Seq(Symbols) /\ Len(u) = l /\ \A i \in 1 .. l : u[i] = t[i]
    BY <1>1
  <2> HIDE DEF u
  <2>6. l \in 0 .. n /\ l <= o.strlength /\ (l < n => l = o.strlength)
    BY <1>1
  <2> HIDE DEF l
  <2>7. v[l] = Zero
    BY <1>1, <2>2, <2>3, <2>6
  <2>8. ASSUME NEW i \in 0 .. l - 1 PROVE v[i] = u[i + 1]
    <3>1. i \in 0 .. n + 3 /\ i \notin n .. n + 3 /\ i <= o.size + 3 /\ i \in 0 .. o.strlength - 1
          /\ i + 1 \in 1 .. l
      BY <1>1, <2>6
    <3> QED BY <1>1, <2>2, <2>3, <2>5, <3>1
  <2>9. IsString([value |-> v, strlength |-> l, size |-> n])
    BY <2>3, <2>6, <2>7 DEF IsString, Memory
  <2>10. Shows([value |-> v, strlength |-> l, size |-> n], u)
    BY <2>5, <2>8 DEF Shows
  <2> QED BY <1>3, <2>4, <2>9, <2>10 DEF u
<1> QED BY <1>2, <1>3

\* Memory is only ever added, up to what may be had.
LEMMA GrownHolds ==
  ASSUME NEW o, IsString(o), NEW t, Shows(o, t), NEW n \in Nat
  PROVE  /\ IsString(Grown(o, n)) /\ Shows(Grown(o, n), t)
         /\ Grown(o, n).size >= o.size
         /\ n <= Grown(o, n).size <=> n <= o.size \/ n <= MaxSize
<1>1. o.size \in Nat /\ o.strlength \in 0 .. o.size /\ Len(t) = o.strlength
  BY DEF IsString, Shows
<1>2. CASE o.size < n
  <2>1. ~(n < Len(t))
    BY <1>1, <1>2
  <2>2. IsString(setSize(o, n)) /\ Shows(setSize(o, n), t)
    BY <2>1, SetSizeHolds
  <2>3. CASE MaySetSize(n)
    <3>1. setSize(o, n).size = n
      BY <2>3, SetSizeHolds
    <3> QED BY <1>1, <1>2, <2>2, <2>3, <3>1 DEF Grown, MaySetSize
  <2>4. CASE ~MaySetSize(n)
    <3>1. setSize(o, n) = o
      BY <2>4 DEF setSize
    <3> QED BY <1>1, <1>2, <2>4, <3>1, SizeAssumption DEF Grown, MaySetSize
  <2> QED BY <2>3, <2>4
<1>3. CASE ~(o.size < n)
  BY <1>1, <1>3 DEF Grown
<1> QED BY <1>2, <1>3

\* An object with its memory ended at n, where it holds the characters of a text of
\* that length, shows that text.
LEMMA EndedShows ==
  ASSUME NEW size \in Nat, NEW n \in 0 .. size, NEW value, Memory(value, size),
         NEW t \in Seq(Symbols), Len(t) = n, \A i \in 0 .. n - 1 : value[i] = t[i + 1],
         NEW r, r = [value |-> Terminated(value, n), strlength |-> n, size |-> size]
  PROVE  IsString(r) /\ Shows(r, t)
<1> DEFINE v == Terminated(value, n)
<1>1. Memory(v, size) /\ \A i \in 0 .. size + 3 : v[i] = IF i \in n .. n + 3 THEN Zero ELSE value[i]
  BY TerminatedAt
<1>2. r.value = v /\ r.strlength = n /\ r.size = size
      /\ r = [value |-> r.value, strlength |-> r.strlength, size |-> r.size]
  OBVIOUS
<1> HIDE DEF v
<1>3. n \in 0 .. size + 3 /\ n \in n .. n + 3
      /\ \A i \in 0 .. n - 1 : i \in 0 .. size + 3 /\ i \notin n .. n + 3
  OBVIOUS
<1>4. v[n] = Zero /\ \A i \in 0 .. n - 1 : v[i] = t[i + 1]
  BY <1>1, <1>3
<1>5. IsString(r)
  BY <1>1, <1>2, <1>4 DEF IsString, Memory
<1>6. Shows(r, t)
  BY <1>2, <1>4 DEF Shows
<1> QED BY <1>5, <1>6

\* setLength() cuts the text, or shows more of the memory; without memory for it
\* nothing happens.
LEMMA SetLengthHolds ==
  ASSUME NEW o, IsString(o), NEW t, Shows(o, t), NEW n \in Nat
  PROVE  LET r == setLength(o, n)
         IN  /\ IsString(r) /\ r.size >= o.size
             /\ IF n <= o.size \/ n <= MaxSize
                THEN /\ r.strlength = n
                     /\ \A i \in 0 .. n - 1 : i < Len(t) => r.value[i] = t[i + 1]
                ELSE r = o
<1> DEFINE g == Grown(o, n)
           c == [k \in 1 .. n |-> g.value[k - 1]]
           r == setLength(o, n)
<1>0. o.size \in Nat
  BY DEF IsString
<1>1. /\ IsString(g) /\ Shows(g, t) /\ g.size >= o.size
      /\ n <= g.size <=> n <= o.size \/ n <= MaxSize
  BY GrownHolds
<1> HIDE DEF g
<1>3. g.size \in Nat /\ g.value \in [0 .. g.size + 3 -> Symbols] /\ g.strlength \in 0 .. g.size
  BY <1>1 DEF IsString
<1>4. CASE g.size < n
  <2>1. r = o /\ ~(n <= g.size)
    BY <1>3, <1>4 DEF setLength, g
  <2> QED BY <1>0, <1>1, <2>1
<1>5. CASE ~(g.size < n)
  <2>1. n \in 0 .. g.size /\ Memory(g.value, g.size)
    BY <1>3, <1>5 DEF Memory
  <2>2. \A k \in 1 .. n : k - 1 \in 0 .. g.size + 3
    BY <1>3, <2>1
  <2>3. c \in Seq(Symbols) /\ Len(c) = n
    BY <1>3, <2>2
  <2>4. \A i \in 0 .. n - 1 : g.value[i] = c[i + 1]
    <3>1. \A i \in 0 .. n - 1 : i + 1 \in 1 .. n /\ (i + 1) - 1 = i
      OBVIOUS
    <3> QED BY <3>1
  <2> HIDE DEF c
  <2>5. r = [g EXCEPT !.value = Terminated(g.value, n), !.strlength = n]
    BY <1>5 DEF setLength, g
  <2>6. g = [value |-> g.value, strlength |-> g.strlength, size |-> g.size]
    BY <1>1 DEF IsString
  <2> HIDE DEF r
  <2>7. r = [value |-> Terminated(g.value, n), strlength |-> n, size |-> g.size]
    BY <2>5, <2>6
  <2>8. IsString(r) /\ Shows(r, c)
    BY <1>3, <2>1, <2>3, <2>4, <2>7, EndedShows
  <2>9. r.strlength = n /\ r.size = g.size /\ \A i \in 0 .. n - 1 : r.value[i] = g.value[i]
    BY <2>3, <2>4, <2>7, <2>8 DEF Shows
  <2>10. \A i \in 0 .. n - 1 : i < Len(t) => g.value[i] = t[i + 1]
    BY <1>1, <1>3 DEF Shows
  <2>11. n <= g.size
    BY <2>1
  <2> QED BY <1>0, <1>1, <1>3, <2>8, <2>9, <2>10, <2>11 DEF r
<1> QED BY <1>4, <1>5

\* append() puts a text behind the text, if there is memory for both.
LEMMA AppendHolds ==
  ASSUME NEW o, IsString(o), NEW t, Shows(o, t), NEW s \in Seq(Symbols)
  PROVE  LET n == Len(t) + Len(s)
         IN  /\ IsString(append(o, s))
             /\ Shows(append(o, s), IF n <= o.size \/ n <= MaxSize THEN t \o s ELSE t)
<1> DEFINE l == Len(t)
           n == l + Len(s)
           g == Grown(o, n)
           w == Written(g.value, l, s)
           r == append(o, s)
           ts == t \o s
<1>0. /\ o.size \in Nat /\ l = o.strlength /\ l \in Nat /\ Len(s) \in Nat /\ n \in Nat
      /\ t \in Seq(Symbols)
  BY DEF IsString, Shows
<1>1. /\ ts \in Seq(Symbols) /\ Len(ts) = n
      /\ \A i \in 1 .. l : ts[i] = t[i]
      /\ \A i \in 1 .. Len(s) : ts[l + i] = s[i]
  <2>1. Joins(Symbols, ts, t, l, s, Len(s))
    BY <1>0, JoinsThem
  <2> HIDE DEF l, ts
  <2> QED BY <2>1 DEF Joins
<1>2. /\ IsString(g) /\ Shows(g, t) /\ g.size >= o.size
      /\ n <= g.size <=> n <= o.size \/ n <= MaxSize
  BY <1>0, GrownHolds
<1> HIDE DEF g, n, ts
<1>3. g.size \in Nat /\ g.value \in [0 .. g.size + 3 -> Symbols] /\ g.strlength \in 0 .. g.size
      /\ g = [value |-> g.value, strlength |-> g.strlength, size |-> g.size]
  BY <1>2 DEF IsString
<1>4. CASE n = 0 \/ g.size < n
  <2>1. r = o
    BY <1>0, <1>4 DEF append, g, n
  <2>2. n = 0 => ts = t
    <3>1. n = 0 => Len(ts) = 0 /\ Len(t) = 0
      BY <1>0, <1>1 DEF n
    <3> QED BY <1>0, <1>1, <3>1, EmptySeq
  <2>3. g.size < n => ~(n <= g.size)
    BY <1>0, <1>3
  <2> QED BY <1>2, <1>4, <2>1, <2>2, <2>3 DEF n, ts
<1>5. CASE ~(n = 0 \/ g.size < n)
  <2>1. r = [g EXCEPT !.value = Terminated(w, n), !.strlength = n]
    BY <1>0, <1>5 DEF append, g, n
  <2> HIDE DEF r, w
  <2>2. r = [value |-> Terminated(w, n), strlength |-> n, size |-> g.size]
    BY <1>3, <2>1
  <2>3. Memory(g.value, g.size)
    BY <1>3 DEF Memory
  <2>4. /\ Memory(w, g.size)
        /\ \A i \in 0 .. g.size + 3 : w[i] = IF i \in l .. l + Len(s) - 1 THEN s[i - l + 1] ELSE g.value[i]
    <3>1. Overwritten(w, g.value, g.size, l, s)
      BY <1>0, <2>3, WrittenAt DEF w
    <3> HIDE DEF l
    <3> QED BY <3>1 DEF Overwritten
  <2>5. \A i \in 0 .. l - 1 : g.value[i] = t[i + 1]
    BY <1>2 DEF Shows
  <2>6. n \in 0 .. g.size
    BY <1>0, <1>3, <1>5
  <2> HIDE DEF l
  <2>7. ASSUME NEW i \in 0 .. n - 1 PROVE w[i] = ts[i + 1]
    <3>1. i \in 0 .. g.size + 3
      BY <1>3, <2>6
    <3>2. CASE i < l
      <4>1. i \in 0 .. l - 1 /\ i + 1 \in 1 .. l /\ i \notin l .. l + Len(s) - 1
        BY <1>0, <3>2
      <4> QED BY <1>1, <2>4, <2>5, <3>1, <4>1
    <3>3. CASE ~(i < l)
      <4> DEFINE k == i - l + 1
      <4>1. i \in l .. l + Len(s) - 1 /\ k \in 1 .. Len(s) /\ l + k = i + 1
        BY <1>0, <3>3 DEF n
      <4>2. w[i] = s[k]
        BY <2>4, <3>1, <4>1
      <4> HIDE DEF k
      <4> QED BY <1>1, <4>1, <4>2
    <3> QED BY <3>2, <3>3
  <2>8. IsString(r) /\ Shows(r, ts)
    BY <1>1, <1>3, <2>2, <2>4, <2>6, <2>7, EndedShows
  <2>9. n <= g.size
    BY <2>6
  <2> QED BY <1>2, <2>8, <2>9 DEF n, ts, r, l
<1> QED BY <1>4, <1>5

\* prepend() puts a text before the text, if both are not too long.
LEMMA PrependHolds ==
  ASSUME NEW o, IsString(o), NEW t, Shows(o, t), NEW s \in Seq(Symbols)
  PROVE  /\ IsString(prepend(o, s))
         /\ Shows(prepend(o, s), IF Len(t) + Len(s) <= MaxSize THEN s \o t ELSE t)
<1>1. Content(o) = t /\ t \in Seq(Symbols) /\ Len(t) = o.strlength
  BY ShownIsContent DEF Shows
<1>2. s \o t \in Seq(Symbols) /\ Len(s) + o.strlength = Len(t) + Len(s)
  BY <1>1
<1>3. IsString(setValue(o, s \o t)) /\ Shows(setValue(o, s \o t), s \o t)
  BY <1>2, SetValueHolds
<1> QED BY <1>1, <1>2, <1>3 DEF prepend

\* removeRange() takes the characters of a range out.
LEMMA RemoveRangeHolds ==
  ASSUME NEW o, IsString(o), NEW t, Shows(o, t), NEW first \in Nat, NEW last \in Nat
  PROVE  IsString(removeRange(o, first, last)) /\ Shows(removeRange(o, first, last), remove(t, first, last))
<1> DEFINE l == o.strlength
           n == l - (last - first + 1)
           tail == Copied(o.value, last + 1, l - last - 1)
           w == Written(o.value, first, tail)
           r == removeRange(o, first, last)
           h == SubSeq(t, 1, first)
           e == SubSeq(t, last + 2, Len(t))
           he == h \o e
<1>1. /\ o = [value |-> o.value, strlength |-> o.strlength, size |-> o.size]
      /\ o.size \in Nat /\ l \in 0 .. o.size
      /\ o.value \in [0 .. o.size + 3 -> Symbols]
      /\ t \in Seq(Symbols) /\ Len(t) = l
      /\ \A i \in 0 .. l - 1 : o.value[i] = t[i + 1]
  BY DEF IsString, Shows
<1>2. CASE first > last \/ last >= l
  BY <1>1, <1>2 DEF removeRange, remove
<1>3. CASE ~(first > last \/ last >= l)
  <2>1. r = [value |-> Terminated(w, n), strlength |-> n, size |-> o.size]
    <3>1. r = [o EXCEPT !.value = Terminated(w, n), !.strlength = n]
      BY <1>3 DEF removeRange
    <3> HIDE DEF r, w, n
    <3> QED BY <1>1, <3>1
  <2>2. remove(t, first, last) = he
    <3>1. first <= last /\ last < Len(t)
      BY <1>1, <1>3
    <3>2. 0 + 1 = 1 /\ 0 + first = first /\ last + 1 + 1 = last + 2
      OBVIOUS
    <3>3. Part(t, 0, first) = h /\ Rest(t, last + 1) = e
      BY <3>2 DEF Part, Rest
    <3> QED BY <3>1, <3>3 DEF remove
  <2>3. first < l /\ last < l /\ first <= last /\ n \in 0 .. o.size /\ n \in Nat /\ l \in Nat /\ n = first + (l - last - 1)
    BY <1>1, <1>3
  <2>4. h \in Seq(Symbols) /\ Len(h) = first /\ \A i \in 1 .. first : h[i] = t[i]
    BY <1>1, <2>3, FirstPart
  <2>5. e \in Seq(Symbols) /\ Len(e) = l - last - 1 /\ \A i \in 1 .. l - last - 1 : e[i] = t[last + 1 + i]
    <3> DEFINE c == Len(t)
               d == last + 2
    <3>0. c = l /\ t \in Seq(Symbols)
      BY <1>1
    <3>2. e = SubSeq(t, d, c)
      OBVIOUS
    <3> HIDE DEF c, e, l
    <3>1. c - d + 1 = l - last - 1 /\ d \in Nat \ {0} /\ c \in Nat /\ d <= c + 1 /\ c <= Len(t)
          /\ \A i \in 1 .. l - last - 1 : d + i - 1 = last + 1 + i
      BY <2>3, <3>0 DEF c
    <3> HIDE DEF d
    <3>3. /\ e \in Seq(Symbols) /\ Len(e) = c - d + 1
          /\ \A i \in 1 .. c - d + 1 : e[i] = t[d + i - 1]
      BY <3>0, <3>1, <3>2, PieceOf
    <3> QED BY <3>1, <3>3
  <2>6. /\ tail \in Seq(Symbols) /\ Len(tail) = l - last - 1
        /\ \A k \in 1 .. l - last - 1 : tail[k] = o.value[last + 1 + k - 1]
    <3>1. Memory(o.value, o.size) /\ last + 1 \in Nat /\ l - last - 1 \in Nat
          /\ last + 1 + (l - last - 1) <= o.size + 4
      BY <1>1, <2>3 DEF Memory
    <3>2. IsCopy(tail, o.value, last + 1, l - last - 1)
      BY <3>1, CopiedFrom
    <3> QED BY <3>2 DEF IsCopy
  <2> HIDE DEF r, tail, h, e
  <2>7. /\ he \in Seq(Symbols) /\ Len(he) = first + (l - last - 1)
        /\ \A i \in 1 .. first : he[i] = h[i]
        /\ \A i \in 1 .. l - last - 1 : he[first + i] = e[i]
    <3>1. Joins(Symbols, he, h, first, e, l - last - 1)
      BY <2>4, <2>5, JoinsThem
    <3> HIDE DEF he, l, n
    <3> QED BY <3>1 DEF Joins
  <2>8. /\ Memory(w, o.size)
        /\ \A i \in 0 .. o.size + 3 :
             w[i] = IF i \in first .. first + Len(tail) - 1 THEN tail[i - first + 1] ELSE o.value[i]
    <3>1. Memory(o.value, o.size)
      BY <1>1 DEF Memory
    <3>2. Overwritten(w, o.value, o.size, first, tail)
      BY <2>6, <3>1, WrittenAt
    <3> HIDE DEF w, l, n
    <3> QED BY <3>2 DEF Overwritten
  <2> HIDE DEF w, he, l, n
  <2>9. ASSUME NEW i \in 0 .. n - 1 PROVE w[i] = he[i + 1]
    <3>1. i \in 0 .. o.size + 3 /\ i \in 0 .. l - 1
      BY <1>1, <2>3
    <3>2. CASE i < first
      <4>1. i + 1 \in 1 .. first /\ i \notin first .. first + Len(tail) - 1
        BY <2>6, <3>2
      <4> QED BY <1>1, <2>4, <2>7, <2>8, <3>1, <4>1
    <3>3. CASE ~(i < first)
      <4> DEFINE k == i - first + 1
                 j == last + k
      <4>1. /\ i \in first .. first + Len(tail) - 1 /\ k \in 1 .. l - last - 1 /\ first + k = i + 1
            /\ last + 1 + k - 1 = j /\ j \in 0 .. l - 1 /\ j + 1 = last + 1 + k
        BY <2>3, <2>6, <3>3
      <4>2. w[i] = tail[k]
        BY <2>8, <3>1, <4>1
      <4> HIDE DEF k, j
      <4>3. tail[k] = o.value[j] /\ o.value[j] = t[j + 1]
        BY <1>1, <2>6, <4>1
      <4>4. he[i + 1] = e[k] /\ e[k] = t[j + 1]
        BY <2>5, <2>7, <4>1
      <4> QED BY <4>2, <4>3, <4>4
    <3> QED BY <3>2, <3>3
  <2>10. Len(he) = n
    BY <2>3, <2>7
  <2>11. IsString(r) /\ Shows(r, he)
    BY <1>1, <2>1, <2>3, <2>7, <2>8, <2>9, <2>10, EndedShows
  <2> QED BY <2>2, <2>11 DEF r
<1> QED BY <1>2, <1>3

\* An object of the text's length with the text in its memory shows it.
LEMMA LengthShows ==
  ASSUME NEW o, IsString(o), NEW t \in Seq(Symbols), Len(t) = o.strlength,
         \A i \in 0 .. o.strlength - 1 : o.value[i] = t[i + 1]
  PROVE  Shows(o, t)
BY DEF Shows

\* A String made shorter holds the first part of its text,
LEMMA ShortenHolds ==
  ASSUME NEW o, IsString(o), NEW t, Shows(o, t), NEW n \in 0 .. Len(t)
  PROVE  IsString(setLength(o, n)) /\ Shows(setLength(o, n), SubSeq(t, 1, n))
<1> DEFINE r == setLength(o, n)
           c == SubSeq(t, 1, n)
<1>1. o.size \in Nat /\ o.strlength \in 0 .. o.size /\ t \in Seq(Symbols) /\ Len(t) = o.strlength
  BY DEF IsString, Shows
<1>2. n \in Nat /\ n <= o.size /\ \A i \in 0 .. n - 1 : i < Len(t)
  BY <1>1
<1>3. IsString(r) /\ r.strlength = n /\ \A i \in 0 .. n - 1 : i < Len(t) => r.value[i] = t[i + 1]
  BY <1>2, SetLengthHolds
<1>4. c \in Seq(Symbols) /\ Len(c) = n /\ \A i \in 1 .. n : c[i] = t[i]
  BY <1>1, FirstPart
<1> HIDE DEF r, c
<1>5. ASSUME NEW i \in 0 .. r.strlength - 1 PROVE r.value[i] = c[i + 1]
  <2>1. i \in 0 .. n - 1 /\ i < Len(t) /\ i + 1 \in 1 .. n
    BY <1>2, <1>3
  <2> QED BY <1>3, <1>4, <2>1
<1>6. Shows(r, c)
  BY <1>3, <1>4, <1>5, LengthShows
<1> QED BY <1>3, <1>6 DEF r, c

\* and made longer what the memory holds behind it.
LEMMA LengthenHolds ==
  ASSUME NEW o, IsString(o), NEW t, Shows(o, t), NEW n \in Nat, n > Len(t), n <= o.size \/ n <= MaxSize
  PROVE  LET r == setLength(o, n)
         IN  IsString(r) /\ Shows(r, t \o Copied(r.value, Len(t), n - Len(t)))
<1> DEFINE r == setLength(o, n)
           l == Len(t)
           m == n - l
           more == Copied(r.value, l, m)
           c == t \o more
<1>1. t \in Seq(Symbols) /\ l \in Nat /\ m \in Nat /\ n = l + m
  BY DEF Shows
<1>2. IsString(r) /\ r.strlength = n /\ \A i \in 0 .. n - 1 : i < Len(t) => r.value[i] = t[i + 1]
  BY SetLengthHolds
<1> HIDE DEF r
<1>3. Memory(r.value, r.size) /\ r.size \in Nat /\ n <= r.size
  BY <1>2 DEF IsString, Memory
<1> HIDE DEF l, m
<1>4. more \in Seq(Symbols) /\ Len(more) = m /\ \A k \in 1 .. m : more[k] = r.value[l + k - 1]
  <2>1. l + m <= r.size + 4
    BY <1>1, <1>3
  <2>2. IsCopy(more, r.value, l, m)
    BY <1>1, <1>3, <2>1, CopiedFrom
  <2> QED BY <2>2 DEF IsCopy
<1> HIDE DEF more
<1>5. Joins(Symbols, c, t, l, more, m)
  BY <1>1, <1>4, JoinsThem DEF l
<1> HIDE DEF c
<1>6. /\ c \in Seq(Symbols) /\ Len(c) = l + m
      /\ \A i \in 1 .. l : c[i] = t[i]
      /\ \A i \in 1 .. m : c[l + i] = more[i]
  BY <1>5 DEF Joins
<1>7. ASSUME NEW i \in 0 .. r.strlength - 1 PROVE r.value[i] = c[i + 1]
  <2>1. i \in 0 .. n - 1
    BY <1>2
  <2>2. CASE i < l
    <3>1. i + 1 \in 1 .. l
      BY <2>1, <2>2, <1>1
    <3> QED BY <1>2, <1>6, <2>1, <2>2, <3>1 DEF l
  <2>3. CASE ~(i < l)
    <3> DEFINE k == i - l + 1
    <3>1. k \in 1 .. m /\ l + k = i + 1 /\ l + k - 1 = i
      BY <1>1, <2>1, <2>3
    <3> HIDE DEF k
    <3>2. c[l + k] = more[k] /\ more[k] = r.value[l + k - 1]
      BY <1>4, <1>6, <3>1
    <3> QED BY <3>1, <3>2
  <2> QED BY <2>2, <2>3
<1>8. Shows(r, c)
  BY <1>1, <1>2, <1>6, <1>7, LengthShows
<1> QED BY <1>2, <1>8 DEF r, c, more, l, m

\* The greatest of numbers up to n.
LEMMA GreatestExists ==
  ASSUME NEW n \in Nat, NEW S \in SUBSET (0 .. n), S # {}
  PROVE  \E x \in S : \A y \in S : y <= x
<1> DEFINE T == {k \in 0 .. n : n - k \in S}
<1>1. PICK z \in S : TRUE
  OBVIOUS
<1>2. n - z \in T /\ T \in SUBSET Nat
  BY <1>1
<1>3. PICK x \in T : \A y \in T : x <= y
  BY <1>2, LeastExists
<1>4. n - x \in S
  BY <1>3
<1>5. ASSUME NEW y \in S PROVE y <= n - x
  <2>1. n - y \in T
    OBVIOUS
  <2>2. x <= n - y
    BY <1>3, <2>1
  <2> QED BY <1>3, <2>2
<1> QED BY <1>4, <1>5

\* The greatest element is the one no other is greater than,
LEMMA MaxIs ==
  ASSUME NEW S \in SUBSET Int, NEW x \in S, \A y \in S : y <= x
  PROVE  Max(S) = x
<1>1. Max(S) \in S /\ \A y \in S : Max(S) >= y
  BY DEF Max
<1>2. Max(S) \in Int /\ x \in Int /\ Max(S) <= x /\ Max(S) >= x
  BY <1>1
<1> QED BY <1>2

\* and the least the one no other is less than.
LEMMA MinIs ==
  ASSUME NEW S \in SUBSET Int, NEW x \in S, \A y \in S : x <= y
  PROVE  Min(S) = x
<1>1. Min(S) \in S /\ \A y \in S : Min(S) <= y
  BY DEF Min
<1>2. Min(S) \in Int /\ x \in Int /\ Min(S) <= x /\ Min(S) >= x
  BY <1>1
<1> QED BY <1>2

\* rtrim() takes off what is to be trimmed at the end.
LEMMA RTrimHolds ==
  ASSUME NEW o, IsString(o), NEW t, Shows(o, t), NEW trimmed
  PROVE  IsString(rtrim(o, trimmed)) /\ Shows(rtrim(o, trimmed), TrimmedRight(t, trimmed))
<1> DEFINE l == o.strlength
           kept == {i \in 0 .. l - 1 : o.value[i] \notin trimmed}
           K == {i \in 1 .. Len(t) : t[i] \notin trimmed}
           m == IF kept = {} THEN 0 ELSE Max(kept) + 1
           r == rtrim(o, trimmed)
           v == [o.value EXCEPT ![m] = Zero]
           c == SubSeq(t, 1, m)
<1>1. /\ o = [value |-> o.value, strlength |-> l, size |-> o.size]
      /\ o.size \in Nat /\ l \in 0 .. o.size
      /\ o.value \in [0 .. o.size + 3 -> Symbols] /\ o.value[l] = Zero
      /\ t \in Seq(Symbols) /\ Len(t) = l
      /\ \A i \in 0 .. l - 1 : o.value[i] = t[i + 1]
  BY DEF IsString, Shows
<1>2. \A i \in 0 .. l - 1 : i \in kept <=> i + 1 \in K
  <2>1. \A i \in 0 .. l - 1 : i + 1 \in 1 .. Len(t)
    BY <1>1
  <2> QED BY <1>1, <2>1
<1>3. m \in 0 .. l /\ Max(K \union {0}) = m
  <2>1. CASE kept = {}
    <3>1. ASSUME NEW i \in K PROVE FALSE
      <4>1. i - 1 \in 0 .. l - 1 /\ (i - 1) + 1 = i
        BY <1>1
      <4> QED BY <1>2, <2>1, <4>1
    <3>2. K \union {0} = {0}
      BY <3>1
    <3>3. Max({0}) = 0
      BY MaxIs
    <3>4. m = 0
      BY <2>1
    <3>5. 0 \in 0 .. l
      BY <1>1
    <3> HIDE DEF m, K, l
    <3> QED BY <3>2, <3>3, <3>4, <3>5, Zenon
  <2>2. CASE kept # {}
    <3>1. kept \in SUBSET (0 .. l) /\ l \in Nat
      BY <1>1
    <3>2. PICK x \in kept : \A y \in kept : y <= x
      BY <2>2, <3>1, GreatestExists
    <3>3. x \in 0 .. l - 1 /\ kept \in SUBSET Int
      BY <3>1
    <3>4. Max(kept) = x
      BY <3>2, <3>3, MaxIs
    <3>5. m = x + 1
      BY <2>2, <3>4
    <3>6. x + 1 \in K
      BY <1>2, <3>2, <3>3
    <3>7. ASSUME NEW y \in K \union {0} PROVE y <= x + 1
      <4>1. CASE y = 0
        BY <3>3, <4>1
      <4>2. CASE y \in K
        <5>1. y - 1 \in 0 .. l - 1 /\ (y - 1) + 1 = y
          BY <1>1, <4>2
        <5>2. y - 1 \in kept
          BY <1>2, <4>2, <5>1
        <5>3. y - 1 <= x
          BY <3>2, <5>2
        <5> QED BY <3>3, <5>1, <5>3
      <4> QED BY <4>1, <4>2
    <3>8. K \union {0} \in SUBSET Int
      BY <1>1
    <3> HIDE DEF K, kept
    <3>9. Max(K \union {0}) = x + 1
      BY <3>6, <3>7, <3>8, MaxIs
    <3> QED BY <1>1, <3>3, <3>5, <3>9
  <2> QED BY <2>1, <2>2
<1>4. TrimmedRight(t, trimmed) = c
  BY <1>3 DEF TrimmedRight
<1>5. c \in Seq(Symbols) /\ Len(c) = m /\ \A i \in 1 .. m : c[i] = t[i]
  <2>1. m \in 0 .. Len(t)
    BY <1>1, <1>3
  <2> HIDE DEF m
  <2> QED BY <1>1, <2>1, FirstPart
<1>6. CASE l = 0
  <2>1. r = o /\ m = 0
    BY <1>1, <1>3, <1>6 DEF rtrim
  <2>2. c = t
    BY <1>1, <1>5, <1>6, <2>1, EmptySeq
  <2> QED BY <1>4, <2>1, <2>2
<1>7. CASE l # 0
  <2>1. r = [o EXCEPT !.value[m] = Zero, !.strlength = m]
    BY <1>7 DEF rtrim
  <2> HIDE DEF m, r
  <2>2. r = [value |-> v, strlength |-> m, size |-> o.size]
    BY <1>1, <2>1
  <2>3. v \in [0 .. o.size + 3 -> Symbols] /\ v[m] = Zero /\ \A i \in 0 .. m - 1 : v[i] = o.value[i]
    BY <1>1, <1>3, SymbolsAre
  <2> HIDE DEF v, c
  <2>4. IsString(r)
    BY <1>1, <1>3, <2>2, <2>3 DEF IsString
  <2>5. ASSUME NEW i \in 0 .. m - 1 PROVE v[i] = c[i + 1]
    <3>1. i \in 0 .. l - 1 /\ i + 1 \in 1 .. m
      BY <1>1, <1>3
    <3> QED BY <1>1, <1>5, <2>3, <3>1
  <2>6. Shows(r, c)
    BY <1>5, <2>2, <2>5 DEF Shows
  <2> QED BY <1>4, <2>4, <2>6 DEF r
<1> QED BY <1>6, <1>7

\* ltrim() takes the blanks off at the beginning.
LEMMA LTrimHolds ==
  ASSUME NEW o, IsString(o), NEW t, Shows(o, t)
  PROVE  IsString(ltrim(o)) /\ Shows(ltrim(o), TrimmedLeft(t))
<1> DEFINE l == o.strlength
           kept == {i \in 0 .. l - 1 : o.value[i] \notin Blanks}
           K == {i \in 1 .. Len(t) : t[i] \notin Blanks}
           f == IF kept = {} THEN l ELSE Min(kept)
           a == f + 1
           c == SubSeq(t, a, l)
           d == Copied(o.value, f, l - f)
<1>1. /\ o.size \in Nat /\ l \in 0 .. o.size
      /\ o.value \in [0 .. o.size + 3 -> Symbols]
      /\ t \in Seq(Symbols) /\ Len(t) = l
      /\ \A i \in 0 .. l - 1 : o.value[i] = t[i + 1]
  BY DEF IsString, Shows
<1>2. \A i \in 0 .. l - 1 : i \in kept <=> i + 1 \in K
  <2>1. \A i \in 0 .. l - 1 : i + 1 \in 1 .. Len(t)
    BY <1>1
  <2> QED BY <1>1, <2>1
<1>3. f \in 0 .. l /\ Min(K \union {Len(t) + 1}) = a
  <2>1. CASE kept = {}
    <3>1. ASSUME NEW i \in K PROVE FALSE
      <4>1. i - 1 \in 0 .. l - 1 /\ (i - 1) + 1 = i
        BY <1>1
      <4> QED BY <1>2, <2>1, <4>1
    <3>2. K \union {Len(t) + 1} = {Len(t) + 1}
      BY <3>1
    <3>3. Len(t) + 1 \in Int
      BY <1>1
    <3>4. Min({Len(t) + 1}) = Len(t) + 1
      BY <3>3, MinIs
    <3>5. f = l /\ a = Len(t) + 1 /\ l \in 0 .. l
      BY <1>1, <2>1
    <3> HIDE DEF f, a, K, l
    <3> QED BY <3>2, <3>4, <3>5, Zenon
  <2>2. CASE kept # {}
    <3>1. kept \in SUBSET Nat
      BY <1>1
    <3>2. PICK x \in kept : \A y \in kept : x <= y
      BY <2>2, <3>1, LeastExists
    <3>3. x \in 0 .. l - 1 /\ kept \in SUBSET Int
      BY <3>1
    <3>4. Min(kept) = x
      BY <3>2, <3>3, MinIs
    <3>5. f = x /\ a = x + 1
      BY <2>2, <3>4
    <3>6. x + 1 \in K
      BY <1>2, <3>2, <3>3
    <3>7. ASSUME NEW y \in K \union {Len(t) + 1} PROVE x + 1 <= y
      <4>1. CASE y = Len(t) + 1
        BY <1>1, <3>3, <4>1
      <4>2. CASE y \in K
        <5>1. y - 1 \in 0 .. l - 1 /\ (y - 1) + 1 = y
          BY <1>1, <4>2
        <5>2. y - 1 \in kept
          BY <1>2, <4>2, <5>1
        <5>3. x <= y - 1
          BY <3>2, <5>2
        <5> QED BY <3>3, <5>1, <5>3
      <4> QED BY <4>1, <4>2
    <3>8. K \union {Len(t) + 1} \in SUBSET Int
      BY <1>1
    <3> HIDE DEF K, kept
    <3>9. Min(K \union {Len(t) + 1}) = x + 1
      BY <3>6, <3>7, <3>8, MinIs
    <3>10. f \in 0 .. l
      BY <1>1, <3>3, <3>5
    <3> QED BY <3>5, <3>9, <3>10
  <2> QED BY <2>1, <2>2
<1>4. TrimmedLeft(t) = c
  <2>1. TrimmedLeft(t) = SubSeq(t, Min(K \union {Len(t) + 1}), Len(t))
    BY Zenon DEF TrimmedLeft
  <2> HIDE DEF a, K, l
  <2> QED BY <1>1, <1>3, <2>1
<1>5. ltrim(o) = IF l = 0 THEN o ELSE setValue(o, d)
  BY DEF ltrim
<1> HIDE DEF f, kept, K
<1>6. f \in Nat /\ l \in Nat /\ f <= l /\ l <= o.size /\ l - f \in Nat
  BY <1>1, <1>3
<1>7. d \in Seq(Symbols) /\ Len(d) = l - f /\ \A k \in 1 .. l - f : d[k] = o.value[f + k - 1]
  <2>1. Memory(o.value, o.size)
    BY <1>1 DEF Memory
  <2>2. f + (l - f) <= o.size + 4
    BY <1>1, <1>6
  <2>3. IsCopy(d, o.value, f, l - f)
    BY <1>6, <2>1, <2>2, CopiedFrom
  <2> QED BY <2>3 DEF IsCopy
<1>8. c \in Seq(Symbols) /\ Len(c) = l - f /\ \A k \in 1 .. l - f : c[k] = t[f + k]
  <2>1. a \in Nat \ {0} /\ a <= l + 1 /\ l <= Len(t) /\ l - a + 1 = l - f /\ l \in Nat
        /\ \A k \in 1 .. l - f : a + k - 1 = f + k
    BY <1>1, <1>6
  <2> HIDE DEF a, l
  <2>2. c \in Seq(Symbols) /\ Len(c) = l - a + 1 /\ \A k \in 1 .. l - a + 1 : c[k] = t[a + k - 1]
    BY <1>1, <2>1, PieceOf
  <2> QED BY <2>1, <2>2
<1> HIDE DEF c, d, a
<1>9. ASSUME NEW k \in 1 .. l - f PROVE d[k] = c[k]
  <2> DEFINE i == f + k - 1
  <2>1. i \in 0 .. l - 1 /\ i + 1 = f + k
    BY <1>6
  <2>2. d[k] = o.value[i] /\ c[k] = t[f + k]
    BY <1>7, <1>8
  <2> HIDE DEF i
  <2>3. o.value[i] = t[i + 1]
    BY <1>1, <2>1
  <2> QED BY <2>1, <2>2, <2>3
<1>10. d = c
  BY <1>7, <1>8, <1>9, SeqEqual
<1>11. l = 0 => c = t
  <2>1. l = 0 => Len(c) = 0 /\ Len(t) = 0
    BY <1>1, <1>6, <1>8
  <2> QED BY <1>1, <1>8, <2>1, EmptySeq
<1>12. IsString(setValue(o, c)) /\ Shows(setValue(o, c), c)
  BY <1>8, SetValueHolds
<1> QED BY <1>4, <1>5, <1>10, <1>11, <1>12

\* trimzero() ends the text at the first zero in it.
LEMMA TrimZeroHolds ==
  ASSUME NEW o, IsString(o), NEW t, Shows(o, t)
  PROVE  LET zeros == {i \in 1 .. Len(t) : t[i] = Zero}
         IN  /\ IsString(trimzero(o))
             /\ Shows(trimzero(o), IF zeros = {} THEN t ELSE SubSeq(t, 1, Min(zeros) - 1))
<1> DEFINE l == o.strlength
           zeros == {i \in 1 .. Len(t) : t[i] = Zero}
           Z == {i \in DOMAIN o.value : o.value[i] = Zero}
           z == Min(Z)
<1>1. /\ o.size \in Nat /\ l \in 0 .. o.size
      /\ o.value \in [0 .. o.size + 3 -> Symbols] /\ o.value[l] = Zero
      /\ t \in Seq(Symbols) /\ Len(t) = l
      /\ \A i \in 0 .. l - 1 : o.value[i] = t[i + 1]
  BY DEF IsString, Shows
<1>2. l \in Z /\ Z \in SUBSET Nat
  BY <1>1
<1>3. PICK x \in Z : \A y \in Z : x <= y
  BY <1>2, LeastExists
<1>4. z = x /\ x \in Nat /\ x <= l
  <2>1. Z \in SUBSET Int
    BY <1>2
  <2> HIDE DEF Z
  <2> QED BY <1>2, <1>3, <2>1, MinIs
<1>5. x \in 0 .. Len(t)
  BY <1>1, <1>4
<1>6. trimzero(o) = setLength(o, x)
  BY <1>4 DEF trimzero
<1>7. IsString(setLength(o, x)) /\ Shows(setLength(o, x), SubSeq(t, 1, x))
  BY <1>5, ShortenHolds
<1>8. CASE zeros = {}
  <2>1. x = l
    <3> SUFFICES ASSUME x # l PROVE FALSE
      OBVIOUS
    <3>1. x \in 0 .. l - 1 /\ o.value[x] = Zero /\ x + 1 \in 1 .. Len(t)
      BY <1>1, <1>3, <1>4
    <3>2. x + 1 \in zeros
      BY <1>1, <3>1
    <3> QED BY <1>8, <3>2
  <2>2. SubSeq(t, 1, x) = t
    BY <1>1, <2>1, Uncut
  <2> QED BY <1>6, <1>7, <1>8, <2>2
<1>9. CASE zeros # {}
  <2>1. PICK w \in zeros : TRUE
    BY <1>9
  <2>2. w \in 1 .. Len(t) /\ t[w] = Zero /\ w - 1 \in 0 .. l - 1 /\ (w - 1) + 1 = w
    BY <1>1, <2>1
  <2>3. x < l
    <3>1. w - 1 \in Z
      BY <1>1, <2>2
    <3>2. x <= w - 1
      BY <1>3, <3>1
    <3> QED BY <1>1, <1>4, <2>2, <3>2
  <2>4. x + 1 \in zeros
    BY <1>1, <1>3, <1>4, <2>3
  <2>5. ASSUME NEW y \in zeros PROVE x + 1 <= y
    <3>1. y \in 1 .. Len(t) /\ t[y] = Zero /\ y - 1 \in 0 .. l - 1 /\ (y - 1) + 1 = y
      BY <1>1
    <3>2. y - 1 \in Z
      BY <1>1, <3>1
    <3>3. x <= y - 1
      BY <1>3, <3>2
    <3> QED BY <1>4, <3>1, <3>3
  <2>6. zeros \in SUBSET Int
    BY <1>1
  <2> HIDE DEF zeros
  <2>7. Min(zeros) = x + 1
    BY <2>4, <2>5, <2>6, MinIs
  <2>8. Min(zeros) - 1 = x
    BY <1>4, <2>7
  <2> QED BY <1>6, <1>7, <1>9, <2>8 DEF zeros
<1> QED BY <1>8, <1>9

-----------------------------------------------------------------------------
(* replace()                                                                *)

\* The loop of replace() between two rounds.
LoopOK(loop) ==
  /\ loop = [object |-> loop.object, from |-> loop.from, over |-> loop.over]
  /\ IsString(loop.object) /\ loop.from \in 0 .. loop.object.strlength /\ loop.over \in BOOLEAN

\* x is three texts, of the lengths l, m and n.
JoinsThree(x, h, l, b, m, e, n) ==
  /\ x \in Seq(Symbols) /\ Len(x) = l + m + n
  /\ \A i \in 1 .. l : x[i] = h[i]
  /\ \A i \in 1 .. m : x[l + i] = b[i]
  /\ \A i \in 1 .. n : x[l + m + i] = e[i]

\* Three texts put one behind the other.
LEMMA JoinsTheThree ==
  ASSUME NEW h \in Seq(Symbols), NEW b \in Seq(Symbols), NEW e \in Seq(Symbols)
  PROVE  JoinsThree(h \o b \o e, h, Len(h), b, Len(b), e, Len(e))
BY JoinedThree DEF JoinsThree

\* What is behind the needle, and what replace() has of it in a String of its own.
IsBuffered(tail, c, at, n) ==
  /\ tail \in Seq(Symbols) /\ Len(tail) = n
  /\ MaySetSize(n) => tail = Rest(c, at)

\* If there is memory for it, what is behind the needle is kept as it is.
LEMMA BufferedIs ==
  ASSUME NEW o, IsString(o), NEW c, Shows(o, c), NEW at \in 0 .. Len(c), NEW n, n = Len(c) - at
  PROVE  IsBuffered(Buffered(o, at, n), c, at, n)
<1> DEFINE v == o.value
           l == o.strlength
           d == Copied(v, at, n)
           e == Rest(c, at)
<1>1. /\ o.size \in Nat /\ l \in 0 .. o.size /\ Memory(v, o.size)
      /\ c \in Seq(Symbols) /\ Len(c) = l /\ \A i \in 0 .. l - 1 : v[i] = c[i + 1]
  BY DEF IsString, Shows, Memory
<1> HIDE DEF v, l
<1>2. at \in Nat /\ n \in Nat /\ at + n = l /\ at + n <= o.size + 4
  BY <1>1
<1>3. d \in Seq(Symbols) /\ Len(d) = n /\ \A k \in 1 .. n : d[k] = v[at + k - 1]
  <2>1. IsCopy(d, v, at, n)
    BY <1>1, <1>2, CopiedFrom
  <2> HIDE DEF d
  <2> QED BY <2>1 DEF IsCopy
<1>4. e \in Seq(Symbols) /\ Len(e) = n /\ \A k \in 1 .. n : e[k] = c[at + k]
  BY <1>1, RestIs
<1> HIDE DEF e
<1>5. d = e
  <2> HIDE DEF d
  <2>1. ASSUME NEW k \in 1 .. n PROVE d[k] = e[k]
    <3> DEFINE i == at + k - 1
    <3>1. i \in 0 .. l - 1 /\ i + 1 = at + k
      BY <1>2
    <3> HIDE DEF i
    <3>2. v[i] = c[i + 1]
      BY <1>1, <3>1
    <3> QED BY <1>3, <1>4, <3>1, <3>2 DEF i
  <2> QED BY <1>3, <1>4, <2>1, SeqEqual
<1>6. [k \in 1 .. n |-> Garbage] \in Seq(Symbols) /\ Len([k \in 1 .. n |-> Garbage]) = n
  BY <1>2, SymbolsAre
<1>7. Buffered(o, at, n) = IF MaySetSize(n) THEN d ELSE [k \in 1 .. n |-> Garbage]
  BY DEF Buffered, v
<1> HIDE DEF d
<1> QED BY <1>3, <1>5, <1>6, <1>7 DEF e, IsBuffered

\* The String replace() has made as long as it needs it.
IsSized(sized, o, c, n) ==
  /\ IsString(sized) /\ sized.size >= o.size
  /\ n <= o.size \/ n <= MaxSize => sized.strlength = n
  /\ sized.strlength = n => \A i \in 0 .. n - 1 : i < Len(c) => sized.value[i] = c[i + 1]

\* What setLength() leaves of an object, as a round of replace() takes it.
LEMMA SizedHolds ==
  ASSUME NEW o, IsString(o), NEW c, Shows(o, c), NEW n \in Nat, NEW sized, sized = setLength(o, n)
  PROVE  IsSized(sized, o, c, n)
<1>1. o.size \in Nat /\ Len(c) = o.strlength /\ \A i \in 0 .. o.strlength - 1 : o.value[i] = c[i + 1]
  BY DEF IsString, Shows
<1>2. /\ IsString(sized) /\ sized.size >= o.size
      /\ IF n <= o.size \/ n <= MaxSize
         THEN /\ sized.strlength = n
              /\ \A i \in 0 .. n - 1 : i < Len(c) => sized.value[i] = c[i + 1]
         ELSE sized = o
  BY SetLengthHolds
<1> QED BY <1>1, <1>2 DEF IsSized

\* A text written into memory between the beginning and the end of another one.
Holding(value, size, n, x) ==
  /\ Memory(value, size) /\ value[n] = Zero /\ x \in Seq(Symbols) /\ Len(x) = n
  /\ \A i \in 0 .. n - 1 : value[i] = x[i + 1]

\* Writing a tail, and a text in front of it, behind a text that is there shows the three.
LEMMA WrittenBetween ==
  ASSUME NEW size \in Nat, NEW value, Memory(value, size), NEW p \in Nat, NEW q \in Nat,
         NEW m \in Nat, NEW n \in Nat, NEW l \in Nat, q = p + l, n = q + m, n <= size, value[n] = Zero,
         NEW b \in Seq(Symbols), Len(b) = l, NEW tail \in Seq(Symbols), Len(tail) = m,
         NEW h \in Seq(Symbols), Len(h) = p, \A i \in 0 .. p - 1 : value[i] = h[i + 1],
         NEW w1, Overwritten(w1, value, size, q, tail), NEW w2, Overwritten(w2, w1, size, p, b),
         NEW x, JoinsThree(x, h, p, b, l, tail, m)
  PROVE  Holding(w2, size, n, x)
<1>1. /\ Memory(w2, size)
      /\ \A i \in 0 .. size + 3 : i \in p .. p + l - 1 => w2[i] = b[i - p + 1]
      /\ \A i \in 0 .. size + 3 : i \notin p .. p + l - 1 => w2[i] = w1[i]
      /\ \A i \in 0 .. size + 3 : i \in q .. q + m - 1 => w1[i] = tail[i - q + 1]
      /\ \A i \in 0 .. size + 3 : i \notin q .. q + m - 1 => w1[i] = value[i]
  BY DEF Overwritten
<1>2. w2[n] = Zero
  <2>1. n \in 0 .. size + 3 /\ n \notin p .. p + l - 1 /\ n \notin q .. q + m - 1
    OBVIOUS
  <2> QED BY <1>1, <2>1
<1>3. /\ x \in Seq(Symbols) /\ Len(x) = n
      /\ \A i \in 1 .. p : x[i] = h[i]
      /\ \A i \in 1 .. l : x[p + i] = b[i]
      /\ \A i \in 1 .. m : x[q + i] = tail[i]
  BY DEF JoinsThree
<1>4. ASSUME NEW i \in 0 .. n - 1 PROVE w2[i] = x[i + 1]
  <2>1. i \in 0 .. size + 3
    OBVIOUS
  <2>2. CASE i < p
    <3>1. i \notin p .. p + l - 1 /\ i \notin q .. q + m - 1 /\ i \in 0 .. p - 1 /\ i + 1 \in 1 .. p
      BY <2>2
    <3> QED BY <1>1, <1>3, <2>1, <3>1
  <2>3. CASE ~(i < p) /\ i < q
    <3> DEFINE k == i - p + 1
    <3>1. i \in p .. p + l - 1 /\ k \in 1 .. l /\ p + k = i + 1
      BY <2>3
    <3>2. w2[i] = b[k]
      BY <1>1, <2>1, <3>1
    <3> HIDE DEF k
    <3> QED BY <1>3, <3>1, <3>2
  <2>4. CASE ~(i < q)
    <3> DEFINE k == i - q + 1
    <3>1. i \notin p .. p + l - 1 /\ i \in q .. q + m - 1
      BY <2>4
    <3>3. k \in 1 .. m /\ q + k = i + 1
      BY <2>4
    <3>2. w2[i] = tail[k]
      BY <1>1, <2>1, <3>1
    <3> HIDE DEF k
    <3> QED BY <1>3, <3>2, <3>3
  <2> QED BY <2>2, <2>3, <2>4
<1> QED BY <1>1, <1>2, <1>3, <1>4 DEF Holding

\* A round that puts the other text in.
LEMMA RoundReplaces ==
  ASSUME NEW o, IsString(o), NEW c, Shows(o, c), NEW a \in Seq(Symbols), NEW b \in Seq(Symbols),
         NEW p \in Nat, p + Len(a) <= Len(c)
  PROVE  LET n     == o.strlength - Len(a) + Len(b)
             tail  == Buffered(o, p + Len(a), o.strlength - p - Len(a))
             sized == setLength(o, n)
             r     == [sized EXCEPT !.value = Written(Written(@, p + Len(b), tail), p, b)]
         IN  sized.strlength = n =>
               /\ IsString(r) /\ r.size >= o.size /\ p + Len(b) \in 0 .. r.strlength
               /\ MaySetSize(o.strlength - p - Len(a)) =>
                    Shows(r, SubSeq(c, 1, p) \o b \o Rest(c, p + Len(a)))
<1> DEFINE n == o.strlength - Len(a) + Len(b)
           m == o.strlength - p - Len(a)
           at == p + Len(a)
           q == p + Len(b)
           l == Len(b)
           tail == Buffered(o, at, m)
           sized == setLength(o, n)
           size == sized.size
           value == sized.value
           w1 == Written(value, q, tail)
           w2 == Written(w1, p, b)
           h == SubSeq(c, 1, p)
           x == h \o b \o tail
           r == [sized EXCEPT !.value = Written(Written(@, q, tail), p, b)]
<1> SUFFICES ASSUME sized.strlength = n
             PROVE  /\ IsString(r) /\ r.size >= o.size /\ q \in 0 .. r.strlength
                    /\ MaySetSize(m) => Shows(r, h \o b \o Rest(c, at))
  OBVIOUS
<1>1. c \in Seq(Symbols) /\ Len(c) \in Nat /\ Len(a) \in Nat /\ l \in Nat /\ o.strlength = Len(c)
  BY DEF Shows
<1>2. /\ m \in Nat /\ m = Len(c) - at /\ at \in 0 .. Len(c) /\ p \in 0 .. Len(c) /\ n \in Nat
      /\ n = q + m /\ q \in Nat /\ q = p + l /\ p <= n
  BY <1>1
<1>3. sized.strlength = n /\ sized = setLength(o, n)
  OBVIOUS
<1>4. r = [sized EXCEPT !.value = w2]
  OBVIOUS
<1> HIDE DEF m, at, q, size, value, w1, w2, n, l, tail, sized, x, r, h
<1>5. /\ tail \in Seq(Symbols) /\ Len(tail) = m
      /\ MaySetSize(m) => tail = Rest(c, at)
  <2>1. IsBuffered(tail, c, at, m)
    BY <1>2, BufferedIs DEF tail
  <2> QED BY <2>1 DEF IsBuffered
<1>6. /\ IsString(sized) /\ sized.size >= o.size
      /\ \A i \in 0 .. n - 1 : i < Len(c) => sized.value[i] = c[i + 1]
  <2>1. IsSized(sized, o, c, n)
    BY <1>2, <1>3, SizedHolds
  <2> QED BY <1>3, <2>1 DEF IsSized
<1>7. /\ sized = [value |-> value, strlength |-> n, size |-> size]
      /\ size \in Nat /\ n <= size /\ Memory(value, size) /\ value[n] = Zero
  BY <1>2, <1>3, <1>6 DEF IsString, Memory, value, size
<1>8. r = [value |-> w2, strlength |-> n, size |-> size]
  BY <1>4, <1>7
<1>9. h \in Seq(Symbols) /\ Len(h) = p /\ \A i \in 1 .. p : h[i] = c[i]
  BY <1>1, <1>2, FirstPart DEF h
<1>10. ASSUME NEW i \in 0 .. p - 1 PROVE value[i] = h[i + 1]
  <2>1. i \in 0 .. n - 1 /\ i < Len(c) /\ i + 1 \in 1 .. p
    BY <1>1, <1>2
  <2>2. value[i] = c[i + 1]
    BY <1>6, <2>1 DEF value
  <2> QED BY <1>9, <2>1, <2>2
<1>11. Overwritten(w1, value, size, q, tail)
  BY <1>2, <1>5, <1>7, WrittenAt DEF w1
<1>12. Overwritten(w2, w1, size, p, b)
  <2>1. Memory(w1, size)
    BY <1>11 DEF Overwritten
  <2> QED BY <2>1, WrittenAt DEF w2
<1>13. JoinsThree(x, h, p, b, l, tail, m)
  BY <1>5, <1>9, JoinsTheThree DEF x, l
<1>14. /\ Memory(w2, size) /\ w2[n] = Zero /\ x \in Seq(Symbols) /\ Len(x) = n
       /\ \A i \in 0 .. n - 1 : w2[i] = x[i + 1]
  <2>1. Len(b) = l
    BY DEF l
  <2>2. Holding(w2, size, n, x)
    BY <1>1, <1>2, <1>5, <1>7, <1>9, <1>10, <1>11, <1>12, <1>13, <2>1, WrittenBetween
  <2> QED BY <2>2 DEF Holding
<1>15. IsString(r) /\ Shows(r, x)
  <2>1. r.value = w2 /\ r.strlength = n /\ r.size = size
        /\ r = [value |-> r.value, strlength |-> r.strlength, size |-> r.size]
    BY <1>8
  <2>2. n \in 0 .. size
    BY <1>2, <1>7
  <2>3. IsString(r)
    BY <1>7, <1>14, <2>1, <2>2 DEF IsString, Memory
  <2> QED BY <1>14, <2>1, <2>3 DEF Shows
<1>16. r.size >= o.size /\ q \in 0 .. r.strlength
  BY <1>2, <1>6, <1>8 DEF size
<1>17. MaySetSize(m) => x = h \o b \o Rest(c, at)
  BY <1>5 DEF x
<1> QED BY <1>15, <1>16, <1>17

\* What a round of the loop leaves of it.
RoundIs(r, loop, c, p, a, b) ==
  /\ LoopOK(r) /\ r.object.size >= loop.object.size
  /\ loop.over \/ p = NotFound => r.object = loop.object /\ r.from = loop.from /\ r.over
  /\ /\ ~loop.over /\ p # NotFound
     /\ Len(c) - Len(a) + Len(b) <= loop.object.size \/ Len(c) - Len(a) + Len(b) <= MaxSize
     /\ MaySetSize(Len(c) - p - Len(a))
     => /\ ~r.over /\ r.from = p + Len(b)
        /\ Shows(r.object, SubSeq(c, 1, p) \o b \o Rest(c, p + Len(a)))

\* A round of the loop in replace(), whatever it finds.
LEMMA RoundHolds ==
  ASSUME NEW loop, LoopOK(loop), NEW c, Shows(loop.object, c),
         NEW a \in Seq(Symbols), NEW b \in Seq(Symbols), a # <<>>
  PROVE  RoundIs(ReplaceNext(loop, a, b), loop, c, pos(c, loop.from, a), a, b)
<1> DEFINE o == loop.object
           p == pos(c, loop.from, a)
           n == o.strlength - Len(a) + Len(b)
           tail == Buffered(o, p + Len(a), o.strlength - p - Len(a))
           sized == setLength(o, n)
           s == [sized EXCEPT !.value = Written(Written(@, p + Len(b), tail), p, b)]
           r == ReplaceNext(loop, a, b)
           x == SubSeq(c, 1, p) \o b \o Rest(c, p + Len(a))
           m == o.strlength - p - Len(a)
           over == loop.over \/ p = NotFound \/ sized.strlength # n
<1>1. /\ loop = [object |-> o, from |-> loop.from, over |-> loop.over]
      /\ IsString(o) /\ loop.from \in 0 .. o.strlength /\ loop.over \in BOOLEAN
  BY DEF LoopOK
<1>2. Content(o) = c /\ c \in Seq(Symbols) /\ Len(c) = o.strlength /\ Len(c) \in Nat
  BY <1>1, ShownIsContent DEF Shows
<1>3. r = IF over THEN [loop EXCEPT !.over = TRUE]
          ELSE [object |-> s, from |-> p + Len(b), over |-> FALSE]
  BY <1>2 DEF ReplaceNext
<1>4. p # NotFound => p \in Nat /\ p + Len(a) <= Len(c)
  <2>1. loop.from \in 0 .. Len(c)
    BY <1>1, <1>2
  <2>2. p # NotFound => p \in loop.from .. Len(c) /\ p + Len(a) \in loop.from + 1 .. Len(c)
    <3> DEFINE from == loop.from
    <3>1. from \in 0 .. Len(c)
      BY <2>1
    <3> HIDE DEF from
    <3> QED BY <1>2, <3>1, PosAnswers DEF from
  <2> QED BY <2>1, <2>2
<1>5. n \in Nat \/ p = NotFound
  BY <1>2, <1>4
<1>6. n = Len(c) - Len(a) + Len(b) /\ m = Len(c) - p - Len(a)
  BY <1>2
<1>7. o.size \in Nat
  BY <1>1 DEF IsString
<1>8. CASE over
  <2>1. r = [object |-> o, from |-> loop.from, over |-> TRUE]
    <3>1. r = [loop EXCEPT !.over = TRUE]
      BY <1>3, <1>8
    <3>2. loop = [object |-> loop.object, from |-> loop.from, over |-> loop.over]
      BY <1>1
    <3> HIDE DEF r, over
    <3> QED BY <3>1, <3>2
  <2> HIDE DEF r, x, n, sized, p
  <2>2. LoopOK(r) /\ r.object.size >= loop.object.size
    BY <1>1, <1>7, <2>1 DEF LoopOK
  <2>3. ~loop.over /\ p # NotFound => ~(n <= o.size \/ n <= MaxSize)
    <3> SUFFICES ASSUME ~loop.over, p # NotFound, n <= o.size \/ n <= MaxSize PROVE FALSE
      OBVIOUS
    <3>1. IsSized(sized, o, c, n)
      BY <1>1, <1>5, SizedHolds DEF sized
    <3> QED BY <1>8, <3>1 DEF IsSized
  <2> QED BY <1>6, <2>1, <2>2, <2>3 DEF RoundIs, r, x, n, p
<1>9. CASE ~over
  <2>1. r = [object |-> s, from |-> p + Len(b), over |-> FALSE]
    BY <1>3, <1>9
  <2>2. /\ IsString(s) /\ s.size >= o.size /\ p + Len(b) \in 0 .. s.strlength
        /\ MaySetSize(m) => Shows(s, x)
    <3>1. p \in Nat /\ p + Len(a) <= Len(c) /\ sized.strlength = n
      BY <1>4, <1>9
    <3> HIDE DEF p
    <3> QED BY <1>1, <3>1, RoundReplaces
  <2>3. ~loop.over /\ p # NotFound
    BY <1>1, <1>9
  <2> HIDE DEF r, s, x, p, m, n, sized, over
  <2>4. LoopOK(r) /\ r.object.size >= loop.object.size
    BY <2>1, <2>2 DEF LoopOK
  <2>5. MaySetSize(m) => ~r.over /\ r.from = p + Len(b) /\ Shows(r.object, x)
    BY <2>1, <2>2
  <2> QED BY <1>6, <2>3, <2>4, <2>5 DEF RoundIs, r, x, p, m
<1> QED BY <1>8, <1>9

\* The rounds of replace(), up to the last.
Rounds(g, o, n, a, b) ==
  g = [i \in 0 .. n |-> IF i = 0 THEN [object |-> o, from |-> 0, over |-> FALSE]
                        ELSE ReplaceNext(g[i - 1], a, b)]

\* The rounds of replace() are a function: each is what is made of the one before.
LEMMA RoundsExist ==
  ASSUME NEW o, NEW n \in Nat, NEW a, NEW b
  PROVE  \E g : Rounds(g, o, n, a, b)
<1> DEFINE first == [object |-> o, from |-> 0, over |-> FALSE]
           S == {k \in Nat : \E g : Rounds(g, o, k, a, b)}
<1>1. 0 \in S
  <2> DEFINE g == [i \in 0 .. 0 |-> first]
  <2>1. \A i \in 0 .. 0 : i = 0
    OBVIOUS
  <2>2. Rounds(g, o, 0, a, b)
    BY <2>1 DEF Rounds
  <2> QED BY <2>2
<1>2. ASSUME NEW k \in Nat, k \in S PROVE k + 1 \in S
  <2>1. PICK g : Rounds(g, o, k, a, b)
    BY <1>2
  <2> DEFINE h == [i \in 0 .. k + 1 |-> IF i = 0 THEN first ELSE ReplaceNext(g[i - 1], a, b)]
  <2>2. \A i \in 0 .. k : h[i] = g[i]
    <3> HIDE DEF first
    <3>1. \A i \in 0 .. k : g[i] = IF i = 0 THEN first ELSE ReplaceNext(g[i - 1], a, b)
      BY <2>1 DEF Rounds, first
    <3>2. \A i \in 0 .. k : i \in 0 .. k + 1
      OBVIOUS
    <3> QED BY <3>1, <3>2
  <2>3. h = [i \in 0 .. k + 1 |-> h[i]]
        /\ \A i \in 0 .. k + 1 : h[i] = IF i = 0 THEN first ELSE ReplaceNext(g[i - 1], a, b)
    OBVIOUS
  <2> HIDE DEF h, first
  <2>4. \A i \in 0 .. k + 1 : i # 0 => i - 1 \in 0 .. k
    OBVIOUS
  <2>5. \A i \in 0 .. k + 1 : h[i] = IF i = 0 THEN first ELSE ReplaceNext(h[i - 1], a, b)
    BY <2>2, <2>3, <2>4
  <2>6. h = [i \in 0 .. k + 1 |-> IF i = 0 THEN first ELSE ReplaceNext(h[i - 1], a, b)]
    BY <2>3, <2>5
  <2>7. Rounds(h, o, k + 1, a, b)
    BY <2>6 DEF Rounds, first
  <2> QED BY <2>7
<1> HIDE DEF S
<1>3. n \in S
  BY <1>1, <1>2, SetInduction
<1> QED BY <1>3 DEF S

\* The object replace() leaves is that of the last round.
LEMMA ReplaceIsTheRounds ==
  ASSUME NEW o, o.strlength \in Nat, NEW a, NEW b
  PROVE  \E g : Rounds(g, o, o.strlength, a, b) /\ ReplaceInMemory(o, a, b) = g[o.strlength].object
<1> DEFINE g == CHOOSE g : Rounds(g, o, o.strlength, a, b)
<1>1. Rounds(g, o, o.strlength, a, b)
  BY RoundsExist
<1>2. ReplaceInMemory(o, a, b) = g[o.strlength].object
  BY Zenon DEF ReplaceInMemory, Rounds
<1> QED BY <1>1, <1>2

\* After n rounds: the text of the object is what the answer begins with, and what is
\* left of the old text from a place after the n-th on; or it is the answer.
OnTheWay(loop, n, o, t, f, target, fits) ==
  /\ LoopOK(loop) /\ loop.object.size >= o.size
  /\ fits => \/ loop.over /\ Shows(loop.object, target)
             \/ /\ ~loop.over
                /\ \E j \in n .. Len(t), x \in Seq(Symbols) :
                     /\ Shows(loop.object, x \o Rest(t, j)) /\ loop.from = Len(x)
                     /\ x \o f[j] = target

\* Whether there is memory for the answer and for what is behind a needle.
HasRoom(o, t, target) == (Len(target) <= o.size \/ Len(target) <= MaxSize) /\ MaySetSize(Len(t))

Counted(n, la, lb, lx, j, p, q, k) ==
  /\ q \in Nat /\ k \in j .. n /\ q + la = lx + (k - j) /\ p - j \in Nat /\ j + (p - j) <= n
  /\ (lx + (n - j)) - q - la = n - k /\ (lx + (n - j)) - la + lb = (q + lb) + (n - k) /\ q # NotFound

\* The numbers of a round that finds a needle of length la at p of a text of length n,
\* from j on, which is q in one of length l, and has lb characters in its place.
LEMMA RoundNumbers ==
  ASSUME NEW n \in Nat, NEW la \in Nat, NEW lb \in Nat, NEW lx \in Nat, NEW j \in 0 .. n,
         NEW p \in j .. n, p + la \in j + 1 .. n
  PROVE  Counted(n, la, lb, lx, j, p, lx + (p - j), p + la)
BY DEF NotFound, Counted

\* What has been put together after a round that finds the needle, and what is left.
FoundOneMore(f, x, j, c, y, q, k, t, a, b) ==
  /\ k \in j + 1 .. Len(t) /\ q \in Nat /\ q # NotFound /\ y \o f[k] = x \o f[j]
  /\ y \in Seq(Symbols) /\ Len(y) = q + Len(b) /\ Rest(c, q + Len(a)) = Rest(t, k)
  /\ Len(c) - q - Len(a) = Len(t) - k /\ Len(c) - Len(a) + Len(b) = Len(y) + (Len(t) - k)

\* Joining is associative.
LEMMA Associates ==
  ASSUME NEW u \in Seq(Symbols), NEW v \in Seq(Symbols), NEW w \in Seq(Symbols)
  PROVE  (u \o v) \o w = u \o (v \o w)
BY ConcatAssociative

\* A round that finds the needle.
LEMMA FindsOneMore ==
  ASSUME NEW t \in Seq(Symbols), NEW a \in Seq(Symbols), NEW b \in Seq(Symbols), a # <<>>,
         NEW f \in [0 .. Len(t) -> Seq(Symbols)], ReplaceLoop(f, t, a, b),
         NEW j \in 0 .. Len(t), NEW x \in Seq(Symbols), pos(t, j, a) # NotFound
  PROVE  LET p == pos(t, j, a)
             q == Len(x) + (p - j)
             c == x \o Rest(t, j)
             y == SubSeq(c, 1, q) \o b
             k == p + Len(a)
         IN  FoundOneMore(f, x, j, c, y, q, k, t, a, b)
<1> DEFINE p == pos(t, j, a)
           q == Len(x) + (p - j)
           k == p + Len(a)
           rest == Rest(t, j)
           c == x \o rest
           part == Part(t, j, p - j)
           xp == x \o part
           y == SubSeq(c, 1, q) \o b
           n == Len(t)
           l == Len(x)
           la == Len(a)
           lb == Len(b)
           e == f[k]
<1>1. p \in j .. n /\ k \in j + 1 .. n
  BY PosAnswers
<1>2. n \in Nat /\ l \in Nat /\ la \in Nat /\ lb \in Nat /\ j \in 0 .. n
  OBVIOUS
<1>3. f[j] = part \o b \o e
  BY DEF ReplaceLoop
<1>4. rest \in Seq(Symbols) /\ Len(rest) = n - j
  BY RestIs
<1>5. e \in Seq(Symbols)
  BY <1>1
<1> HIDE DEF p, n, l, la, lb
<1>6. /\ q \in Nat /\ k \in j .. n /\ q + la = l + (k - j) /\ p - j \in Nat /\ j + (p - j) <= n
      /\ (l + (n - j)) - q - la = n - k /\ (l + (n - j)) - la + lb = (q + lb) + (n - k) /\ q # NotFound
  <2>1. q = l + (p - j) /\ k = p + la
    BY DEF l, la
  <2> HIDE DEF q, k
  <2>2. p \in j .. n /\ p + la \in j + 1 .. n
    BY <1>1, <2>1
  <2>3. Counted(n, la, lb, l, j, p, l + (p - j), p + la)
    BY <1>2, <2>2, RoundNumbers
  <2>4. Counted(n, la, lb, l, j, p, q, k)
    BY <2>1, <2>3
  <2> QED BY <2>4 DEF Counted
<1>7. part \in Seq(Symbols) /\ Len(part) = p - j
  <2>1. IsPiece(part, Symbols, t, j, p - j)
    <3>1. j \in Nat /\ j + (p - j) <= Len(t)
      BY <1>6 DEF n
    <3> QED BY <1>6, <3>1, PartIs
  <2> HIDE DEF part
  <2> QED BY <2>1 DEF IsPiece
<1>8. SubSeq(c, 1, q) = xp
  BY <1>1, CutBehind DEF n
<1>9. Rest(c, q + Len(a)) = Rest(t, k)
  <2>1. k \in j .. Len(t) /\ q + Len(a) = Len(x) + (k - j)
    BY <1>6 DEF la, l, n
  <2> HIDE DEF q, k
  <2> QED BY <2>1, CutBehind
<1>10. y = xp \o b
  BY <1>8
<1> HIDE DEF rest, part, e, k, q
<1>11. xp \in Seq(Symbols) /\ Len(xp) = q
  <2>1. Joins(Symbols, xp, x, l, part, p - j)
    BY <1>7, JoinsThem DEF l
  <2> HIDE DEF xp
  <2>2. xp \in Seq(Symbols) /\ Len(xp) = l + (p - j)
    BY <2>1 DEF Joins
  <2> QED BY <2>2 DEF q, l
<1>12. c \in Seq(Symbols) /\ Len(c) = l + (n - j)
  <2>1. Joins(Symbols, c, x, l, rest, n - j)
    BY <1>4, JoinsThem DEF l
  <2> HIDE DEF c
  <2> QED BY <2>1 DEF Joins
<1>13. xp \o b = x \o (part \o b)
  BY <1>7, Associates
<1>14. part \o b \in Seq(Symbols)
  BY <1>7
<1> DEFINE pb == part \o b
<1> HIDE DEF c, xp, y
<1>15. y \in Seq(Symbols) /\ Len(y) = q + lb
  <2>1. Joins(Symbols, y, xp, q, b, lb)
    BY <1>10, <1>11, JoinsThem DEF lb
  <2> QED BY <2>1 DEF Joins
<1>16. y \o e = x \o f[j]
  <2>1. f[j] = pb \o e /\ y = x \o pb
    BY <1>3, <1>10, <1>13
  <2>2. pb \in Seq(Symbols)
    BY <1>14
  <2> HIDE DEF pb
  <2>3. (x \o pb) \o e = x \o (pb \o e)
    BY <1>5, <2>2, Associates
  <2> QED BY <2>1, <2>3
<1>17. Len(c) - q - Len(a) = Len(t) - k /\ Len(c) - Len(a) + Len(b) = Len(y) + (Len(t) - k)
  <2>1. Len(c) - q - la = n - k /\ Len(c) - la + lb = Len(y) + (n - k)
    BY <1>6, <1>12, <1>15
  <2> QED BY <2>1 DEF la, lb, n
<1>18. k \in j + 1 .. Len(t) /\ q \in Nat /\ q # NotFound /\ y \o f[k] = x \o f[j]
  BY <1>1, <1>6, <1>16 DEF e, n
<1>19. FoundOneMore(f, x, j, c, y, q, k, t, a, b)
  BY <1>9, <1>15, <1>17, <1>18 DEF FoundOneMore, lb
<1> QED BY <1>19 DEF p, q, k, rest, c, y, l

\* A round on the way.
LEMMA RoundOnTheWay ==
  ASSUME NEW o, o.size \in Nat, NEW t \in Seq(Symbols), NEW a \in Seq(Symbols), NEW b \in Seq(Symbols), a # <<>>,
         Len(t) <= o.size,
         NEW f \in [0 .. Len(t) -> Seq(Symbols)], ReplaceLoop(f, t, a, b),
         NEW target, NEW n \in Nat, NEW loop,
         OnTheWay(loop, n, o, t, f, target, HasRoom(o, t, target))
  PROVE  OnTheWay(ReplaceNext(loop, a, b), n + 1, o, t, f, target, HasRoom(o, t, target))
<1> DEFINE r == ReplaceNext(loop, a, b)
           fits == HasRoom(o, t, target)
           ob == loop.object
<1>0. IsString(ob) /\ ob.size \in Nat /\ loop.over \in BOOLEAN /\ LoopOK(loop) /\ ob.size >= o.size
  BY DEF OnTheWay, LoopOK, IsString
<1> HIDE DEF r
<1>1. ASSUME NEW c, Shows(ob, c) PROVE RoundIs(r, loop, c, pos(c, loop.from, a), a, b)
  BY <1>0, <1>1, RoundHolds DEF r
<1>2. LoopOK(r) /\ r.object.size >= o.size
  <2>1. RoundIs(r, loop, Content(ob), pos(Content(ob), loop.from, a), a, b)
    BY <1>0, <1>1, ContentShows
  <2>2. LoopOK(r) /\ r.object.size >= ob.size
    BY <2>1 DEF RoundIs
  <2>3. r.object.size \in Nat
    BY <2>2 DEF LoopOK, IsString
  <2> QED BY <1>0, <2>2, <2>3
<1>3. ASSUME fits, loop.over, Shows(ob, target)
      PROVE  r.over /\ Shows(r.object, target)
  <2>1. RoundIs(r, loop, target, pos(target, loop.from, a), a, b)
    BY <1>1, <1>3
  <2> QED BY <1>3, <2>1 DEF RoundIs
<1>4. ASSUME fits, ~loop.over, NEW j \in n .. Len(t), NEW x \in Seq(Symbols),
             Shows(ob, x \o Rest(t, j)), loop.from = Len(x), x \o f[j] = target
      PROVE  \/ r.over /\ Shows(r.object, target)
             \/ /\ ~r.over
                /\ \E k \in n + 1 .. Len(t), y \in Seq(Symbols) :
                     /\ Shows(r.object, y \o Rest(t, k)) /\ r.from = Len(y) /\ y \o f[k] = target
  <2> DEFINE c == x \o Rest(t, j)
             p == pos(t, j, a)
             q == Len(x) + (p - j)
             k == p + Len(a)
             y == SubSeq(c, 1, q) \o b
             found == pos(c, loop.from, a)
  <2>1. j \in 0 .. Len(t) /\ Len(t) \in Nat /\ Len(x) \in Nat
    OBVIOUS
  <2>2. found = IF p = NotFound THEN NotFound ELSE q
    BY <1>4, <2>1, PosBehind
  <2>3. RoundIs(r, loop, c, found, a, b)
    BY <1>1, <1>4
  <2>4. f[j] = IF p = NotFound THEN Rest(t, j) ELSE Part(t, j, p - j) \o b \o f[k]
    BY <2>1 DEF ReplaceLoop
  <2> HIDE DEF found
  <2>5. CASE p = NotFound
    <3>1. target = c
      BY <1>4, <2>4, <2>5
    <3>2. found = NotFound
      BY <2>2, <2>5
    <3> HIDE DEF c, p, q
    <3>3. r.over /\ r.object = ob
      BY <2>3, <3>2 DEF RoundIs
    <3> QED BY <1>4, <3>1, <3>3 DEF c
  <2>6. CASE p # NotFound
    <3>1. FoundOneMore(f, x, j, c, y, q, k, t, a, b)
      BY <2>1, <2>6, FindsOneMore
    <3>20. k \in j + 1 .. Len(t) /\ q \in Nat /\ q # NotFound /\ y \o f[k] = x \o f[j]
      <4> HIDE DEF c, p, q, k, y
      <4> QED BY <3>1 DEF FoundOneMore
    <3>2. found = q
      BY <2>2, <2>6
    <3> HIDE DEF c, p, q, k, y
    <3>3. Len(c) = ob.strlength /\ ob.strlength \in 0 .. ob.size
      BY <1>0, <1>4 DEF Shows, IsString, c
    <3> DEFINE e == f[k]
               le == Len(e)
               ly == Len(y)
               la == Len(a)
               lb == Len(b)
               lt == Len(t)
               new == Len(c) - Len(a) + Len(b)
    <3>4. k \in 0 .. Len(t) /\ e \in Seq(Symbols)
      <4>1. k \in 0 .. Len(t)
        BY <2>1, <3>20
      <4> QED BY <4>1
    <3> HIDE DEF e
    <3>5. y \in Seq(Symbols) /\ target = y \o e
      BY <1>4, <3>1, <3>20 DEF FoundOneMore, e
    <3>6. Len(target) = ly + le /\ ly \in Nat /\ le \in Nat /\ la \in Nat /\ lb \in Nat /\ lt \in Nat
      <4>1. Joins(Symbols, target, y, ly, e, le)
        BY <3>4, <3>5, JoinsThem
      <4> HIDE DEF ly, le
      <4> QED BY <4>1 DEF Joins
    <3>7. new = ly + (lt - k) /\ new = Len(c) - la + lb
      BY <3>1 DEF FoundOneMore
    <3>8. la <= lb => le >= lt - k
      BY <3>4, ReplaceGrows DEF e
    <3>9. Len(c) \in Nat /\ Len(c) <= ob.size
      BY <1>0, <3>3
    <3>10. k \in 0 .. lt
      BY <3>4
    <3>11. Len(target) <= o.size \/ Len(target) <= MaxSize
      BY <1>4 DEF HasRoom
    <3> HIDE DEF le, ly, la, lb, new
    <3>12. new <= ob.size \/ new <= MaxSize
      <4> DEFINE lc == Len(c)
                 os == o.size
                 bs == ob.size
                 tl == Len(target)
      <4>1. lc \in Nat /\ lc <= bs /\ os \in Nat /\ bs \in Nat /\ os <= bs /\ tl = ly + le
            /\ (tl <= os \/ tl <= MaxSize) /\ new = lc - la + lb /\ MaxSize \in Nat
        BY <1>0, <3>6, <3>7, <3>9, <3>11, SizeAssumption
      <4> HIDE DEF lc, os, bs, tl, lt, k
      <4>2. new <= bs \/ new <= MaxSize
        BY <3>6, <3>7, <3>8, <3>10, <4>1
      <4> QED BY <4>2 DEF bs
    <3>13. MaySetSize(Len(c) - q - Len(a))
      <4>1. Len(c) - q - Len(a) = lt - k
        BY <3>1 DEF FoundOneMore
      <4>2. lt <= MaxSize /\ MaxSize \in Nat
        BY <1>4, SizeAssumption DEF HasRoom, MaySetSize
      <4> HIDE DEF lt
      <4>3. lt - k <= MaxSize
        BY <3>6, <3>10, <4>2
      <4> QED BY <4>1, <4>3 DEF MaySetSize
    <3>14. q # NotFound
      BY <3>20
    <3>15. new = Len(c) - Len(a) + Len(b)
      BY DEF new
    <3>16. ~r.over /\ r.from = q + Len(b) /\ Shows(r.object, SubSeq(c, 1, q) \o b \o Rest(c, q + Len(a)))
      BY <1>4, <2>3, <3>2, <3>12, <3>13, <3>14, <3>15 DEF RoundIs
    <3>17. Shows(r.object, y \o Rest(t, k)) /\ r.from = Len(y)
      BY <3>1, <3>16 DEF y, FoundOneMore
    <3>18. k \in n + 1 .. Len(t)
      BY <2>1, <3>20
    <3>19. y \o f[k] = target
      BY <1>4, <3>20
    <3> QED BY <3>5, <3>16, <3>17, <3>18, <3>19
  <2> QED BY <2>5, <2>6
<1>5. fits => \/ r.over /\ Shows(r.object, target)
              \/ /\ ~r.over
                 /\ \E k \in n + 1 .. Len(t), y \in Seq(Symbols) :
                      /\ Shows(r.object, y \o Rest(t, k)) /\ r.from = Len(y) /\ y \o f[k] = target
  <2>1. fits => \/ loop.over /\ Shows(ob, target)
                \/ /\ ~loop.over
                   /\ \E j \in n .. Len(t), x \in Seq(Symbols) :
                        /\ Shows(ob, x \o Rest(t, j)) /\ loop.from = Len(x)
                        /\ x \o f[j] = target
    BY DEF OnTheWay
  <2> HIDE DEF fits, ob
  <2> QED BY <1>3, <1>4, <2>1
<1> QED BY <1>2, <1>5 DEF OnTheWay, r

\* Behind the last character nothing is found, and nothing is left.
LEMMA NothingIsLeft ==
  ASSUME NEW t \in Seq(Symbols), NEW a \in Seq(Symbols), NEW b \in Seq(Symbols), a # <<>>,
         NEW f \in [0 .. Len(t) -> Seq(Symbols)], ReplaceLoop(f, t, a, b),
         NEW j \in Len(t) .. Len(t)
  PROVE  f[j] = Rest(t, j)
<1>1. j \in 0 .. Len(t) /\ Len(t) \in Nat /\ j = Len(t)
  OBVIOUS
<1>2. pos(t, j, a) # NotFound => pos(t, j, a) + Len(a) \in j + 1 .. Len(t)
  BY <1>1, PosAnswers
<1>3. pos(t, j, a) = NotFound
  <2> DEFINE e == pos(t, j, a) + Len(a)
  <2> HIDE DEF e
  <2>1. e \notin j + 1 .. Len(t)
    BY <1>1
  <2> QED BY <1>2, <2>1 DEF e
<1> QED BY <1>1, <1>3 DEF ReplaceLoop

\* replace() has the object hold the text with every needle replaced, if there is
\* room for that.
LEMMA ReplaceHolds ==
  ASSUME NEW o, IsString(o), NEW t, Shows(o, t), NEW a \in Seq(Symbols), NEW b \in Seq(Symbols), a # <<>>
  PROVE  /\ IsString(ReplaceInMemory(o, a, b))
         /\ HasRoom(o, t, replace(t, a, b)) => Shows(ReplaceInMemory(o, a, b), replace(t, a, b))
<1> DEFINE target == replace(t, a, b)
           fits == HasRoom(o, t, target)
           m == o.strlength
           N == Len(t)
<1>1. t \in Seq(Symbols) /\ N = m /\ m \in Nat /\ o.size \in Nat /\ N <= o.size /\ N \in Nat
  BY DEF IsString, Shows
<1>2. PICK f \in [0 .. Len(t) -> Seq(Symbols)] : ReplaceLoop(f, t, a, b) /\ target = f[0]
  <2>1. t \in Seq(Symbols)
    BY <1>1
  <2> QED BY <2>1, ReplaceIsTheLoop
<1>3. PICK g : Rounds(g, o, m, a, b) /\ ReplaceInMemory(o, a, b) = g[m].object
  BY <1>1, ReplaceIsTheRounds
<1> HIDE DEF target
<1> DEFINE P(n) == OnTheWay(g[n], n, o, t, f, target, fits)
           start == [object |-> o, from |-> 0, over |-> FALSE]
<1>4. g[0] = start
  <2>1. 0 \in 0 .. m
    BY <1>1
  <2> QED BY <1>3, <2>1 DEF Rounds
<1>5. P(0)
  <2>1. LoopOK(start) /\ start.object.size >= o.size
    BY <1>1 DEF LoopOK, IsString
  <2>2. <<>> \in Seq(Symbols) /\ Len(<<>>) = 0 /\ 0 \in 0 .. N /\ 0 \in 0 .. Len(t)
    BY <1>1
  <2>3. Rest(t, 0) = t
    BY <1>1 DEF Rest
  <2>4. <<>> \o Rest(t, 0) = t /\ <<>> \o f[0] = target
    <3>1. f[0] \in Seq(Symbols)
      BY <2>2
    <3> QED BY <1>1, <1>2, <2>3, <3>1, ConcatEmptySeq
  <2>5. Shows(start.object, <<>> \o Rest(t, 0)) /\ start.from = Len(<<>>) /\ ~start.over
    BY <2>2, <2>4
  <2> HIDE DEF start
  <2>6. OnTheWay(start, 0, o, t, f, target, fits)
    BY <2>1, <2>2, <2>4, <2>5 DEF OnTheWay
  <2> QED BY <1>4, <2>6
<1>6. ASSUME NEW n \in 0 .. m, n + 1 \in 0 .. m, P(n) PROVE P(n + 1)
  <2>1. g[n + 1] = ReplaceNext(g[n], a, b)
    <3>1. n + 1 # 0 /\ (n + 1) - 1 = n
      OBVIOUS
    <3> QED BY <1>3, <1>6, <3>1 DEF Rounds
  <2>2. OnTheWay(ReplaceNext(g[n], a, b), n + 1, o, t, f, target, fits)
    <3> DEFINE loop == g[n]
    <3>1. OnTheWay(loop, n, o, t, f, target, HasRoom(o, t, target))
      BY <1>6
    <3>2. t \in Seq(Symbols) /\ Len(t) <= o.size /\ o.size \in Nat /\ n \in Nat
      BY <1>1
    <3>3. ReplaceLoop(f, t, a, b)
      BY <1>2
    <3> HIDE DEF loop
    <3>4. OnTheWay(ReplaceNext(loop, a, b), n + 1, o, t, f, target, HasRoom(o, t, target))
      BY <3>1, <3>2, <3>3, RoundOnTheWay
    <3> QED BY <3>4 DEF loop
  <2> QED BY <2>1, <2>2
<1>7. P(m)
  <2> DEFINE S == {n \in Nat : n \in 0 .. m => P(n)}
  <2> HIDE DEF P
  <2>1. 0 \in S
    BY <1>5
  <2>2. \A n \in S : n + 1 \in S
    <3> SUFFICES ASSUME NEW n \in S, n + 1 \in 0 .. m PROVE P(n + 1)
      OBVIOUS
    <3>1. n \in 0 .. m
      BY <1>1
    <3> QED BY <1>6, <3>1
  <2>3. S = Nat
    <3> HIDE DEF S
    <3>1. S \subseteq Nat
      BY DEF S
    <3> QED BY <2>1, <2>2, <3>1, SetInduction
  <2>4. m \in Nat /\ m \in 0 .. m
    BY <1>1
  <2> QED BY <2>3, <2>4
<1> DEFINE last == g[m]
<1>8. IsString(last.object)
  BY <1>7 DEF OnTheWay, LoopOK
<1>9. ASSUME fits PROVE Shows(last.object, target)
  <2> HIDE DEF last
  <2>1. OnTheWay(last, m, o, t, f, target, fits)
    BY <1>7 DEF last
  <2>2. CASE last.over /\ Shows(last.object, target)
    BY <2>2
  <2>3. CASE \E j \in m .. Len(t), x \in Seq(Symbols) :
               /\ Shows(last.object, x \o Rest(t, j)) /\ last.from = Len(x) /\ x \o f[j] = target
    <3>1. PICK j \in m .. Len(t), x \in Seq(Symbols) :
             Shows(last.object, x \o Rest(t, j)) /\ x \o f[j] = target
      BY <2>3
    <3>2. j \in Len(t) .. Len(t)
      BY <1>1
    <3>3. f[j] = Rest(t, j)
      BY <1>1, <1>2, <3>2, NothingIsLeft
    <3> QED BY <3>1, <3>3
  <2> QED BY <1>9, <2>1, <2>2, <2>3 DEF OnTheWay
<1> QED BY <1>3, <1>8, <1>9 DEF target, last

-----------------------------------------------------------------------------
(* Every call leaves an object as the code keeps it, which shows the text.  *)

IInv == IsString(str) /\ Shows(str, text)

\* A String begins with the empty text.
LEMMA InitIInv == StringInit => IInv
<1> SUFFICES ASSUME StringInit PROVE IInv
  OBVIOUS
<1>1. <<>> \in Seq(Symbols)
  OBVIOUS
<1>2. IsString(setValue(<<>>, <<>>)) /\ Shows(setValue(<<>>, <<>>), <<>>)
  BY <1>1, SetValueHolds
<1> QED BY <1>2 DEF StringInit, IInv

\* setValue() keeps the invariant,
LEMMA SetValueKeeps ==
  ASSUME IInv, NEW s \in Values, SetValue(s)
  PROVE  IInv'
BY ValuesAreTexts, SetValueHolds DEF SetValue, IInv

\* append() does,
LEMMA AppendKeeps ==
  ASSUME IInv, NEW s \in Values, AppendTo(s)
  PROVE  IInv'
<1>1. s \in Seq(Symbols)
  BY ValuesAreTexts
<1> DEFINE n == Len(text) + Len(s)
<1>2. /\ IsString(append(str, s))
      /\ Shows(append(str, s), IF n <= str.size \/ n <= MaxSize THEN text \o s ELSE text)
  BY <1>1, AppendHolds DEF IInv
<1> QED BY <1>2 DEF AppendTo, Fits, IInv

\* prepend() does,
LEMMA PrependKeeps ==
  ASSUME IInv, NEW s \in Values, Prepend(s)
  PROVE  IInv'
<1>1. s \in Seq(Symbols)
  BY ValuesAreTexts
<1>2. /\ IsString(prepend(str, s))
      /\ Shows(prepend(str, s), IF Len(text) + Len(s) <= MaxSize THEN s \o text ELSE text)
  BY <1>1, PrependHolds DEF IInv
<1> QED BY <1>2 DEF Prepend, IInv

\* removeRange() does,
LEMMA RemoveRangeKeeps ==
  ASSUME IInv, NEW first \in 0 .. Len(text), NEW last \in 0 .. Len(text), RemoveRange(first, last)
  PROVE  IInv'
<1>1. first \in Nat /\ last \in Nat
  OBVIOUS
<1>2. IsString(removeRange(str, first, last)) /\ Shows(removeRange(str, first, last), remove(text, first, last))
  BY <1>1, RemoveRangeHolds DEF IInv
<1> QED BY <1>2 DEF RemoveRange, IInv

\* setSize() does, shorter or longer,
LEMMA SetSizeKeeps ==
  ASSUME IInv, NEW n \in Nat, SetSize(n)
  PROVE  IInv'
<1>1. /\ IsString(setSize(str, n))
      /\ Shows(setSize(str, n), IF MaySetSize(n) /\ n < Len(text) THEN SubSeq(text, 1, n) ELSE text)
  BY SetSizeHolds DEF IInv
<1> QED BY <1>1 DEF SetSize, IInv

\* rtrim() does, whatever is trimmed,
LEMMA TrimRightKeeps ==
  ASSUME IInv, NEW trimmed, TrimRight(trimmed)
  PROVE  IInv'
BY RTrimHolds DEF TrimRight, IInv

\* ltrim() does,
LEMMA TrimLeftKeeps ==
  ASSUME IInv, TrimLeft
  PROVE  IInv'
BY LTrimHolds DEF TrimLeft, IInv

\* trimzero() does,
LEMMA TrimZeroKeeps ==
  ASSUME IInv, TrimZero
  PROVE  IInv'
BY TrimZeroHolds DEF TrimZero, IInv

\* setLength() does, whether it ends the text earlier, shows more of the memory or has no
\* memory to show,
LEMMA SetLengthKeeps ==
  ASSUME IInv, NEW n \in Nat, SetLength(n)
  PROVE  IInv'
<1>1. Len(text) \in Nat
  BY DEF IInv, Shows
<1>2. CASE n <= Len(text)
  <2>1. n \in 0 .. Len(text)
    BY <1>1, <1>2
  <2>2. IsString(setLength(str, n)) /\ Shows(setLength(str, n), SubSeq(text, 1, n))
    BY <2>1, ShortenHolds DEF IInv
  <2> QED BY <1>2, <2>2 DEF SetLength, IInv
<1>3. CASE n > Len(text) /\ Fits(n)
  <2>1. n <= str.size \/ n <= MaxSize
    BY <1>3 DEF Fits
  <2>2. /\ IsString(setLength(str, n))
        /\ Shows(setLength(str, n), text \o Copied(setLength(str, n).value, Len(text), n - Len(text)))
    BY <1>3, <2>1, LengthenHolds DEF IInv
  <2>3. ~(n <= Len(text))
    BY <1>1, <1>3
  <2> QED BY <1>3, <2>2, <2>3 DEF SetLength, IInv
<1>4. CASE n > Len(text) /\ ~Fits(n)
  <2>1. setLength(str, n) = str
    <3>1. ~(str.size >= n) /\ str.size < n
      BY <1>4 DEF Fits, IInv, IsString
    <3>2. ~MaySetSize(n)
      BY <1>4 DEF Fits, MaySetSize
    <3> QED BY <3>1, <3>2 DEF setLength, Grown, setSize
  <2>2. ~(n <= Len(text))
    BY <1>1, <1>4
  <2> QED BY <1>4, <2>1, <2>2 DEF SetLength, IInv
<1>5. n <= Len(text) \/ n > Len(text)
  BY <1>1
<1> QED BY <1>2, <1>3, <1>4, <1>5

\* and replace() does.
LEMMA ReplaceKeeps ==
  ASSUME IInv, NEW a \in Values, NEW b \in Values, a # <<>>, Replace(a, b)
  PROVE  IInv'
<1> DEFINE target == replace(text, a, b)
           r == ReplaceInMemory(str, a, b)
<1>1. a \in Seq(Symbols) /\ b \in Seq(Symbols)
  BY ValuesAreTexts
<1>2. IsString(r) /\ (HasRoom(str, text, target) => Shows(r, target))
  BY <1>1, ReplaceHolds DEF IInv
<1>3. Shows(r, Content(r))
  BY <1>2, ContentShows
<1>4. Fits(Len(target)) /\ MaySetSize(Len(text)) <=> HasRoom(str, text, target)
  BY DEF Fits, HasRoom
<1>5. str' = r /\ text' = IF Fits(Len(target)) /\ MaySetSize(Len(text)) THEN target ELSE Content(str')
  BY DEF Replace
<1> HIDE DEF r, target
<1>6. Shows(r, text')
  BY <1>2, <1>3, <1>4, <1>5
<1> QED BY <1>2, <1>5, <1>6 DEF IInv

\* What the object is, as the calls leave it: the text in its memory, a zero behind it.
LEMMA IInvHolds == IInv => HoldsItsText
<1> SUFFICES ASSUME IInv PROVE HoldsItsText
  OBVIOUS
<1>1. Content(str) = text
  BY ShownIsContent DEF IInv
<1> QED BY <1>1 DEF IInv, IsString, HoldsItsText

\* Whatever is called, with whatever texts, and whether memory can be had or not, the
\* String holds the text its calls stand for, inside its memory and ended by a zero.
THEOREM StringHoldsItsText == StringSpec => []HoldsItsText
<1>1. IInv /\ [StringNext]_strVars => IInv'
  <2> SUFFICES ASSUME IInv, [StringNext]_strVars PROVE IInv'
    OBVIOUS
  <2>1. ASSUME NEW s \in Values, SetValue(s) \/ AppendTo(s) \/ Prepend(s) PROVE IInv'
    BY <2>1, SetValueKeeps, AppendKeeps, PrependKeeps
  <2>2. ASSUME NEW first \in 0 .. Len(text), NEW last \in 0 .. Len(text), RemoveRange(first, last)
        PROVE  IInv'
    BY <2>2, RemoveRangeKeeps
  <2>3. ASSUME NEW n \in 0 .. MaxString, SetSize(n) \/ SetLength(n) PROVE IInv'
    BY <2>3, SetSizeKeeps, SetLengthKeeps
  <2>4. CASE TrimRight(Blanks) \/ TrimRight(LineEnds) \/ TrimLeft \/ TrimZero
    BY <2>4, TrimRightKeeps, TrimLeftKeeps, TrimZeroKeeps
  <2>5. ASSUME NEW a \in Values, NEW b \in Values, a # <<>>, Replace(a, b) PROVE IInv'
    BY <2>5, ReplaceKeeps
  <2>6. CASE UNCHANGED strVars
    BY <2>6 DEF strVars, IInv
  <2> QED BY <2>1, <2>2, <2>3, <2>4, <2>5, <2>6 DEF StringNext
<1> QED BY <1>1, InitIInv, IInvHolds, PTL DEF StringSpec
=============================================================================
