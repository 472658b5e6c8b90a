---------------------------- MODULE StringObject ----------------------------
(***************************************************************************)
(* The memory of a Groundfloor::String (Molecules/String.cpp): how the     *)
(* operations that change the text grow, move and cut the memory it lies   *)
(* in.  `str` is the object: its memory (four bytes longer than size, as   *)
(* the code allocates it), strlength and size.  Memory nobody wrote holds  *)
(* Garbage.  `text` is what the String stands for by the calls made.       *)
(***************************************************************************)
EXTENDS Strings

CONSTANTS MaxSize,       \* setSize() and prepend() refuse more (0x3FFFFFFF in the code)
          Values,        \* the texts the calls are given
          MaxString      \* bound: no call is made that would lead beyond this length

ASSUME SizeAssumption == MaxSize \in Nat

\* The calls are given texts.
ASSUME ValuesAssumption == \A s \in Values : s \in Seq(Range(s))

VARIABLES str, text

strVars == <<str, text>>

Garbage == "?"

-----------------------------------------------------------------------------
(* The operations, from one object to the next.                             *)

Terminated(memory, at) == [i \in DOMAIN memory |-> IF i \in at .. at + 3 THEN Zero ELSE memory[i]]

Written(memory, at, s) ==
  [i \in DOMAIN memory |-> IF i \in at .. at + Len(s) - 1 THEN CharAt(s, i - at) ELSE memory[i]]

\* The text, and the memory from a place on, as a sequence.
Copied(memory, at, length) == [k \in 1 .. length |-> memory[at + k - 1]]

Content(o) == Copied(o.value, 0, o.strlength)

Fresh(size) == [i \in 0 .. size + 3 |-> Garbage]

\* Mutant: setSize() leaves the length alone.
FirstOfTwo(m, n) == m

Least(m, n) == IF m <= n THEN m ELSE n

setValue(o, s) ==
  [value |-> Terminated(Written(Fresh(Len(s)), 0, s), Len(s)), strlength |-> Len(s), size |-> Len(s)]

MaySetSize(n) == n <= MaxSize

setSize(o, n) ==
  LET moved == [i \in 0 .. n + 3 |-> IF i <= o.size + 3 THEN o.value[i] ELSE Garbage]
  IN  IF MaySetSize(n)
      THEN [value |-> Terminated(moved, n), strlength |-> Least(o.strlength, n), size |-> n]
      ELSE o

\* The object with memory for newlen characters; unchanged if there is none to have.
Grown(o, newlen) == IF o.size < newlen THEN setSize(o, newlen) ELSE o

append(o, s) ==
  LET newlen == o.strlength + Len(s)
      grown  == Grown(o, newlen)
  IN  IF newlen = 0 \/ grown.size < newlen THEN o
      ELSE [grown EXCEPT !.value = Terminated(Written(@, o.strlength, s), newlen),
                         !.strlength = newlen]

prepend(o, s) ==
  IF Len(s) + o.strlength <= MaxSize THEN setValue(o, s \o Content(o)) ELSE o

setLength(o, n) ==
  LET grown == Grown(o, n)
  IN  IF grown.size < n THEN o
      ELSE [grown EXCEPT !.value = Terminated(@, n), !.strlength = n]

removeRange(o, first, last) ==
  IF first > last \/ last >= o.strlength THEN o
  ELSE LET newlen == o.strlength - (last - first + 1)
           tail   == Copied(o.value, last + 1, o.strlength - last - 1)
       IN  [o EXCEPT !.value = Terminated(Written(@, first, tail), newlen), !.strlength = newlen]

\* What replace() puts behind the other text lies in a String of its own meanwhile.
Buffered(o, at, length) ==
  IF MaySetSize(length) THEN Copied(o.value, at, length) ELSE [k \in 1 .. length |-> Garbage]

\* A round of the loop in replace(), from an object and the place the search goes on
\* at.  When there is nothing more to be found the loop is over, and when the memory
\* cannot grow it stops where it is, and replace() still returns true.
ReplaceNext(loop, a, b) ==
  LET o      == loop.object
      p      == pos(Content(o), loop.from, a)
      newlen == o.strlength - Len(a) + Len(b)
      tail   == Buffered(o, p + Len(a), o.strlength - p - Len(a))
      sized  == setLength(o, newlen)
  IN  IF loop.over \/ p = NotFound \/ sized.strlength # newlen THEN [loop EXCEPT !.over = TRUE]
      ELSE [object |-> [sized EXCEPT !.value = Written(Written(@, p + Len(b), tail), p, b)],
            from |-> p + Len(b), over |-> FALSE]

\* Each round takes a character of the text out, so that there are no more of them.
ReplaceInMemory(o, a, b) ==
  LET rounds[n \in 0 .. o.strlength] ==
        IF n = 0 THEN [object |-> o, from |-> 0, over |-> FALSE] ELSE ReplaceNext(rounds[n - 1], a, b)
  IN  rounds[o.strlength].object

rtrim(o, trimmed) ==
  LET kept   == {i \in 0 .. o.strlength - 1 : o.value[i] \notin trimmed}
      newlen == IF kept = {} THEN 0 ELSE Max(kept) + 1
  IN  IF o.strlength = 0 THEN o
      ELSE [o EXCEPT !.value[newlen] = Zero, !.strlength = newlen]

ltrim(o) ==
  LET kept  == {i \in 0 .. o.strlength - 1 : o.value[i] \notin Blanks}
      first == IF kept = {} THEN o.strlength ELSE Min(kept)
  IN  IF o.strlength = 0 THEN o ELSE setValue(o, Copied(o.value, first, o.strlength - first))

trimzero(o) == setLength(o, Min({i \in DOMAIN o.value : o.value[i] = Zero}))

-----------------------------------------------------------------------------
(* The calls, and what they make of the text.                               *)

StringInit == text = <<>> /\ str = setValue(<<>>, <<>>)

\* Whether n characters fit: what is there is used, more is had up to MaxSize.
Fits(n) == n <= str.size \/ n <= MaxSize

SetValue(s) == str' = setValue(str, s) /\ text' = s
AppendTo(s) ==
  str' = append(str, s) /\ text' = IF Fits(Len(text) + Len(s)) THEN text \o s ELSE text
Prepend(s) ==
  str' = prepend(str, s) /\ text' = IF Len(text) + Len(s) <= MaxSize THEN s \o text ELSE text
RemoveRange(first, last) ==
  str' = removeRange(str, first, last) /\ text' = remove(text, first, last)
SetSize(n) ==
  /\ str' = setSize(str, n)
  /\ text' = IF MaySetSize(n) /\ n < Len(text) THEN SubSeq(text, 1, n) ELSE text
TrimRight(trimmed) == str' = rtrim(str, trimmed) /\ text' = TrimmedRight(text, trimmed)
TrimLeft == str' = ltrim(str) /\ text' = TrimmedLeft(text)

\* A String made longer shows what the memory holds.
SetLength(n) ==
  /\ str' = setLength(str, n)
  /\ text' = IF n <= Len(text) THEN SubSeq(text, 1, n)
             ELSE IF Fits(n) THEN text \o Copied(str'.value, Len(text), n - Len(text))
             ELSE text

TrimZero ==
  /\ str' = trimzero(str)
  /\ text' = LET zeros == {i \in 1 .. Len(text) : text[i] = Zero}
             IN  IF zeros = {} THEN text ELSE SubSeq(text, 1, Min(zeros) - 1)

\* Without memory, for the text or for what is behind a needle, replace() leaves a
\* text that is neither the old one nor the new.
Replace(a, b) ==
  /\ str' = ReplaceInMemory(str, a, b)
  /\ text' = IF Fits(Len(replace(text, a, b))) /\ MaySetSize(Len(text)) THEN replace(text, a, b)
             ELSE Content(str')

StringNext ==
  /\ \/ \E s \in Values : SetValue(s) \/ AppendTo(s) \/ Prepend(s)
     \/ \E first, last \in 0 .. Len(text) : RemoveRange(first, last)
     \/ \E n \in 0 .. MaxString : SetSize(n) \/ SetLength(n)
     \/ TrimRight(Blanks) \/ TrimRight(LineEnds) \/ TrimLeft \/ TrimZero
     \/ \E a, b \in Values : a # <<>> /\ Replace(a, b)
  /\ Len(text') <= MaxString

StringSpec == StringInit /\ [][StringNext]_strVars

-----------------------------------------------------------------------------
\* Whatever calls are made one after the other, the String holds the text they
\* stand for, inside its memory and with a zero behind it: getValue() is read as
\* a C string in most of the libraries.
HoldsItsText ==
  /\ DOMAIN str.value = 0 .. str.size + 3
  /\ str.strlength <= str.size
  /\ str.value[str.strlength] = Zero
  /\ Content(str) = text
=============================================================================
