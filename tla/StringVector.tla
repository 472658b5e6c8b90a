---------------------------- MODULE StringVector ----------------------------
(***************************************************************************)
(* Groundfloor::StringVector (Molecules/StringVector.cpp): a long text     *)
(* kept as a row of chunks, "multiple strings to be seen as One".          *)
(*                                                                         *)
(* The state is the row; addChunk() adds to it.  The other methods only    *)
(* read it: they are operators here, each a loop of the code written as a  *)
(* recursion over the loop's own variables.  What they should answer is    *)
(* what the same question has for an answer in the text in one piece.      *)
(*                                                                         *)
(* unsigned long arithmetic is arithmetic modulo ULongModulus; it matters  *)
(* where a position 0 is lowered by one.                                   *)
(***************************************************************************)
EXTENDS Strings

CONSTANTS Chunks,        \* the chunks addChunk() is called with
          MaxChunks,     \* bound: how many are added
          ULongModulus   \* how many values an unsigned long has

ASSUME ModulusAssumption == ULongModulus \in Nat \ {0}

VARIABLE vec

-----------------------------------------------------------------------------

SVInit == vec = <<>>

addChunk(chunk) == vec' = Append(vec, chunk)

Lower(n) == (n - 1) % ULongModulus

\* elementAt(): NULL outside the row.
IsChunk(i) == i < Len(vec)
ChunkLen(i) == Len(CharAt(vec, i))

Place(i, p) == [ind |-> i, pos |-> p]

\* The place behind place <<i, p>>, as the loops step from one to the next.
Behind(i, p) == IF p + 1 >= ChunkLen(i) THEN Place(i + 1, p + 1 - ChunkLen(i)) ELSE Place(i, p + 1)

\* pos() first moves a start that lies behind its chunk into a later one.
RECURSIVE FixStart(_, _)
FixStart(i, p) ==
  IF IsChunk(i) /\ p >= ChunkLen(i) THEN FixStart(i + 1, p - ChunkLen(i)) ELSE Place(i, p)

startMinusOne(place) ==
  IF place.pos = 0 THEN Place(place.ind - 1, ChunkLen(place.ind - 1) - 1)
  ELSE Place(place.ind, place.pos - 1)

endMinusOne(place) == startMinusOne(place)

\* Mutant: behind the character that did not match.
ResumeHere(i, p, return) == Behind(i, p)

\* Where the search goes on when a match breaks off: behind the place where it began.
Resume(i, p, return) == return

NoRange == [found |-> FALSE]

\* i, p: where the loop is; matched: how many characters of the needle match so far;
\* return: the place behind the one where that match began.
RECURSIVE Search(_, _, _, _, _)
Search(needle, i, p, matched, return) ==
  IF ~IsChunk(i) THEN NoRange
  ELSE IF p >= ChunkLen(i) THEN Search(needle, i + 1, p, matched, return)
  ELSE IF CharAt(CharAt(vec, i), p) = CharAt(needle, matched)
  THEN LET first == IF matched = 0 THEN Behind(i, p) ELSE return
           next  == Behind(i, p)
       IN  IF matched + 1 = Len(needle)
           THEN [found |-> TRUE, start |-> startMinusOne(first), end |-> Place(i, p)]
           ELSE Search(needle, next.ind, next.pos, matched + 1, first)
  ELSE LET next == IF matched # 0 THEN Resume(i, p, return) ELSE Behind(i, p)
       IN  Search(needle, next.ind, next.pos, 0, return)

posInChunks(start, needle) ==
  LET fixed == FixStart(start.ind, start.pos)
  IN  Search(needle, fixed.ind, fixed.pos, 0, fixed)

-----------------------------------------------------------------------------
(* copy( iStartChunk, iStartPos, iLength )                                  *)

RECURSIVE CopyLength(_, _, _)
CopyLength(i, p, todo) ==
  IF todo = 0 \/ ~IsChunk(i) THEN <<>>
  ELSE IF p >= ChunkLen(i) THEN CopyLength(i + 1, p - ChunkLen(i), todo)
  ELSE LET left == ChunkLen(i) - p
       IN  IF todo <= left THEN Part(CharAt(vec, i), p, todo)
           ELSE Part(CharAt(vec, i), p, left) \o CopyLength(i + 1, 0, todo - left)

(* copy( aRange ): the end moves with the start while both are in one chunk *)
(* and the end lies behind it.                                              *)

\* The end as it stands when the loop leaves chunk i, which it copied or skipped.
EndBehind(i, end) ==
  IF i # end.ind THEN end
  ELSE Place(end.ind + 1, IF end.pos >= ChunkLen(i) THEN end.pos - ChunkLen(i) ELSE end.pos)

RECURSIVE CopyRange(_, _, _)
CopyRange(i, p, end) ==
  IF ~IsChunk(i) THEN <<>>
  ELSE IF p >= ChunkLen(i) THEN CopyRange(i + 1, p - ChunkLen(i), EndBehind(i, end))
  ELSE IF i = end.ind /\ end.pos < ChunkLen(i)
  THEN Part(CharAt(vec, i), p, end.pos - p + 1)
  ELSE Rest(CharAt(vec, i), p) \o CopyRange(i + 1, 0, EndBehind(i, end))

copy(start, end) == CopyRange(start.ind, start.pos, end)

\* copyStringBetween_ansi: the second search starts where sStrA starts, and the
\* range ends one before sStrB, a position 0 made one lower as a number.
copyStringBetween(strA, strB) ==
  LET a == posInChunks(Place(0, 0), strA)
      b == posInChunks(a.start, strB)
  IN  IF ~a.found \/ ~b.found THEN <<>>
      ELSE copy(Place(a.end.ind, a.end.pos + 1), Place(b.start.ind, Lower(b.start.pos)))

-----------------------------------------------------------------------------

RECURSIVE getLength(_)
getLength(i) == IF IsChunk(i) THEN ChunkLen(i) + getLength(i + 1) ELSE 0

\* The loop ends when nothing is left to go, with the range still at <<0, 0>>,
\* also where the position is the first of a later chunk.
RECURSIVE Translate(_, _)
Translate(i, todo) ==
  IF todo = 0 \/ ~IsChunk(i) THEN Place(0, 0)
  ELSE IF ChunkLen(i) > todo THEN Place(i, todo)
  ELSE Translate(i + 1, todo - ChunkLen(i))

translatePosToChunkedIndex(p) == Translate(0, p)

-----------------------------------------------------------------------------
(* The text in one piece, and what a place in the chunks is in it.          *)

Flat == FlattenSeq(vec)

FlatPos(place) == Len(FlattenSeq(SubSeq(vec, 1, place.ind))) + place.pos

InChunk(place) == place.ind \in 0 .. Len(vec) - 1 /\ place.pos \in 0 .. ChunkLen(place.ind) - 1

SVNext == Len(vec) < MaxChunks /\ \E chunk \in Chunks : addChunk(chunk)

SVSpec == SVInit /\ [][SVNext]_vec
=============================================================================
