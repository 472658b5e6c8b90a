------------------------------ MODULE Strings ------------------------------
(***************************************************************************)
(* The text algorithms of Groundfloor::String (Molecules/String.cpp) and   *)
(* the helpers of Materials/Functions.cpp that only search and cut.        *)
(*                                                                         *)
(* A text is a sequence of characters; positions count from 0, as in the   *)
(* code, and a search that finds nothing answers -1.  A String's memory    *)
(* (its size, the four bytes of zero behind it) is left out: these         *)
(* functions see only the characters up to strlength.                      *)
(***************************************************************************)
EXTENDS Integers, Sequences, FiniteSets, SequencesExt

NotFound == -1

CharAt(s, i) == s[i + 1]

\* The `length` characters of s from position `first` on.
Part(s, first, length) == SubSeq(s, first + 1, first + length)

Rest(s, first) == SubSeq(s, first + 1, Len(s))

-----------------------------------------------------------------------------
(* String::pos: one loop over the text that remembers where the current     *)
(* match began and how far it is, and goes back behind that beginning when  *)
(* the match breaks off.  The loop's own position is i.                     *)

pos(s, start, needle) ==
  LET from[at \in (0 .. Len(s)) \X (0 .. Len(needle) - 1)] ==
        LET first   == at[1]
            matched == at[2]
            i       == first + matched
        IN  IF i >= Len(s) THEN NotFound
            ELSE IF CharAt(s, i) # CharAt(needle, matched)
            THEN from[<<first + 1, 0>>]
            ELSE IF matched + 1 = Len(needle) THEN first
            ELSE from[<<first, matched + 1>>]
  IN  from[<<start, 0>>]

lastpos(s, needle) ==
  LET behind[last \in NotFound .. Len(s) - 1] ==
        LET p == pos(s, last + 1, needle) IN IF p = NotFound THEN last ELSE behind[p]
  IN  behind[NotFound]

\* The search goes on behind what was put in, in what is left of the text, so that a
\* replacement that holds the needle is not replaced again.
replace(s, a, b) ==
  LET replaced[from \in 0 .. Len(s)] ==
        LET p == pos(s, from, a)
        IN  IF p = NotFound THEN Rest(s, from)
            ELSE Part(s, from, p - from) \o b \o replaced[p + Len(a)]
  IN  replaced[0]

\* The characters from `first` to `last`, both included, are taken out; a range
\* that does not lie in the text changes nothing.
remove(s, first, last) ==
  IF first <= last /\ last < Len(s) THEN Part(s, 0, first) \o Rest(s, last + 1) ELSE s

-----------------------------------------------------------------------------
(* Groundfloor::split_p: iMax = -1 cuts at every needle.  The limit is      *)
(* looked at only after a cut.                                              *)

LimitReached(count, iMax) == iMax # -1 /\ count >= iMax

split(s, needle, iMax) ==
  LET from[at \in (0 .. Len(s)) \X Nat] ==
        LET previous == at[1]
            count    == at[2]
            current  == pos(s, previous, needle)
        IN  IF current = NotFound \/ (count > 1 /\ LimitReached(count, iMax))
            THEN <<Rest(s, previous)>>
            ELSE <<Part(s, previous, current - previous)>>
                   \o from[<<current + Len(needle), count + 1>>]
  IN  from[<<0, 1>>]

-----------------------------------------------------------------------------
(* String::rtrim_ansi and ltrim_ansi: what they leave of a text.            *)

Zero     == "\\0"
LineEnds == {"\r", "\n", Zero}
Blanks   == LineEnds \union {" ", "\t"}

TrimmedRight(s, trimmed) ==
  LET kept == {i \in 1 .. Len(s) : s[i] \notin trimmed} IN SubSeq(s, 1, Max(kept \union {0}))

TrimmedLeft(s) ==
  LET kept == {i \in 1 .. Len(s) : s[i] \notin Blanks}
  IN  SubSeq(s, Min(kept \union {Len(s) + 1}), Len(s))

-----------------------------------------------------------------------------
(* What the searches mean, said without a loop.                             *)

OccursAt(s, needle, i) == i + Len(needle) <= Len(s) /\ Part(s, i, Len(needle)) = needle

Occurrences(s, start, needle) == {i \in start .. Len(s) : OccursAt(s, needle, i)}

FirstOccurrence(s, start, needle) ==
  LET found == Occurrences(s, start, needle)
  IN  IF found = {} THEN NotFound ELSE Min(found)

LastOccurrence(s, needle) == Max(Occurrences(s, 0, needle) \union {NotFound})

Join(slices, needle) == FoldLeft(LAMBDA joined, slice : joined \o needle \o slice,
                                 Head(slices), Tail(slices))
=============================================================================
