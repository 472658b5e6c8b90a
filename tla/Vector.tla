------------------------------- MODULE Vector -------------------------------
(***************************************************************************)
(* Groundfloor::Vector (Groundfloor/Molecules/Vector.{h,cpp}): the dynamic *)
(* array of object pointers every container of the libraries is built on.  *)
(*                                                                         *)
(* A vector is a value here, and each method an operator from the vector   *)
(* before the call to the vector after it:                                 *)
(*   elems      the used slots, paVector[0 .. iElementCount - 1]; a slot   *)
(*              holds an object or NULL (slot i is elems[i + 1])           *)
(*   allocated  iAllocated                                                 *)
(*   removed    iRemovedCount                                              *)
(*   prealloc   iPreAllocateCount                                          *)
(*   force      forceInsert                                                *)
(* Indices are those of the source, from 0.  Memory allocation succeeds.   *)
(***************************************************************************)
LOCAL INSTANCE Integers
LOCAL INSTANCE Sequences

CONSTANTS NULL          \* the NULL pointer

Vectors(Objects) ==
  [elems: Seq(Objects \union {NULL}), allocated: Nat, removed: Nat,
   prealloc: Nat, force: BOOLEAN]

\* Vector(iPreAlloc)
EmptyVector(prealloc) ==
  [elems |-> <<>>, allocated |-> 0, removed |-> 0,
   prealloc |-> prealloc, force |-> FALSE]

size(v) == Len(v.elems)

InBounds(v, i) == i < size(v)

elementAt(v, i) == IF InBounds(v, i) THEN v.elems[i + 1] ELSE NULL

\* The slots (numbered as in elems) from slot number n on that hold NULL.
Holes(v, n) == {h \in n..size(v) : v.elems[h] = NULL}

Least(S) == CHOOSE x \in S : \A y \in S : x <= y

\* One hole fewer is on record, if any was.
OneFewer(removed) == IF removed > 0 THEN removed - 1 ELSE removed

\* Reallocation: what does not fit in the new size is cut off.
resizeVector(v, n) ==
  [v EXCEPT !.allocated = n,
            !.elems = SubSeq(@, 1, IF n < Len(@) THEN n ELSE Len(@))]

addElement(v, x) ==
  LET grown == IF v.allocated <= size(v)
               THEN resizeVector(v, v.allocated + v.prealloc)
               ELSE v
  IN  [grown EXCEPT !.elems = Append(@, x)]

\* Puts x in the first hole when holes are on record, else at the end.
insertSomewhere(v, x) ==
  IF (v.removed > 0 \/ v.force) /\ Holes(v, 1) # {}
  THEN [v EXCEPT !.elems[Least(Holes(v, 1))] = x, !.removed = OneFewer(@)]
  ELSE addElement(v, x)

\* x goes to slot `at`; what was there and after it moves up by one, as far as
\* the first hole, or to a new slot at the end when there is no hole.
insertAt(v, at, x) ==
  LET e      == v.elems
      n      == at + 1
      hole   == Least(Holes(v, n))
      noted  == [v EXCEPT !.removed = OneFewer(@)]
      shifted(last) == SubSeq(e, 1, at) \o <<x>> \o SubSeq(e, n, last)
  IN  IF ~InBounds(v, at) THEN addElement(v, x)
      ELSE IF e[n] = NULL THEN [noted EXCEPT !.elems[n] = x]
      ELSE IF Holes(v, n) # {}
           THEN [noted EXCEPT !.elems = shifted(hole - 1) \o SubSeq(e, hole + 1, Len(e))]
           ELSE addElement([noted EXCEPT !.elems = shifted(Len(e) - 1)], e[Len(e)])

\* The slot is replaced whatever it holds; nothing is counted as removed.
replaceElement(v, i, x) ==
  IF InBounds(v, i) THEN [v EXCEPT !.elems[i + 1] = x] ELSE v

\* removeElement(unsigned int)
removeElement(v, i) ==
  IF elementAt(v, i) # NULL
  THEN [v EXCEPT !.elems[i + 1] = NULL, !.removed = @ + 1]
  ELSE v

\* removeElement(const Freeable *): the first slot that holds x (x may be NULL).
removeObject(v, x) ==
  LET at == {n \in 1..size(v) : v.elems[n] = x}
  IN  IF at = {} THEN v
      ELSE [v EXCEPT !.elems[Least(at)] = NULL, !.removed = @ + 1]

\* Only called on a vector that is not empty: the code reads slot 0 unchecked.
removeFirstElementAndShiftToLeft(v) == [v EXCEPT !.elems = Tail(@)]

swapElements(v, i, j) ==
  IF InBounds(v, i) /\ InBounds(v, j)
  THEN [v EXCEPT !.elems[i + 1] = v.elems[j + 1], !.elems[j + 1] = v.elems[i + 1]]
  ELSE v

\* The objects are deleted, the memory and iRemovedCount are kept.
clear(v) == [v EXCEPT !.elems = <<>>]

findElement(v, x) ==
  LET at == {n \in 1..size(v) : v.elems[n] = x}
  IN  IF at = {} THEN -1 ELSE Least(at) - 1

compress(v) ==
  LET kept == SelectSeq(v.elems, LAMBDA x : x # NULL)
  IN  [v EXCEPT !.elems = kept, !.removed = 0, !.allocated = Len(kept)]

\* fastCopy(into): the vector `into` after the call.
fastCopy(v, into) == [into EXCEPT !.elems = v.elems, !.allocated = size(v)]

=============================================================================
