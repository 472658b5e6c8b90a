---------------------------- MODULE StringLookup ----------------------------
(***************************************************************************)
(* SimpleStringLookup (Groundfloor/Materials/StringLookup.cpp): a Vector   *)
(* of named objects, searched from the front.  An entry is a record of a   *)
(* name and an object; the objects are not the lookup's own.               *)
(***************************************************************************)
EXTENDS Vector, Naturals, Sequences

Entry(name, object) == [name |-> name, object |-> object]

\* The slots (from 1) that are searched: holes are skipped.
Filled(lookup) == {n \in 1 .. size(lookup) : lookup.elems[n] # NULL}

getObjectByString(lookup, name) ==
  LET named == {n \in Filled(lookup) : lookup.elems[n].name = name}
  IN  IF named = {} THEN NULL ELSE lookup.elems[Least(named)].object

\* Mutant: the order the function is asked for is turned round.
MayStandBeforeReversed(name, entry, bAscending) ==
  IF bAscending THEN Len(name) >= Len(entry.name) ELSE Len(name) <= Len(entry.name)

MayStandBefore(name, entry, bAscending) ==
  IF bAscending THEN Len(name) <= Len(entry.name) ELSE Len(name) >= Len(entry.name)

insertObjectSortedByLength(lookup, name, object, bAscending) ==
  LET later == {n \in Filled(lookup) : MayStandBefore(name, lookup.elems[n], bAscending)}
  IN  IF later = {} THEN addElement(lookup, Entry(name, object))
      ELSE insertAt(lookup, Least(later) - 1, Entry(name, object))
=============================================================================
