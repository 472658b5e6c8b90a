------------------------------- MODULE Tables -------------------------------
(***************************************************************************)
(* BTable and what BFunctions.cpp makes of it: nodes and back, and CSV and *)
(* back (there it comes back as nodes, a line with its values).            *)
(*                                                                         *)
(* A table is the names and kinds of its fields and its records, sequences *)
(* of texts.  `table` is one that a program fills.                         *)
(***************************************************************************)
EXTENDS Bookshelf

CONSTANTS Headers,       \* the fields of a table: sequences of [name, kind]
          Cells,         \* the values
          MaxRecords,    \* bound: the records of a table
          Separators,    \* the CsvSettings used: records
          BlockSizes     \* sizes of the blocks a file is read in (1024 and 20 in the code)

VARIABLE table

-----------------------------------------------------------------------------
(* BRecord, BFields                                                         *)

fieldNames(t) == [i \in DOMAIN t.fields |-> t.fields[i].name]

getFieldIndex(t, name) == pos(fieldNames(t), 0, <<name>>)

\* Values are only added: the loop that takes the surplus away looks for values
\* that are not there.
setValueCount(record, iCount) ==
  record \o [k \in 1 .. Max({0, iCount - Len(record)}) |-> <<>>]

-----------------------------------------------------------------------------
(* BNodeContentsToTable and BNodeAttributesToTable: a record from each      *)
(* child; what has a name no field has yet makes a field.                   *)

\* Mutant: the record is only made longer by a field that is new.
withValueAtEnd(t, item) ==
  LET known   == getFieldIndex(t, item.name)
      fields  == IF known = NotFound THEN Append(t.fields, [name |-> item.name, kind |-> "string"])
                 ELSE t.fields
      r       == Len(t.records)
  IN  [fields |-> fields, records |-> [t.records EXCEPT ![r] = Append(@, item.value)]]

withValue(t, item) ==
  LET known   == getFieldIndex(t, item.name)
      fields  == IF known = NotFound THEN Append(t.fields, [name |-> item.name, kind |-> "string"])
                 ELSE t.fields
      column  == IF known = NotFound THEN Len(fields) ELSE known + 1
      r       == Len(t.records)
  IN  [fields  |-> fields,
       records |-> [t.records EXCEPT ![r] = [setValueCount(@, column) EXCEPT ![column] = item.value]]]

withRecord(t, items) ==
  FoldLeft(withValue, [t EXCEPT !.records = Append(@, <<>>)], items)

tableOf(records) == FoldLeft(withRecord, [fields |-> <<>>, records |-> <<>>], records)

contentItems(nodes, n) ==
  LET below == children(nodes, n)
  IN  [i \in DOMAIN below |-> [name |-> nodes[below[i]].name, value |-> nodes[below[i]].content]]

attributeItems(nodes, n) ==
  LET attributes == nodes[n].attributes
  IN  [i \in DOMAIN attributes |-> [name |-> attributes[i].key, value |-> attributes[i].value]]

BNodeContentsToTable(nodes, n) ==
  LET below == children(nodes, n)
  IN  tableOf([i \in DOMAIN below |-> contentItems(nodes, below[i])])

BNodeAttributesToTable(nodes, n) ==
  LET below == children(nodes, n)
  IN  tableOf([i \in DOMAIN below |-> attributeItems(nodes, below[i])])

-----------------------------------------------------------------------------
(* BTableToNodeContents and BTableToNodeAttributes.  Every record must have *)
(* a value for every field: the code does not ask.                          *)

plainNode(name) == [name |-> name, content |-> <<>>, attributes |-> <<>>]

tableNode(name) == addChildNode(<<>>, NULL_NODE, plainNode(name))

BTableToNodeContents(t, sTableNodeName, sRecordNodeName) ==
  LET withField(nodes, record, at, f) ==
        addChildNode(nodes, at, [plainNode(t.fields[f].name) EXCEPT !.content = record[f]])
      withRecordNode(nodes, record) ==
        FoldLeft(LAMBDA all, f : withField(all, record, Len(nodes) + 1, f),
                 addChildNode(nodes, 1, plainNode(sRecordNodeName)), [f \in DOMAIN t.fields |-> f])
  IN  FoldLeft(withRecordNode, tableNode(sTableNodeName), t.records)

BTableToNodeAttributes(t, sTableNodeName, sRecordNodeName) ==
  LET attributesOf(record) ==
        [f \in DOMAIN t.fields |-> [key |-> t.fields[f].name, value |-> record[f], hidden |-> FALSE]]
  IN  FoldLeft(LAMBDA nodes, record :
                 addChildNode(nodes, 1, [plainNode(sRecordNodeName) EXCEPT !.attributes = attributesOf(record)]),
               tableNode(sTableNodeName), t.records)

-----------------------------------------------------------------------------
(* BCsvWrite_Table: the quotes in a value are doubled, whatever its kind;   *)
(* the names of the columns are written as they are.                        *)

csvValue(t, k, value, settings) ==
  LET sVal == replace(value, settings.string, settings.string \o settings.string)
  IN  IF t.fields[k].kind = "string" THEN settings.string \o sVal \o settings.string ELSE sVal

\* The values with a separator between two of them, and the end of the line.
csvLine(values, settings) ==
  FoldLeft(LAMBDA out, k : out \o values[k] \o IF k < Len(values) THEN settings.column ELSE <<>>,
           <<>>, [k \in DOMAIN values |-> k]) \o settings.record

BCsvWrite_Table(t, settings) ==
  LET names == [k \in DOMAIN t.fields |-> settings.string \o t.fields[k].name \o settings.string]
      line(record) == csvLine([k \in DOMAIN record |-> csvValue(t, k, record[k], settings)], settings)
  IN  FoldLeft(LAMBDA out, record : out \o line(record),
               IF settings.columnnames THEN csvLine(names, settings) ELSE <<>>, t.records)

-----------------------------------------------------------------------------
(* BCsvImport_FromFile.  The file is read block by block; where a block     *)
(* shows no separator any more a smaller one is read behind it.  A quote is *)
(* only ever dropped, or kept if it stands right behind a dropped one:      *)
(* "instring != instring" compares and changes nothing, so a separator      *)
(* between quotes separates.                                                *)

\* FileCommunicator::receive: the end is noticed when less is had than asked for.
receive(r, size) ==
  LET had == Min({size, Len(r.file)})
  IN  [data |-> Part(r.file, 0, had), file |-> Rest(r.file, had), eof |-> had < size]

NoLine == <<>>

columnName(r, settings, column) ==
  IF ~settings.columnnames \/ Len(r.lines) = 0 THEN <<"value">>
  ELSE IF column <= Len(r.lines[1]) THEN r.lines[1][column].content ELSE <<"unknown">>

emptyValue(name) == [name |-> name, content |-> <<>>]

\* A new line is named by the first one only if that one holds the names.
lineAdded(r, settings) ==
  [r EXCEPT !.lines = Append(@, <<emptyValue(columnName(r, settings, 1))>>)]

valueAdded(r, settings) ==
  LET line == Len(r.lines)
      name == IF line = 1 THEN <<"value">> ELSE columnName(r, settings, Len(r.lines[line]) + 1)
  IN  [r EXCEPT !.lines[line] = Append(@, emptyValue(name))]

contentAdded(r, text) ==
  LET line == Len(r.lines)  value == Len(r.lines[line])
  IN  [r EXCEPT !.lines[line][value].content = @ \o text]

passed(r, n) == [r EXCEPT !.i = @ + n]

\* The separators in the rest of the buffer: how far off each is.
separations(r, settings) ==
  {d \in {pos(r.buf, r.i, settings.string), pos(r.buf, r.i, settings.column),
          pos(r.buf, r.i, settings.record)} : d # NotFound}

more(r, extra) ==
  LET block == receive(r, extra)
  IN  [r EXCEPT !.buf = @ \o block.data, !.file = block.file, !.eof = block.eof]

\* Mutant: a doubled quote is dropped twice.
quotePassedTwice(r, settings) == passed([r EXCEPT !.direct = TRUE], Len(settings.string))

\* A quote behind a quote is one of the value.
quotePassed(r, settings) ==
  passed([(IF r.direct THEN contentAdded(r, settings.string) ELSE r) EXCEPT !.direct = TRUE],
         Len(settings.string))

RECURSIVE readBuffer(_, _, _)
readBuffer(read, settings, extra) ==
  LET r == IF separations(read, settings) = {} /\ read.i < Len(read.buf) THEN more(read, extra) ELSE read
      minimum == Min({s - r.i : s \in separations(r, settings)} \union {Len(r.buf) - r.i})
      At(separator) == OccursAt(r.buf, separator, r.i)
      next ==
        IF minimum # 0 THEN passed([contentAdded(r, Part(r.buf, r.i, minimum)) EXCEPT !.direct = FALSE], minimum)
        ELSE IF At(settings.string) THEN quotePassed(r, settings)
        ELSE IF At(settings.column)
        THEN passed([valueAdded(r, settings) EXCEPT !.direct = FALSE], Len(settings.column))
        ELSE passed([lineAdded(r, settings) EXCEPT !.direct = FALSE], Len(settings.record))
  IN  IF read.i >= Len(read.buf) THEN read ELSE readBuffer(next, settings, extra)

RECURSIVE readFile(_, _, _, _)
readFile(r, settings, block, extra) ==
  LET had == receive(r, block)
  IN  IF r.eof THEN r
      ELSE readFile(readBuffer([r EXCEPT !.buf = had.data, !.file = had.file, !.eof = had.eof, !.i = 0],
                               settings, extra), settings, block, extra)

\* The line behind the last separator is taken out again when it is empty, but its
\* place is kept: the root's last child is no node.
BCsvImport_FromFile(file, settings, block, extra) ==
  LET lines == readFile([file |-> file, buf |-> <<>>, i |-> 0, eof |-> FALSE, direct |-> FALSE,
                         lines |-> << <<emptyValue(<<"value">>)>> >>], settings, block, extra).lines
      last  == Len(lines)
  IN  IF Len(lines[last]) = 1 /\ lines[last][1].content = <<>>
      THEN [lines EXCEPT ![last] = NoLine] ELSE lines

-----------------------------------------------------------------------------
(* A program fills a table.                                                 *)

NoTable == [fields |-> <<>>, records |-> <<>>]

TableInit == table = NoTable

AddRecord ==
  /\ Len(table.records) < MaxRecords
  /\ \E fields \in (IF table = NoTable THEN Headers ELSE {table.fields}) :
       \E record \in [DOMAIN fields -> Cells] :
         table' = [fields |-> fields, records |-> Append(table.records, record)]

-----------------------------------------------------------------------------
(* Properties.                                                              *)

\* What is to be found under a name is the value given last.
given(items, name) ==
  LET at == {i \in DOMAIN items : items[i].name = name}
  IN  IF at = {} THEN <<>> ELSE items[Max(at)].value

valueIn(t, r, name) ==
  LET column == getFieldIndex(t, name) + 1
  IN  IF column <= Len(t.records[r]) THEN t.records[r][column] ELSE <<>>

aligned(t, records) ==
  /\ IsInjective(t.fields)
  /\ \A r \in DOMAIN records : \A c \in DOMAIN t.fields :
       valueIn(t, r, t.fields[c].name) = given(records[r], t.fields[c].name)

\* BFunctions.h:24-32: nodes become a table in which every value stands in its
\* record, under its name, in whatever order and number the names came; a table
\* comes back from nodes of both kinds, from those with attributes also by way of
\* XML.
nodesComeBack ==
  /\ doc # <<>> =>
       LET below == children(doc, 1) IN
       /\ aligned(BNodeContentsToTable(doc, 1), [i \in DOMAIN below |-> contentItems(doc, below[i])])
       /\ aligned(BNodeAttributesToTable(doc, 1), [i \in DOMAIN below |-> attributeItems(doc, below[i])])
  /\ table # NoTable =>
       LET contents   == BTableToNodeContents(table, <<"table">>, <<"record">>)
           attributes == BTableToNodeAttributes(table, <<"table">>, <<"record">>)
           same(t) == t.records = table.records /\ fieldNames(t) = fieldNames(table)
       IN  /\ same(BNodeContentsToTable(contents, 1))
           /\ same(BNodeAttributesToTable(attributes, 1))
           /\ (\A r \in DOMAIN table.records : \A value \in Range(table.records[r]) : readable(value)) =>
                same(BNodeAttributesToTable(
                       BXmlImport_FromString(BXmlWrite_Node(attributes, 1, TRUE)).nodes, 1))

\* A value without separators in which every quote stands alone, and inside.
csvReadable(kind, value, settings) ==
  LET quotes == Occurrences(value, 0, settings.string) IN
  /\ pos(value, 0, settings.column) = NotFound
  /\ \A c \in Range(settings.record) : c \notin Range(value)
  /\ \A q \in quotes : q + 1 \notin quotes
  /\ kind = "string" => value # <<>> /\ quotes \intersect {0, Len(value) - 1} = {}

\* BFunctions.h:13 and 22: what BCsvWrite_Table writes BCsvImport_FromFile reads as
\* lines with the same values, under the names of the columns if they were written,
\* wherever the blocks of the file end, if the separators are single characters; a
\* separator of two must not be cut by a block that is read behind another.
csvComesBack ==
  \A settings \in Separators :
    (table # NoTable /\ \A r \in DOMAIN table.records : \A k \in DOMAIN table.fields :
                          csvReadable(table.fields[k].kind, table.records[r][k], settings)) =>
    LET file == BCsvWrite_Table(table, settings)
        names == fieldNames(table)
        nameOf(k) == IF settings.columnnames THEN names[k] ELSE <<"value">>
        header == IF settings.columnnames
                  THEN << [k \in DOMAIN names |-> [name |-> <<"value">>, content |-> names[k]]] >> ELSE <<>>
        line(record) == [k \in DOMAIN record |-> [name |-> nameOf(k), content |-> record[k]]]
        lines == [r \in DOMAIN table.records |-> line(table.records[r])]
    IN  \A block, extra \in BlockSizes :
          (Len(settings.record) = 1 \/ block > Len(file)) =>
            BCsvImport_FromFile(file, settings, block, extra) = header \o lines \o <<NoLine>>

\* A table survives both ways out of the program: as nodes, and as a CSV file.
tablesComeBack == nodesComeBack /\ csvComesBack
=============================================================================
