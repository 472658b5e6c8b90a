------------------------------- MODULE MCText -------------------------------
(***************************************************************************)
(* StringVector, the conversions, the files of trees and tables, and       *)
(* String, model-checked: a text grows chunk by chunk, bytes are given one *)
(* at a time, a program puts a tree together or fills a table, and in      *)
(* every state every question is asked of what is there; or a String goes  *)
(* through any sequence of calls.  These have nothing to do with each      *)
(* other, and one starts only where the others have not.                   *)
(***************************************************************************)
EXTENDS StringVector, Tables, StringObject, XMLInterface

CONSTANTS Chars,         \* the characters of the texts
          Bytes,         \* the bytes appended
          MaxBytes,      \* bound: how many
          MaxText,       \* bound: the characters in all chunks
          MaxNeedle      \* bound: the length of a needle

VARIABLE bytes

vars == <<vec, bytes, str, text, doc, table, design>>

Texts(max) == UNION {[1 .. n -> Chars] : n \in 0 .. max}

MCChunks  == Texts(2)
MCNeedles == Texts(MaxNeedle) \ {<<>>}

MCValues  == {<<>>, <<"<">>, <<" ">>, <<"<", "\n">>, <<" ", "<", "<">>,
              <<"<", " ", "<", "<", "<">>}

\* Nodes with and without a name, contents and values that hold what XML is
\* written with, and attributes that are not written.
Leaf(name, content, attributes) == [name |-> name, content |-> content, attributes |-> attributes]
Attribute(value, hidden) == [key |-> <<"k">>, value |-> value, hidden |-> hidden]

MCLeaves ==
  {Leaf(<<"n">>, <<" ", "&", "lt;">>, <<>>), Leaf(<<>>, <<"\r", "\n">>, <<>>),
   Leaf(<<>>, <<Quote1, "<">>, <<>>), Leaf(<<"m">>, <<>>, <<Attribute(<<Quote2, ">">>, FALSE)>>),
   Leaf(<<"m">>, <<>>, <<Attribute(<<"\\", "\\">>, FALSE), Attribute(<<"h">>, TRUE)>>),
   Leaf(<<"o">>, <<">">>, <<Attribute(<<Quote1, "\\", Quote1, " ">>, FALSE), Attribute(<<"/", "=">>, FALSE)>>)}

Field(name, kind) == [name |-> name, kind |-> kind]
MCHeaders == {<<Field(<<"a">>, "string")>>, <<Field(<<"a">>, "string"), Field(<<"b">>, "integer")>>}
MCCells   == {<<>>, <<"x">>, <<"x", Quote1, "y">>, <<"<", "\\">>, <<";">>}

MCSeparators == [column : {<<";">>}, record : {<<"\n">>, <<"\r", "\n">>}, string : {<<Quote1>>},
                 columnnames : BOOLEAN]

\* Controls with and without an identifier and a caption, that may hold others or
\* not, that are written or not.
Control(type, identifier, caption) ==
  [type |-> type, identifier |-> identifier, caption |-> caption,
   box |-> [x |-> "1", y |-> "2", w |-> "30", h |-> "4"]]

MCParts ==
  {Control("window", <<>>, <<"a", " ">>), Control("editbox", <<"e">>, <<Quote1, ">">>),
   Control("notebook", <<>>, <<>>), Control("notebooktab", <<>>, <<"&", "lt;">>),
   Control("menu", <<"m">>, <<"<">>)}

Init == SVInit /\ StringInit /\ DocInit /\ TableInit /\ DesignInit /\ bytes = <<>>

NoString == str = setValue(<<>>, <<>>)

AddChunk ==
  /\ bytes = <<>> /\ NoString /\ doc = <<>> /\ table = NoTable /\ design = <<>>
  /\ Len(vec) < MaxChunks
  /\ \E chunk \in Chunks : Len(Flat) + Len(chunk) <= MaxText /\ addChunk(chunk)
  /\ UNCHANGED <<bytes, strVars, doc, table, design>>

\* The bytes of a text to be encoded.
AppendByte ==
  /\ vec = <<>> /\ NoString /\ doc = <<>> /\ table = NoTable /\ design = <<>>
  /\ Len(bytes) < MaxBytes
  /\ \E byte \in Bytes : bytes' = Append(bytes, byte)
  /\ UNCHANGED <<vec, strVars, doc, table, design>>

StringCall ==
  /\ vec = <<>> /\ bytes = <<>> /\ doc = <<>> /\ table = NoTable /\ design = <<>>
  /\ StringNext
  /\ UNCHANGED <<vec, bytes, doc, table, design>>

GrowTree ==
  /\ vec = <<>> /\ bytes = <<>> /\ NoString /\ table = NoTable /\ design = <<>>
  /\ AddNode
  /\ UNCHANGED <<vec, bytes, strVars, table, design>>

FillTable ==
  /\ vec = <<>> /\ bytes = <<>> /\ NoString /\ doc = <<>> /\ design = <<>>
  /\ AddRecord
  /\ UNCHANGED <<vec, bytes, strVars, doc, design>>

GrowDesign ==
  /\ vec = <<>> /\ bytes = <<>> /\ NoString /\ doc = <<>> /\ table = NoTable
  /\ AddMagnet
  /\ UNCHANGED <<vec, bytes, strVars, doc, table>>

Next == AddChunk \/ AppendByte \/ StringCall \/ GrowTree \/ FillTable \/ GrowDesign

Spec == Init /\ [][Next]_vars
-----------------------------------------------------------------------------
(* Properties.                                                              *)

\* StringVector.h:27-28, "multiple strings to be seen as One": a search finds
\* what it would find in the text in one piece, wherever the chunks are cut, a
\* match over several chunks and one that starts inside a broken-off match
\* included; String::pos finds the first occurrence there, lastpos the last.
searchIgnoresTheCuts ==
  \A needle \in MCNeedles :
    /\ lastpos(Flat, needle) = LastOccurrence(Flat, needle)
    /\ \A start \in 0 .. Len(Flat) :
         LET range == posInChunks(Place(0, start), needle)
             first == FirstOccurrence(Flat, start, needle)
         IN  /\ pos(Flat, start, needle) = first
             /\ range.found <=> first # NotFound
             /\ range.found =>
                  /\ InChunk(range.start) /\ FlatPos(range.start) = first
                  /\ InChunk(range.end) /\ FlatPos(range.end) = first + Len(needle) - 1

\* StringVector.h:60-82: both ways to copy answer with the characters of the text
\* in one piece, from any place to any later one; places may lie behind their
\* chunk, and what lies behind the text is left out.
copyIgnoresTheCuts ==
  \A i \in 0 .. Len(vec), p \in 0 .. Len(Flat) :
    LET from == FlatPos(Place(i, p)) IN
    /\ \A length \in 0 .. Len(Flat) + 1 :
         CopyLength(i, p, length) = SubSeq(Flat, from + 1, Min({from + length, Len(Flat)}))
    /\ \A j \in i .. Len(vec), q \in 0 .. Len(Flat) :
         LET to == FlatPos(Place(j, q)) IN
         from <= to => copy(Place(i, p), Place(j, q))
                         = SubSeq(Flat, from + 1, Min({to + 1, Len(Flat)}))

\* Functions.h:84-85: the slices of split(), put together with the needle again,
\* are the text; without a limit no slice holds the needle, and a limit of two or
\* more is kept.
splitJoins ==
  \A needle \in MCNeedles, iMax \in {-1, 1, 2, 3} :
    LET slices == split(Flat, needle, iMax)
    IN  /\ Join(slices, needle) = Flat
        /\ iMax = -1 => \A k \in 1 .. Len(slices) : pos(slices[k], 0, needle) = NotFound
        /\ iMax >= 2 => Len(slices) <= iMax

\* The three together: what is asked of a text in pieces, or cut into pieces, is
\* what the text in one piece would answer.
IgnoresTheCuts == searchIgnoresTheCuts /\ copyIgnoresTheCuts /\ splitJoins

\* Functions.h:39, "returns original string from binary tree data and translation
\* table": what StrToCharHuffman() made of a text of more than one kind of byte is read
\* back.
huffmanComesBack ==
  LET tables == HuffmanTables(bytes) IN
  Cardinality(Range(bytes)) # 1 =>
    CharHuffmanToStr(StrToCharHuffman(bytes, tables), tables) = bytes

\* A text that went through EncodeHtmlEntities comes back from
\* DecodeHtmlEntities, also one that reads like entities already; this is what
\* BXmlExport and BXmlImport rely on.  Functions.h:14-39: the bytes can be
\* read back from their hexadecimal and Base64 text, and from their Huffman code
\* when there are at least two kinds and none is 128 or above, which are counted in
\* front of OccurrencyTable (Functions.cpp:318) and lost; a number of up to three bytes stays clear
\* of HexToInt's 32 bits.
CodesDecode ==
  /\ DecodeHtmlEntities(EncodeHtmlEntities(Flat)) = Flat
  /\ Len(bytes) \in 1 .. 3 =>
       HexToInt(StrToHex(bytes)) = FoldLeft(LAMBDA n, byte : n * 256 + byte, 0, bytes)
  /\ FromBase64(StrToBase64(bytes)) = bytes
  /\ (\A i \in DOMAIN bytes : bytes[i] < 128) => huffmanComesBack

\* BFunctions.h and CBXMLInterface.h: what is written out of the program is what is
\* read back: trees of nodes and the controls of a screen as XML, tables as nodes and
\* as CSV files.
FilesComeBack == xmlComesBack /\ tablesComeBack
=============================================================================
