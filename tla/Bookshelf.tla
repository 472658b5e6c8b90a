----------------------------- MODULE Bookshelf -----------------------------
(***************************************************************************)
(* BNode and what BFunctions.cpp makes of it: a tree of nodes is written   *)
(* as XML and read back.                                                   *)
(*                                                                         *)
(* A tree is the sequence of its nodes in the order they were added; a     *)
(* node is known by its place there and names its parent, 0 for none.  The *)
(* children of a node are those that name it, in that order.  `doc` is a   *)
(* tree that a program puts together.                                      *)
(***************************************************************************)
EXTENDS Codecs

CONSTANTS Leaves,        \* the nodes a program adds: records without a parent
          MaxNodes       \* bound: the nodes of doc

VARIABLE doc

\* XmlSettings; the two quotes are symbols that Codecs knows.
Quote1     == "quot"
Quote2     == "apos"
node_open  == <<"<">>
node_close == <<">">>
node_space == <<" ">>
node_end   == <<"/">>
sep_string == <<Quote1>>
sep_keyval == <<"=">>
sep_node   == <<"\r", "\n">>
NULL_NODE  == 0

-----------------------------------------------------------------------------
(* BNode                                                                    *)

children(nodes, n) == SelectSeq([k \in DOMAIN nodes |-> k], LAMBDA k : nodes[k].parent = n)

isNamed(node) == node.name # <<>>

\* The node becomes the last child of `parent`.
addChildNode(nodes, parent, node) ==
  Append(nodes, [name |-> node.name, content |-> node.content,
                 attributes |-> node.attributes, parent |-> parent])

RECURSIVE flattenChildContent(_, _)
flattenChildContent(nodes, n) ==
  LET below == children(nodes, n)
      Joined(text, i) ==
        LET all == text \o flattenChildContent(nodes, below[i])
        IN  IF i # Len(below) /\ all # <<>> THEN Append(all, " ") ELSE all
  IN  FoldLeft(Joined, nodes[n].content, [i \in DOMAIN below |-> i])

-----------------------------------------------------------------------------
(* BXmlWrite_Node                                                           *)

\* Mutant: the values are written as they are.
attributesWrittenPlain(node) ==
  FoldLeft(LAMBDA out, a : IF a.hidden THEN out
                           ELSE out \o node_space \o a.key \o sep_keyval \o sep_string
                                    \o a.value \o sep_string,
           <<>>, node.attributes)

attributesWritten(node) ==
  FoldLeft(LAMBDA out, a : IF a.hidden THEN out
                           ELSE out \o node_space \o a.key \o sep_keyval \o sep_string
                                    \o EncodeHtmlEntities(a.value) \o sep_string,
           <<>>, node.attributes)

\* A node with children is written without its content, and one without a name
\* as what is in it.
RECURSIVE BXmlExport_NodeIteration(_, _)
BXmlExport_NodeIteration(nodes, n) ==
  LET node   == nodes[n]
      below  == children(nodes, n)
      opener == node_open \o node.name \o attributesWritten(node)
      closer == node_open \o node_end \o node.name \o node_close
      Line(k) == IF isNamed(node) /\ isNamed(nodes[k]) THEN sep_node ELSE <<>>
      inside == FoldLeft(LAMBDA out, k : out \o Line(k) \o BXmlExport_NodeIteration(nodes, k),
                         <<>>, below)
      lastLine == IF \E k \in Range(below) : isNamed(nodes[k]) THEN sep_node ELSE <<>>
      content == EncodeHtmlEntities(node.content)
  IN  IF ~isNamed(node)   THEN inside \o content
      ELSE IF below # <<>> THEN opener \o node_close \o inside \o lastLine \o closer
      ELSE IF content # <<>> THEN opener \o node_close \o content \o closer
      ELSE opener \o node_space \o node_end \o node_close

DefaultHeader == <<"<", "?", "xml", " ", "version", "=", Quote1, "1.0", Quote1, "?", ">">>

BXmlWrite_Node(nodes, n, bWriteDefaultHeader) ==
  (IF bWriteDefaultHeader THEN DefaultHeader \o sep_node ELSE <<>>)
    \o BXmlExport_NodeIteration(nodes, n)

-----------------------------------------------------------------------------
(* parseAttributes: one pass over what stands behind the name.  A quote is  *)
(* closed by the same quote only; what a backslash stands before is passed  *)
(* over, inside quotes.                                                     *)

startsWith(s, needle) == OccursAt(s, needle, 0)
endsWith(s, needle) == Len(needle) <= Len(s) /\ OccursAt(s, needle, Len(s) - Len(needle))

trimmed(s) == TrimmedRight(TrimmedLeft(s), Blanks)

Unquoted(s, quote) ==
  IF Len(s) >= 2 /\ startsWith(s, <<quote>>) /\ endsWith(s, <<quote>>)
  THEN Part(s, 1, Len(s) - 2) ELSE s

attributeRead(s, r, j) ==
  [key    |-> trimmed(Part(s, r.start, r.sep - r.start)),
   value  |-> DecodeHtmlEntities(
                Unquoted(Unquoted(trimmed(Part(s, r.begun, j - r.begun + 1)), Quote1), Quote2)),
   hidden |-> FALSE]

AttributeStep(s, r, j) ==
  LET c == CharAt(s, j) IN
  IF r.quote = "" /\ c \in {Quote1, Quote2} THEN [r EXCEPT !.quote = c, !.begun = j]
  ELSE IF r.quote = "" THEN [r EXCEPT !.sep = IF c = "=" THEN j ELSE @]
  ELSE IF r.escape     THEN [r EXCEPT !.escape = FALSE]
  ELSE IF c = r.quote  THEN [r EXCEPT !.quote = "", !.start = j + 1,
                                      !.attributes = Append(@, attributeRead(s, r, j))]
  ELSE [r EXCEPT !.escape = (c = "\\")]

parseAttributes(s) ==
  FoldLeft(LAMBDA r, j : AttributeStep(s, r, j),
           [quote |-> "", escape |-> FALSE, begun |-> -1, sep |-> -1, start |-> 0, attributes |-> <<>>],
           [k \in 1 .. Len(s) |-> k - 1]).attributes

-----------------------------------------------------------------------------
(* parseNode: a piece of the text, from a "<" to its ">" or between two     *)
(* tags, and the node it stands in.                                         *)

\* The node of a tag that ends with `ending`; a name ends at the first blank.
tagNode(s, ending) ==
  LET blank == pos(s, 0, <<" ">>)
      iPos  == IF blank = NotFound THEN pos(s, 0, <<Head(ending)>>) ELSE blank
  IN  [name |-> Part(s, 1, iPos - 1), content |-> <<>>,
       attributes |-> IF blank = NotFound THEN <<>>
                      ELSE parseAttributes(Part(s, iPos + 1, Len(s) - iPos - 1 - Len(ending)))]

contentNode(s) == [name |-> <<>>, content |-> DecodeHtmlEntities(s), attributes |-> <<>>]

closesCurrent(r, s) ==
  /\ endsWith(s, <<">">>)
  /\ r.current # NULL_NODE
  /\ r.nodes[r.current].name = Part(s, 2, Len(s) - 3)

\* A header, a comment and a broken tag leave no node to go on in; a tag that
\* closes another node than the current one ends the program.
parseNode(r, s) ==
  LET added(node) == addChildNode(r.nodes, r.current, node) IN
  IF startsWith(s, <<"<", "/">>)
  THEN IF closesCurrent(r, s) THEN [r EXCEPT !.current = r.nodes[r.current].parent]
       ELSE [r EXCEPT !.exited = TRUE]
  ELSE IF startsWith(s, <<"<", "?">>) \/ startsWith(s, <<"<", "!">>)
  THEN [r EXCEPT !.current = NULL_NODE]
  ELSE IF ~startsWith(s, <<"<">>)    THEN [r EXCEPT !.nodes = added(contentNode(s))]
  ELSE IF endsWith(s, <<"/", ">">>)  THEN [r EXCEPT !.nodes = added(tagNode(s, <<"/", ">">>))]
  ELSE IF endsWith(s, <<">">>)
  THEN [r EXCEPT !.nodes = added(tagNode(s, <<">">>)), !.current = Len(r.nodes) + 1]
  ELSE [r EXCEPT !.current = NULL_NODE]

-----------------------------------------------------------------------------
(* BXmlImport_FromString: the text is cut into such pieces.                 *)

\* What has been gathered is parsed, unless it is blank; the first node that is
\* entered is the root.
Rooted(r) == [r EXCEPT !.s = <<>>, !.root = IF @ = NULL_NODE THEN r.current ELSE @]

Parsed(r) ==
  LET s == TrimmedLeft(r.s)
  IN  IF s = <<>> THEN [r EXCEPT !.s = <<>>] ELSE Rooted(parseNode(r, s))

ImportStep(r, c) ==
  LET gathered == [r EXCEPT !.s = Append(r.s, c)] IN
  IF r.quote # ""
  THEN IF r.escape THEN [gathered EXCEPT !.escape = FALSE]
       ELSE [gathered EXCEPT !.quote = IF c = r.quote THEN "" ELSE r.quote, !.escape = (c = "\\")]
  ELSE IF r.tag /\ c \in {Quote1, Quote2} THEN [gathered EXCEPT !.quote = c]
  ELSE IF r.tag /\ c = ">" THEN [Parsed(gathered) EXCEPT !.tag = FALSE]
  ELSE IF ~r.tag /\ c = "<" THEN [Parsed(r) EXCEPT !.tag = TRUE, !.s = <<c>>]
  ELSE gathered

RECURSIVE ImportFrom(_, _)
ImportFrom(r, sXml) ==
  IF r.exited \/ sXml = <<>> THEN r ELSE ImportFrom(ImportStep(r, Head(sXml)), Tail(sXml))

\* What stands behind the last tag no longer makes a root.
BXmlImport_FromString(sXml) ==
  LET Ended(read) == [(IF read.exited THEN read ELSE Parsed(read)) EXCEPT !.root = read.root]
  IN  Ended(ImportFrom([nodes |-> <<>>, current |-> NULL_NODE, root |-> NULL_NODE, s |-> <<>>,
                        tag |-> FALSE, quote |-> "", escape |-> FALSE, exited |-> FALSE], sXml))

-----------------------------------------------------------------------------
(* A program puts a tree together, the last node of a level first open.     *)

ancestors(nodes) ==
  LET RECURSIVE Up(_)
      Up(n) == IF n = NULL_NODE THEN {} ELSE {n} \union Up(nodes[n].parent)
  IN  Up(Len(nodes))

DocInit == doc = <<>>

AddNode ==
  /\ Len(doc) < MaxNodes
  /\ \E leaf \in Leaves :
       IF doc = <<>> THEN isNamed(leaf) /\ doc' = addChildNode(doc, NULL_NODE, leaf)
       ELSE \E parent \in ancestors(doc) : doc' = addChildNode(doc, parent, leaf)

-----------------------------------------------------------------------------
(* Properties.                                                              *)

named(nodes) == SelectSeq([k \in DOMAIN nodes |-> k], LAMBDA k : isNamed(nodes[k]))

namedAbove(nodes, n) ==
  LET RECURSIVE Up(_)
      Up(p) == IF p = NULL_NODE \/ isNamed(nodes[p]) THEN p ELSE Up(nodes[p].parent)
  IN  Up(nodes[n].parent)

\* The named nodes in their order: the name, the attributes that are written,
\* and which named node each stands in.
skeleton(nodes) ==
  LET ids == named(nodes)
  IN  [i \in DOMAIN ids |->
        [name |-> nodes[ids[i]].name,
         attributes |-> SelectSeq(nodes[ids[i]].attributes, LAMBDA a : ~a.hidden),
         parent |-> IF namedAbove(nodes, ids[i]) = NULL_NODE THEN NULL_NODE
                    ELSE pos(ids, 0, <<namedAbove(nodes, ids[i])>>) + 1]]

\* A value that ends with a backslash of its own closes no quote.
readable(value) ==
  LET others == {i \in DOMAIN value : value[i] # "\\"}
  IN  (Len(value) - Max(others \union {0})) % 2 = 0

solid(text) == SelectSeq(text, LAMBDA c : c \notin Blanks)

\* What has been read is the document; `lossless` if no node has both children and
\* a content of its own.
sameTree(read, nodes) ==
  LET lossless == \A n \in DOMAIN nodes : children(nodes, n) # <<>> => nodes[n].content = <<>>
  IN  /\ ~read.exited
      /\ skeleton(read.nodes) = skeleton(nodes)
      /\ read.root = IF Len(nodes) = 1 /\ nodes[1].content = <<>> THEN NULL_NODE ELSE 1
      /\ lossless => \A i \in DOMAIN named(nodes) :
           solid(flattenChildContent(read.nodes, named(read.nodes)[i]))
             = solid(flattenChildContent(nodes, named(nodes)[i]))

\* BFunctions.h:16-20: a tree that is written as XML comes back, with or
\* without the header: every named node in its place with its name and the
\* attributes that are not hidden, and the text in it, but for blanks, if no node has
\* both children and a content of its own.  A root with nothing in it is read as
\* no node.
treeComesBack ==
  (doc # <<>> /\ \A n \in DOMAIN doc : \A k \in DOMAIN doc[n].attributes :
                     doc[n].attributes[k].hidden \/ readable(doc[n].attributes[k].value)) =>
  \A header \in BOOLEAN : sameTree(BXmlImport_FromString(BXmlWrite_Node(doc, 1, header)), doc)
=============================================================================
