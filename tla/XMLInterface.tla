---------------------------- MODULE XMLInterface ----------------------------
(***************************************************************************)
(* TCBXMLInterface: the controls of a screen are written as a tree of       *)
(* nodes, which goes through XML, and made again from such a tree.          *)
(*                                                                         *)
(* A design is kept as Bookshelf keeps a tree: the magnets in the order in  *)
(* which they were added, each naming its parent.  The first is the screen. *)
(***************************************************************************)
EXTENDS Bookshelf

CONSTANTS Parts,         \* the controls a program adds: magnets without a parent
          MaxMagnets     \* bound: the magnets of a design, the screen included

VARIABLE design

Types == {"label", "editbox", "multiline", "listbox", "combobox", "button", "checkbox",
          "radiobutton", "progressbar", "grid", "tree", "window", "groupbox", "panel",
          "notebook", "notebooktab", "screen", "menu"}

\* iRemoteType is 100 or above.
CollectorTypes == {"window", "groupbox", "panel", "notebook", "notebooktab", "screen", "menu"}

NoType == "-1"

\* A name is one symbol; control<n> is two.
typeToBasicName(type) == IF type = "editbox" THEN <<"edit">> ELSE <<type>>

\* The names of the constants are known too.
nameToType(name) ==
  LET known == {type \in Types :
                  \/ name = <<"CB_TYPE_", type>>
                  \/ name = IF type = "notebooktab" THEN <<"noteboooktab">> ELSE typeToBasicName(type)}
  IN  IF known = {} THEN NoType ELSE CHOOSE type \in known : TRUE

Sides == <<"x", "y", "w", "h">>

Given(key, value) == [key |-> <<key>>, value |-> value, hidden |-> FALSE]

generated(controlcount) == <<"control", ToString(controlcount)>>

newMagnetAsNode(magnet, controlcount) ==
  [name |-> typeToBasicName(magnet.type), content |-> <<>>,
   attributes |->
     <<Given("identifier",
             IF magnet.identifier # <<>> THEN magnet.identifier ELSE generated(controlcount)),
       Given("caption", magnet.caption)>>
     \o [i \in DOMAIN Sides |-> Given(Sides[i], <<magnet.box[Sides[i]]>>)]]

\* The nodes of a magnet and of all below it but menus.  The nodes that are there
\* are the one of the caller and one for each control counted so far.
RECURSIVE magnetsToNodes(_, _, _, _)
magnetsToNodes(nodes, parentnode, magnets, m) ==
  LET added == addChildNode(nodes, parentnode, newMagnetAsNode(magnets[m], Len(nodes)))
      below == IF magnets[m].type \in CollectorTypes
               THEN SelectSeq(children(magnets, m), LAMBDA k : magnets[k].type # "menu")
               ELSE <<>>
  IN  FoldLeft(LAMBDA sofar, k : magnetsToNodes(sofar, Len(added), magnets, k), added, below)

\* The value of the first attribute of that name.
attributeOr(node, key, default) ==
  LET found == SelectSeq(node.attributes, LAMBDA a : a.key = <<key>>)
  IN  IF found = <<>> THEN default ELSE Head(found).value

\* What a node says of its magnet; the handlers it may name, and whether it is
\* visible, stand only in designs written by hand.
magnetOf(node, parent) ==
  [type |-> nameToType(node.name), identifier |-> attributeOr(node, "identifier", <<>>),
   caption |-> attributeOr(node, "caption", <<>>),
   box |-> [side \in Range(Sides) |-> attributeOr(node, side, <<"0">>)[1]],
   parent |-> parent]

\* A node of an unknown name is left out with all that is in it.
RECURSIVE recursivelyAddNodesAsMagnets(_, _, _, _)
recursivelyAddNodesAsMagnets(magnets, parent, nodes, n) ==
  LET magnet == magnetOf(nodes[n], parent)
      added  == Append(magnets, magnet)
  IN  IF magnet.type = NoType THEN magnets
      ELSE IF magnet.type \notin CollectorTypes THEN added
      ELSE FoldLeft(LAMBDA sofar, k :
                      recursivelyAddNodesAsMagnets(sofar, Len(added), nodes, k),
                    added, children(nodes, n))

\* The magnets of `screen`, a sequence of that one, and what the node makes of them.
addNodesAsMagnets(screen, nodes, aInterfaceNode) ==
  LET screens == SelectSeq(children(nodes, aInterfaceNode), LAMBDA k : nodes[k].name = <<"screen">>)
  IN  IF screens = <<>> THEN screen
      ELSE FoldLeft(LAMBDA sofar, k : recursivelyAddNodesAsMagnets(sofar, 1, nodes, k),
                    screen, children(nodes, Head(screens)))

-----------------------------------------------------------------------------
(* A program puts a screen together.                                        *)

aScreen == [type |-> "screen", identifier |-> <<>>, caption |-> <<>>,
            box |-> [side \in Range(Sides) |-> "0"], parent |-> 0]

DesignInit == design = <<>>

AddMagnet ==
  /\ Len(design) < MaxMagnets
  /\ IF design = <<>> THEN design' = <<aScreen>>
     ELSE \E part \in Parts, parent \in ancestors(design) :
            /\ design[parent].type \in CollectorTypes
            /\ design' = Append(design, part @@ [parent |-> parent])

-----------------------------------------------------------------------------
(* Properties.                                                              *)

\* Menus are not written, and pages of a notebook not read.
leftOut(m) ==
  LET RECURSIVE Up(_)
      Up(k) == k # 0 /\ (design[k].type \in {"menu", "notebooktab"} \/ Up(design[k].parent))
  IN  Up(m)

kept == SelectSeq([m \in DOMAIN design |-> m], LAMBDA m : ~leftOut(m))

\* How many controls are written up to `m`: pages are, with what is in them.
writtenUpTo(m) ==
  LET RECURSIVE underMenu(_)
      underMenu(k) == k # 0 /\ (design[k].type = "menu" \/ underMenu(design[k].parent))
  IN  Cardinality({k \in 1 .. m : ~underMenu(k)})

interfaceNode == <<[name |-> <<"interface">>, content |-> <<>>, attributes |-> <<>>, parent |-> 0]>>

\* CBXMLInterface.h: the controls of a screen that were written as XML come back on
\* an empty one: each in its place under the same parent, in the same order, with
\* its caption, box and identifier, or the one it was given in the file.
designComesBack ==
  LET nodes == magnetsToNodes(interfaceNode, 1, design, 1)
      read  == BXmlImport_FromString(BXmlWrite_Node(nodes, 1, TRUE))
      made  == addNodesAsMagnets(<<aScreen>>, read.nodes, read.root)
      ids   == kept
  IN  design # <<>> /\ (\A m \in DOMAIN design : readable(design[m].caption)) =>
        /\ Len(made) = Len(ids)
        /\ \A i \in 2 .. Len(ids) :
             LET m == design[ids[i]]
             IN  made[i] = [m EXCEPT
                   !.identifier = IF @ # <<>> THEN @ ELSE generated(writtenUpTo(ids[i])),
                   !.parent = pos(ids, 0, <<@>>) + 1]

\* What is written as XML comes back: a tree of nodes, and the controls of a screen.
xmlComesBack == treeComesBack /\ designComesBack
=============================================================================
