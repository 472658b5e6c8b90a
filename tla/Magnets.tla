------------------------------- MODULE Magnets -------------------------------
(***************************************************************************)
(* The controls of Chalkboard as the program sees them (CBBase.{h,cpp},    *)
(* the data of CBControls.{h,cpp}), and the widgets a toolkit shows.       *)
(*                                                                         *)
(* A state of the library is a record s:                                   *)
(*   on    the toolkit: "GTK", "Win32" or "Cocoa"                          *)
(*   mag   a record for each magnet: what its properties hold internally   *)
(*   tk    its widget (iRemoteId), or NoWidget when iRemoteId is NULL      *)
(*   cmds  the command list of the Win32 driver                            *)
(*   heard the magnet whose onClick was executed last                      *)
(* A method is an operator from the state before it to the state after it. *)
(* All of it runs in the thread of the message loop.                       *)
(***************************************************************************)
EXTENDS Integers, Sequences, FiniteSets, SequencesExt

CONSTANTS NULL          \* the NULL pointer

LOCAL V == INSTANCE Vector

MaxOf(a, b) == IF a > b THEN a ELSE b

\* The types of CBDriver.h from 100 on: those a static_cast to TCBCollector
\* is made for.
Collectors == {"SCREEN", "WINDOW", "GROUPBOX", "PANEL", "NOTEBOOK", "NOTEBOOKTAB", "MENU"}
TextTypes  == {"EDITBOX", "MULTILINE"}
ListTypes  == {"LISTBOX", "COMBOBOX"}

CenterOfScreen == 65535

\* A magnet as its constructor leaves it.  `told` is the last of onShow and
\* onHide that was executed.  `items` are the items of a list, the records of a
\* grid's table and `headers` the columns it shows; `data` is the table of a grid
\* or the nodes of a tree, each the path of indices that leads to it from the
\* root (an index that unlinkChild() has left empty is in no path); `menu` is
\* the main menu of a window or the contextmenu of a list or text, which has a
\* defaultmenu too and says which of them should be shown.
TCBMagnet(type, x, y, w, h) ==
  [type |-> type, parent |-> NULL, list |-> V!EmptyVector(1),
   visible |-> type # "SCREEN", told |-> "nothing",
   x |-> x, y |-> y, w |-> w, h |-> h,
   identifier |-> "magnet", caption |-> "", magic |-> NULL, menu |-> NULL,
   defaultmenu |-> NULL, shouldShowDefaultMenu |-> TRUE, shouldShowContextMenu |-> FALSE,
   alignment |-> "LEFT", items |-> <<>>, headers |-> <<>>, data |-> NULL,
   selected |-> CASE type \in ListTypes \union {"GRID"} -> -1
                  [] type = "TREE" -> NULL
                  [] OTHER -> 0,
   state |-> FALSE, checked |-> FALSE,
   min |-> 0, max |-> 100, pos |-> 0, undetermined |-> FALSE]

NoWidget == [kind |-> "none"]

\* A widget of a toolkit (external): what it is, the magnet whose widget holds
\* it, place and size, the size it asked for, text, whether it is shown by
\* itself, its rows or pages and the one that is selected, its columns, whether
\* a grid has a store, the nodes a tree shows and the one that is selected, the
\* mark of a button or menu item, the radio buttons of its group, the fraction
\* of a progress bar and the command number of a menu item.
Widget(kind, in, at, size, text) ==
  [kind |-> kind, in |-> in, at |-> at, size |-> size, request |-> size,
   text |-> text, shown |-> FALSE, rows |-> <<>>, cursor |-> -1, cols |-> <<>>,
   store |-> FALSE, tree |-> {}, node |-> NULL, active |-> FALSE, group |-> {},
   align |-> "LEFT", bar |-> 0, id |-> 0]

created(s, m) == m # NULL /\ s.tk[m] # NoWidget

children(s, m) == s.mag[m].list.elems

\* ------------------------------------------------------------- the toolkits
\* External: what the calls of the toolkits do to a widget.

Show(s, m) == [s EXCEPT !.tk[m].shown = TRUE]
Hide(s, m) == [s EXCEPT !.tk[m].shown = FALSE]

\* Row i, from 0, is selected; a row that is not there selects none.
WithCursor(widget, i) ==
  [widget EXCEPT !.cursor = IF i \in 0..(Len(widget.rows) - 1) THEN i ELSE -1]

WithRowInserted(widget, i, row) ==
  LET at == IF i \in 0..Len(widget.rows) THEN i ELSE Len(widget.rows)
  IN  [widget EXCEPT !.rows = InsertAt(@, at + 1, row),
                     !.cursor = IF @ >= at THEN @ + 1 ELSE @]

WithRowRemoved(widget, i) ==
  IF i \notin 0..(Len(widget.rows) - 1) THEN widget
  ELSE [widget EXCEPT !.rows = RemoveAt(@, i + 1),
                      !.cursor = IF @ > i THEN @ - 1 ELSE IF @ = i THEN -1 ELSE @]

WithRows(widget, rows) == [widget EXCEPT !.rows = rows, !.cursor = -1]

\* A page is added to a tab control; the first one is on top.
WithPage(widget, i, page) ==
  LET w == WithRowInserted(widget, i, page)
  IN  [w EXCEPT !.cursor = IF @ = -1 THEN 0 ELSE @]

\* The menu that pops up over a magnet: its context menu, or its default menu.
popupMenu(s, m) ==
  LET g == s.mag[m]
  IN  IF g.shouldShowContextMenu THEN g.menu
      ELSE IF g.shouldShowDefaultMenu THEN g.defaultmenu ELSE NULL

\* ------------------------------------------------------------------ the tree

\* TCBMagnet::getScreen() and getDriver(): the parents lead to the screen.
RECURSIVE getScreen(_, _)
getScreen(s, m) ==
  IF s.mag[m].type = "SCREEN" THEN m
  ELSE IF s.mag[m].parent = NULL THEN NULL ELSE getScreen(s, s.mag[m].parent)

getDriver(s, m) == IF getScreen(s, m) = NULL THEN NULL ELSE s.on

RECURSIVE getWindow(_, _)
getWindow(s, m) ==
  IF s.mag[m].type = "WINDOW" THEN m
  ELSE IF s.mag[m].parent = NULL THEN NULL ELSE getWindow(s, s.mag[m].parent)

removeMagnet(s, c, m) ==
  [s EXCEPT !.mag[c].list = V!removeObject(@, m), !.mag[m].parent = NULL]

\* TCBCollector::addMagnet(): a magnet that has a parent makes that parent
\* remove itself instead of the magnet, and lose its own parent.
addMagnet(s, c, m) ==
  LET p == s.mag[m].parent
      t == IF p = NULL THEN s ELSE removeMagnet(s, p, p)
  IN  [t EXCEPT !.mag[m].parent = c, !.mag[c].list = V!addElement(@, m)]

\* A mistake this could have: the magnet stays in the list of its old parent.
setParentOnly(s, m, c) ==
  IF c = NULL THEN [s EXCEPT !.mag[m].parent = NULL]
  ELSE addMagnet([s EXCEPT !.mag[m].parent = NULL], c, m)

\* TCBMagnet::setParent(), which parent.set() calls
setParent(s, m, c) ==
  LET p == s.mag[m].parent
      t == IF p = NULL THEN s ELSE removeMagnet(s, p, m)
  IN  IF c = NULL THEN t ELSE addMagnet(t, c, m)

\* The tab control's answer, or what the notebook last knew.
notebookPage(s, nb) ==
  IF created(s, nb) /\ s.on # "Cocoa" THEN s.tk[nb].cursor ELSE s.mag[nb].selected

\* TCBNotebookTab::isSelected()
isSelected(s, m) ==
  LET nb == s.mag[m].parent
  IN  /\ nb # NULL
      /\ notebookPage(s, nb) >= 0
      /\ V!elementAt(s.mag[nb].list, notebookPage(s, nb)) = m

RECURSIVE isActuallyVisible(_, _)
isActuallyVisible(s, m) ==
  /\ s.mag[m].visible
  /\ s.mag[m].type = "NOTEBOOKTAB" => isSelected(s, m)
  /\ s.mag[m].parent # NULL => isActuallyVisible(s, s.mag[m].parent)

\* TCBNotebook::getSelectedTab() stores what it reads, so that every notebook
\* isActuallyVisible() asks on its way knows its page afterwards.
getSelectedTab(s, nb) == [s EXCEPT !.mag[nb].selected = notebookPage(s, nb)]

RECURSIVE pagesRead(_, _)
pagesRead(s, m) ==
  LET g == s.mag[m]
      t == IF g.type = "NOTEBOOKTAB" /\ g.visible /\ g.parent # NULL
           THEN getSelectedTab(s, g.parent) ELSE s
  IN  IF g.visible /\ g.parent # NULL /\ (g.type = "NOTEBOOKTAB" => isSelected(s, m))
      THEN pagesRead(t, g.parent) ELSE t

\* -------------------------------------------------- selections and positions

\* TCBListControl::setSelectedItem() and TCBGrid::setSelectedRow(): the index
\* that is asked for is brought into the list, 0 if it is negative.
inList(i, n) == IF i < 0 THEN 0 ELSE IF i > n - 1 THEN n - 1 ELSE i

\* Windows may be put in the middle of the screen.
centered(at, whole, part) ==
  IF at = CenterOfScreen THEN whole \div 2 - part \div 2 ELSE at

\* A magnet has to be stretched when a size is not positive or a place is
\* counted from the right or the bottom.
stretches(g) == g.w <= 0 \/ g.h <= 0 \/ g.x < 0 \/ g.y < 0

=============================================================================
