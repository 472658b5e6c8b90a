------------------------------ MODULE DriverGTK ------------------------------
(***************************************************************************)
(* TCBDriverGTK (Chalkboard/GTK/CBDriverGTK.cpp): how the magnets become    *)
(* GTK widgets, are shown and hidden, told their properties and asked for   *)
(* them, and what the signals of GTK do.  lGeneralAccess is only taken by   *)
(* the thread of the message loop here.  The border of a container is 0,    *)
(* the default of GTK.                                                      *)
(***************************************************************************)
EXTENDS Magnets

CONSTANTS ScreenSize,   \* <<width, height>> of the monitor
          MenuHeight    \* what a menu bar takes of a window

\* The magnets create_magnet() adds to the driver's list of layouts.
getGTKWindowObject(s, m) ==
  created(s, m) /\ s.mag[m].type \in {"WINDOW", "GROUPBOX", "PANEL", "NOTEBOOKTAB"}

\* A widget goes into that of its parent, at its place if that has a layout.
placed(s, m, kind, text) ==
  LET g == s.mag[m]
  IN  Widget(kind, IF created(s, g.parent) THEN g.parent ELSE NULL,
             IF getGTKWindowObject(s, g.parent) THEN <<g.x, g.y>> ELSE <<0, 0>>,
             <<MaxOf(0, g.w), MaxOf(0, g.h)>>, text)

\* ------------------------------------------------------------------ stretching

\* The size a stretched magnet takes in its parent: of the point the parent's
\* magic holds while it is being resized, else of what the parent asked for.
stretched(s, m) ==
  LET g == s.mag[m]
      p == g.parent
      size == IF s.mag[p].magic # NULL THEN s.mag[p].magic ELSE s.tk[p].request
      x == IF g.x < 0 THEN g.x + size[1] ELSE g.x
      y == IF g.y < 0 THEN g.y + size[2] ELSE g.y
      menu == s.mag[p].menu
      taken == IF s.mag[p].type # "WINDOW" THEN 0
               ELSE 5 + IF created(s, menu) THEN MenuHeight ELSE 0
  IN  [at |-> <<x, y>>,
       size |-> <<IF g.w <= 0 THEN size[1] - x + g.w ELSE g.w,
                  (IF g.h <= 0 THEN size[2] - y + g.h ELSE g.h) - taken>>]

RECURSIVE stretchMagnet(_, _)
stretchMagnet(s, m) ==
  LET g == s.mag[m]
      to == stretched(s, m)
      moves == (g.x < 0 \/ g.y < 0) /\ getGTKWindowObject(s, g.parent)
      t == [s EXCEPT !.tk[m].size = to.size, !.tk[m].request = to.size,
                     !.tk[m].at = IF moves THEN to.at ELSE @]
  IN  IF ~created(s, m) \/ g.type = "MENU" \/ ~stretches(g) \/ ~created(s, g.parent)
      THEN s
      ELSE IF g.type \in Collectors THEN FoldLeft(stretchMagnet, t, children(t, m)) ELSE t

stretchChildren(s, m) ==
  IF s.mag[m].type \in Collectors THEN FoldLeft(stretchMagnet, s, children(s, m)) ELSE s

\* A mistake this could have: the children take what the window asked for.
ConfigureWithoutMagic(s, m, size) == stretchChildren([s EXCEPT !.tk[m].size = size], m)

\* CBGTK_ConfigureEvent(): the user has given the window another size.
ConfigureEvent(s, m, size) ==
  LET t == stretchChildren([s EXCEPT !.tk[m].size = size, !.mag[m].magic = size], m)
  IN  [t EXCEPT !.mag[m].magic = NULL]

\* ---------------------------------------------------------------------- menus

RECURSIVE addMenuItem(_, _, _)
addMenuItem(s, menu, m) ==
  LET g == s.mag[m]
      kids == children(s, m)
      item(kind) == [Widget(kind, menu, <<0, 0>>, <<0, 0>>, g.caption) EXCEPT !.shown = TRUE]
      add(t, k) == addMenuItem(t, m, k)
  IN  IF g.caption = "-" THEN [s EXCEPT !.tk[m] = item("separator")]
      ELSE IF kids = <<>>
           THEN [s EXCEPT !.tk[m] = [item("check") EXCEPT !.active = g.checked]]
           ELSE FoldLeft(add, [s EXCEPT !.tk[m] = item("submenu")], kids)

buildMenu(s, m) ==
  LET bar == [Widget("menu", NULL, <<0, 0>>, <<0, 0>>, "") EXCEPT !.shown = TRUE]
      add(t, k) == addMenuItem(t, m, k)
  IN  FoldLeft(add, [s EXCEPT !.tk[m] = bar], children(s, m))

\* ------------------------------------------------------------------- creation

\* WINDOW, GROUPBOX and PANEL
collectorWidget(s, m) ==
  LET g == s.mag[m]
      scr == s.mag[getScreen(s, m)]
      t == IF g.menu = NULL THEN s ELSE buildMenu(s, g.menu)
      size == <<MaxOf(0, g.w), MaxOf(0, g.h)>>
      at == <<centered(g.x, scr.w, size[1]), centered(g.y, scr.h, size[2])>>
  IN  IF g.type = "WINDOW"
      THEN [t EXCEPT !.tk[m] = Widget("window", NULL, at, size, g.caption)]
      ELSE [s EXCEPT !.tk[m] = placed(s, m, "frame", IF g.type = "PANEL" THEN "" ELSE g.caption)]

\* LABEL, EDITBOX and MULTILINE
textWidget(s, m) ==
  LET g == s.mag[m]
      kind == [LABEL |-> "label", EDITBOX |-> "entry", MULTILINE |-> "textview"][g.type]
      w == placed(s, m, kind, g.caption)
  IN  [s EXCEPT !.tk[m] = IF kind = "label" THEN [w EXCEPT !.align = g.alignment] ELSE w]

\* LISTBOX and COMBOBOX
listWidget(s, m) ==
  [s EXCEPT !.tk[m] = placed(s, m, IF s.mag[m].type = "LISTBOX" THEN "list" ELSE "combo", "")]

\* BUTTON, CHECKBOX and RADIOBUTTON: the group a parent's magic holds is that of
\* its first radio button, and a button that joins a group tells only those that
\* are in it at that place of the list.  The first of a group is pressed.
buttonWidget(s, m) ==
  LET g == s.mag[m]
      first == IF s.mag[g.parent].magic = NULL THEN m ELSE s.mag[g.parent].magic[1]
      radio == [placed(s, m, "radio", g.caption) EXCEPT
                  !.group = {m, first}, !.active = first = m]
      t == [s EXCEPT !.tk[m] = radio, !.mag[g.parent].magic = <<first>>]
  IN  IF g.type # "RADIOBUTTON"
      THEN [s EXCEPT !.tk[m] = placed(s, m, IF g.type = "BUTTON" THEN "button" ELSE "check",
                                      g.caption)]
      ELSE [t EXCEPT !.tk[first].group = {m, first}]

\* PROGRESSBAR, GRID, NOTEBOOK and NOTEBOOKTAB
pageWidget(s, m) ==
  LET g == s.mag[m]
      p == g.parent
      t == [s EXCEPT !.tk[m] = placed(s, m, "page", g.caption)]
      at == SelectInSeq(children(s, p), LAMBDA k : k = m) - 1
  IN  IF g.type # "NOTEBOOKTAB"
      THEN [s EXCEPT !.tk[m] = placed(s, m, [PROGRESSBAR |-> "bar", GRID |-> "list",
                                             NOTEBOOK |-> "pages"][g.type],
                                      IF g.type = "PROGRESSBAR" THEN g.caption ELSE "")]
      ELSE IF created(s, p) THEN [t EXCEPT !.tk[p] = WithRowInserted(@, at, m)]
                            ELSE [t EXCEPT !.tk[m].text = ""]

\* TREE, and what the driver does not know
treeWidget(s, m) ==
  [s EXCEPT !.tk[m] = IF s.mag[m].type = "TREE" THEN placed(s, m, "tree", "")
                      ELSE placed(s, m, "label", "Unknown Control")]

stretchedIfMade(s, m) == IF created(s, m) THEN stretchMagnet(s, m) ELSE s

create_magnet(s, m) ==
  LET type == s.mag[m].type
  IN  stretchedIfMade(
        CASE type = "SCREEN" -> [s EXCEPT !.mag[m].w = ScreenSize[1], !.mag[m].h = ScreenSize[2]]
          [] type \in {"WINDOW", "GROUPBOX", "PANEL"} -> collectorWidget(s, m)
          [] type \in {"LABEL", "EDITBOX", "MULTILINE"} -> textWidget(s, m)
          [] type \in ListTypes -> listWidget(s, m)
          [] type \in {"BUTTON", "CHECKBOX", "RADIOBUTTON"} -> buttonWidget(s, m)
          [] type \in {"PROGRESSBAR", "GRID", "NOTEBOOK", "NOTEBOOKTAB"} -> pageWidget(s, m)
          [] type = "MENU" -> s
          [] OTHER -> treeWidget(s, m), m)

\* A GTK tree view takes a place in the list if that row is there, and a list
\* that is told its selection changes executes onClick when it is a combo box.
select(s, m, i) ==
  LET t == [s EXCEPT !.tk[m] = WithCursor(@, i)]
  IN  IF s.mag[m].type # "COMBOBOX" THEN IF i >= 0 THEN t ELSE s
      ELSE IF t.tk[m].cursor = s.tk[m].cursor THEN t ELSE [t EXCEPT !.heard = m]

\* selected.set( selected.internalGet() ), which the refreshes end with
reselect(s, m) ==
  LET i == inList(s.mag[m].selected, Len(s.mag[m].items))
  IN  [select(s, m, i) EXCEPT !.mag[m].selected = i]

refreshItemsListbox(s, m) ==
  IF created(s, m) THEN reselect([s EXCEPT !.tk[m] = WithRows(@, s.mag[m].items)], m) ELSE s

refreshItemsCombobox(s, m) ==
  IF created(s, m) THEN reselect([s EXCEPT !.tk[m] = WithRows(@, s.mag[m].items)], m) ELSE s

\* ----------------------------------------------------------------------- grids

\* The store is made when the grid has a table.
getGridStore(s, m) == [s EXCEPT !.tk[m].store = @ \/ s.mag[m].data # NULL]

\* A column that is too many is removed, and the one that takes its place is
\* passed over.
updateGridHeaders(s, m) ==
  LET t == getGridStore(s, m)
      headers == s.mag[m].headers
      c == Len(headers)
      old == s.tk[m].cols
      left == [i \in 1..((Len(old) - c) \div 2) |-> old[c + 2 * i]]
  IN  IF ~t.tk[m].store THEN t
      ELSE [t EXCEPT !.tk[m].cols = IF Len(old) > c THEN headers \o left ELSE headers]

\* Every row goes, whatever it is compared with, and all records come in again.
updateGridAllRows(s, m) ==
  LET t == getGridStore(s, m)
  IN  IF ~t.tk[m].store \/ s.mag[m].data = NULL THEN t
      ELSE reselect([t EXCEPT !.tk[m] = WithRows(@, s.mag[m].items)], m)

hasRecord(s, m, i) == s.mag[m].data # NULL /\ i \in 0..(Len(s.mag[m].items) - 1)

updateGridRow(s, m, i) ==
  LET t == getGridStore(s, m)
  IN  IF t.tk[m].store /\ hasRecord(s, m, i) /\ i < Len(t.tk[m].rows)
      THEN [t EXCEPT !.tk[m].rows[i + 1] = s.mag[m].items[i + 1]] ELSE t

insertGridRow(s, m, i) ==
  LET t == getGridStore(s, m)
  IN  IF t.tk[m].store /\ hasRecord(s, m, i)
      THEN [t EXCEPT !.tk[m] = WithRowInserted(@, i, s.mag[m].items[i + 1])] ELSE t

deleteGridRow(s, m, i) == [getGridStore(s, m) EXCEPT !.tk[m] = WithRowRemoved(@, i)]

\* ----------------------------------------------------------------------- trees

\* refreshTree() with buildTree(): the tree store gets a row for each node.
refreshTree(s, m) ==
  IF ~created(s, m) THEN s
  ELSE [s EXCEPT !.tk[m].tree = IF s.mag[m].data = NULL THEN {} ELSE s.mag[m].data,
                 !.tk[m].node = NULL]

\* The path of a node's row: its place among the rows of its parent, without
\* the children that are not there.
rowPath(nodes, p) ==
  [k \in DOMAIN p |-> Cardinality({i \in 0..(p[k] - 1) : SubSeq(p, 1, k - 1) \o <<i>> \in nodes})]

\* The row's path is read as a path of children: that of the root, "0", as the
\* path of its first child.
getSelectedItemTreeView(s, m) ==
  LET p == s.tk[m].node
      read == IF p = <<>> THEN <<0>> ELSE rowPath(s.tk[m].tree, p)
      data == s.mag[m].data
  IN  IF ~created(s, m) \/ p = NULL \/ data = NULL THEN NULL
      ELSE IF read \in data THEN read ELSE NULL

\* ----------------------------------------------------------- showing and hiding

\* External: a notebook of GTK turns to pages that are shown only.  The page on
\* top that is hidden makes way for the next one that is shown, or the one before
\* it, and a page that is shown comes on top when the one that is there is hidden.
uncovered(s, m) ==
  LET nb == s.mag[m].parent
      w == s.tk[nb]
      shownAt(i) == s.tk[w.rows[i + 1]].shown
      next == {i \in (w.cursor + 1)..(Len(w.rows) - 1) : shownAt(i)}
      previous == {i \in 0..(w.cursor - 1) : shownAt(i)}
  IN  IF s.mag[m].type # "NOTEBOOKTAB" \/ ~s.tk[m].shown THEN s
      ELSE IF w.cursor < 0 \/ w.rows[w.cursor + 1] # m THEN s
      ELSE IF next # {} THEN [s EXCEPT !.tk[nb].cursor = Min(next)]
      ELSE IF previous # {} THEN [s EXCEPT !.tk[nb].cursor = Max(previous)] ELSE s

turned(s, nb, i) ==
  IF i \in 0..(Len(s.tk[nb].rows) - 1) /\ s.tk[s.tk[nb].rows[i + 1]].shown
  THEN [s EXCEPT !.tk[nb].cursor = i] ELSE s

onTop(s, m) ==
  LET nb == s.mag[m].parent
      i == s.tk[nb].cursor
      at == SelectInSeq(s.tk[nb].rows, LAMBDA k : k = m) - 1
  IN  IF s.mag[m].type # "NOTEBOOKTAB" THEN s
      ELSE IF i >= 0 /\ s.tk[s.tk[nb].rows[i + 1]].shown THEN s ELSE turned(s, nb, at)

\* gtk_widget_hide(): the window's "hide" signal is CBGTK_DeleteEvent().
gtkHide(s, m) ==
  LET t == Hide(uncovered(s, m), m)
  IN  IF s.mag[m].type = "WINDOW" /\ s.tk[m].shown
      THEN [t EXCEPT !.mag[m].told = "onHide"] ELSE t

\* Both make the widget first, if it is not there.
withWidget(s, m) == IF created(s, m) THEN s ELSE create_magnet(s, m)
hidden(s, m) == IF created(s, m) THEN gtkHide(s, m) ELSE s

hide_magnet(s, m) == hidden(withWidget(s, m), m)

refreshed(s, m) ==
  LET type == s.mag[m].type
  IN  CASE type = "LISTBOX" -> refreshItemsListbox(s, m)
        [] type = "COMBOBOX" -> refreshItemsCombobox(s, m)
        [] type = "GRID" -> updateGridAllRows(updateGridHeaders(s, m), m)
        [] type = "TREE" -> refreshTree(s, m)
        [] OTHER -> s

shown(s, m) == IF created(s, m) THEN onTop(Show(refreshed(s, m), m), m) ELSE s

show_magnet(s, m) == shown(withWidget(s, m), m)

\* ------------------------------------------------------------------ properties

\* EDITTEXT: the frame of a panel has no label.
setText(s, m, v) ==
  IF s.mag[m].type \in {"BUTTON", "RADIOBUTTON", "CHECKBOX", "EDITBOX", "LABEL", "MULTILINE",
                        "PROGRESSBAR", "GROUPBOX", "WINDOW", "NOTEBOOKTAB"}
  THEN [s EXCEPT !.tk[m].text = v] ELSE s

\* LISTITEMADD, LISTITEMDEL and LISTITEMCLR
setListItem(s, m, what, i) ==
  CASE what = "LISTITEMADD" ->
         IF i \in 0..(Len(s.mag[m].items) - 1)
         THEN [s EXCEPT !.tk[m] = WithRowInserted(@, i, s.mag[m].items[i + 1])] ELSE s
    [] what = "LISTITEMDEL" -> [s EXCEPT !.tk[m] = WithRowRemoved(@, i)]
    [] what = "LISTITEMCLR" -> IF s.mag[m].type = "LISTBOX" THEN refreshItemsListbox(s, m)
                               ELSE refreshItemsCombobox(s, m)

\* BUTTONSTATE: a change is a click, as far as CBGTK_ClickEvent() lets it be;
\* the other buttons of a radio button's group go out, and a radio button that
\* is pressed in a group is not let out.
setButtonState(s, m, v) ==
  LET w == s.tk[m]
      others == w.group \ {m}
      out == [k \in DOMAIN s.tk |-> IF k \in others THEN [s.tk[k] EXCEPT !.active = FALSE] ELSE s.tk[k]]
  IN  IF v = w.active \/ (w.kind = "radio" /\ ~v /\ ~\E k \in others : s.tk[k].active) THEN s
      ELSE [s EXCEPT !.tk = [out EXCEPT ![m].active = v],
                     !.heard = IF v \/ w.kind # "radio" THEN m ELSE @]

\* GRIDFULLUPDATE to GRIDHEADERSUPDATE
setGrid(s, m, what, i) ==
  CASE what = "GRIDFULLUPDATE" -> updateGridAllRows(updateGridHeaders(s, m), m)
    [] what = "GRIDROWUPDATE" -> updateGridRow(s, m, i)
    [] what = "GRIDROWADD" -> insertGridRow(s, m, i)
    [] what = "GRIDROWDELETE" -> deleteGridRow(s, m, i)
    [] what = "GRIDCLEAR" -> [getGridStore(s, m) EXCEPT !.tk[m] = WithRows(@, <<>>)]
    [] what = "GRIDROWSELECT" -> select(s, m, i)
    [] what = "GRIDHEADERSUPDATE" -> updateGridHeaders(s, m)

\* REPOSITION
reposition(s, m) ==
  LET g == s.mag[m]
      scr == s.mag[getScreen(s, m)]
      at == IF g.type = "WINDOW" THEN <<centered(g.x, scr.w, g.w), centered(g.y, scr.h, g.h)>>
            ELSE IF getGTKWindowObject(s, g.parent) THEN <<g.x, g.y>> ELSE s.tk[m].at
  IN  [s EXCEPT !.tk[m].at = at, !.tk[m].request = <<g.w, g.h>>,
                !.tk[m].size = IF g.type = "WINDOW" THEN @ ELSE <<g.w, g.h>>]

\* What an infotype that is not here asks for is not handled, or (the focus and
\* the clipboard) changes nothing the properties speak of.
setinfo_magnet(s, m, what, v) ==
  IF ~created(s, m) THEN s
  ELSE CASE what = "EDITTEXT" -> setText(s, m, v)
         [] what = "LISTITEMSEL" -> select(s, m, v)
         [] what \in {"LISTITEMADD", "LISTITEMDEL", "LISTITEMCLR"} -> setListItem(s, m, what, v)
         [] what = "BARPOSITION" -> [s EXCEPT !.tk[m].bar = v]
         [] what = "BUTTONSTATE" -> setButtonState(s, m, v)
         [] what = "ALIGNMENT" -> [s EXCEPT !.tk[m].align = v]
         [] what \in {"GRIDFULLUPDATE", "GRIDROWUPDATE", "GRIDROWADD", "GRIDROWDELETE",
                      "GRIDCLEAR", "GRIDROWSELECT", "GRIDHEADERSUPDATE"} -> setGrid(s, m, what, v)
         [] what = "NOTEBOOKTABSELECT" -> turned(s, m, v)
         [] what = "MENUCHECKED" -> [s EXCEPT !.tk[m].active = v]
         [] what = "TREEFULLUPDATE" -> refreshTree(s, m)
         [] what = "REPOSITION" -> reposition(s, m)
         [] OTHER -> s

\* The answer of getinfo_magnet(); v is what the caller holds already.
getinfo_magnet(s, m, what, v) ==
  IF ~created(s, m) THEN v
  ELSE CASE what = "EDITTEXT" -> IF s.mag[m].type \in TextTypes THEN s.tk[m].text ELSE v
         [] what \in {"LISTITEMSEL", "GRIDROWSELECT", "NOTEBOOKTABSELECT"} -> s.tk[m].cursor
         [] what = "BUTTONSTATE" -> s.tk[m].active
         [] what = "TREESELECT" -> getSelectedItemTreeView(s, m)
         [] OTHER -> v

\* -------------------------------------------------------- what GTK's signals do

\* CBGTK_MenuClickEvent(): the mark GTK has changed is set back to `checked`.
MenuClickEvent(s, m) == [s EXCEPT !.tk[m].active = s.mag[m].checked, !.heard = m]

\* CBGTK_ClickEvent()
ClickEvent(s, m) ==
  IF s.mag[m].type = "RADIOBUTTON" /\ ~s.tk[m].active THEN s ELSE [s EXCEPT !.heard = m]

\* CBGTK_PopupEvent(): the menu is built when it is wanted first.
PopupEvent(s, m) ==
  LET menu == popupMenu(s, m)
  IN  IF s.mag[m].type \notin {"LISTBOX", "GRID", "MULTILINE"} \/ menu = NULL \/ created(s, menu)
      THEN s ELSE buildMenu(s, menu)

\* The buttons a message box of a type has, and what pressing one of them (or
\* closing the box) answers.
messageButtons(type) ==
  [OK |-> {"OK"}, OKCANCEL |-> {"OK", "CANCEL"}, YESNO |-> {"YES", "NO"},
   YESNOCANCEL |-> {"YES", "NO", "CANCEL"}][type]

messagebox(pressed) == IF pressed \in {"OK", "CANCEL", "YES", "NO"} THEN pressed ELSE "0"

=============================================================================
