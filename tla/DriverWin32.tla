----------------------------- MODULE DriverWin32 -----------------------------
(***************************************************************************)
(* TCBDriverWin32 (Chalkboard/Win32/CBDriverWin32.cpp): how the magnets     *)
(* become windows of Win32, are shown and hidden, told their properties and *)
(* asked for them, and what the messages of Win32 do.  A string is the same *)
(* before and after it is made wide, and an item of a grid is in range.     *)
(***************************************************************************)
EXTENDS Magnets

CONSTANTS ScreenSize,   \* <<width, height>> of the primary monitor
          TabStrip      \* what TCM_ADJUSTRECT takes for the titles of the tabs

\* Inside a groupbox everything is put below its title.
corrected(s, m) ==
  LET g == s.mag[m]
      inGroup == g.parent # NULL /\ s.mag[g.parent].type = "GROUPBOX"
  IN  [x |-> g.x + IF inGroup THEN 2 ELSE 0, y |-> g.y + IF inGroup THEN 15 ELSE 0,
       h |-> g.h - IF g.type = "GROUPBOX" THEN 5 ELSE 0]

\* A child window; without a window to be in there is none.
child(s, m, kind, text) ==
  LET g == s.mag[m]
      at == corrected(s, m)
  IN  IF ~created(s, g.parent) THEN NoWidget
      ELSE Widget(kind, g.parent, <<at.x, at.y>>, <<MaxOf(0, g.w), MaxOf(0, at.h)>>, text)

\* ShowWindow(SW_NORMAL), for a magnet that is actually visible.  The page of a
\* notebook is given the place the notebook's own size leaves it.
shownIfVisible(s, m) ==
  LET t == pagesRead(s, m)
      p == s.mag[m].parent
      inside == <<s.mag[p].w, s.mag[p].h - TabStrip>>
  IN  IF ~isActuallyVisible(s, m) THEN t
      ELSE IF s.mag[m].type = "NOTEBOOKTAB"
           THEN [Show(t, m) EXCEPT !.tk[m].at = <<0, TabStrip>>, !.tk[m].size = inside]
           ELSE Show(t, m)

\* ------------------------------------------------------------------ stretching

RECURSIVE stretchMagnet(_, _)
stretchMagnet(s, m) ==
  LET g == s.mag[m]
      at == corrected(s, m)
      size == s.tk[g.parent].size
      x == IF at.x < 0 THEN size[1] + at.x ELSE at.x
      y == IF at.y < 0 THEN size[2] + at.y ELSE at.y
      to == <<IF g.w <= 0 THEN size[1] - x + g.w ELSE g.w,
              IF at.h <= 0 THEN size[2] - y + at.h ELSE at.h>>
      moved(t) == [t EXCEPT !.tk[m].at = <<x, y>>, !.tk[m].size = to]
      inner(t) == FoldLeft(stretchMagnet, t, children(t, m))
  IN  IF ~created(s, m) \/ ~stretches(g) \/ ~created(s, g.parent) THEN s
      ELSE IF g.type = "GROUPBOX" THEN shownIfVisible(inner(moved(Hide(s, m))), m)
      ELSE IF g.type \in Collectors THEN inner(moved(s)) ELSE moved(s)

stretchChildren(s, m) ==
  IF s.mag[m].type \in Collectors THEN FoldLeft(stretchMagnet, s, children(s, m)) ELSE s

\* WM_WINDOWPOSCHANGED: the window has another place, size of its client area,
\* or both, and its magnet takes them.
WindowPosChanged(s, m, at, size) ==
  LET t == [s EXCEPT !.tk[m].at = at, !.tk[m].size = size, !.mag[m].x = at[1], !.mag[m].y = at[2]]
  IN  IF size = s.tk[m].size THEN t
      ELSE stretchChildren([t EXCEPT !.mag[m].w = size[1], !.mag[m].h = size[2]], m)

\* ---------------------------------------------------------------------- menus

\* The onClick of an item without children enters the command list, whose first
\* element is NULL, and its number there is the item's iRemoteId.  Windows knows
\* the item by 0x10000 more, and its low word is what a click comes with.
RECURSIVE addMenuItem(_, _, _)
addMenuItem(s, menu, m) ==
  LET g == s.mag[m]
      kids == children(s, m)
      item(kind) == [Widget(kind, menu, <<0, 0>>, <<0, 0>>, g.caption) EXCEPT !.shown = TRUE]
      add(t, k) == addMenuItem(t, m, k)
      leaf == [item("check") EXCEPT !.active = g.checked, !.id = 65536 + Len(s.cmds)]
  IN  IF g.caption = "-" THEN s
      ELSE IF kids = <<>> THEN [s EXCEPT !.tk[m] = leaf, !.cmds = Append(@, m)]
           ELSE FoldLeft(add, [s EXCEPT !.tk[m] = item("submenu")], kids)

buildMenu(s, m) ==
  LET bar == [Widget("menu", NULL, <<0, 0>>, <<0, 0>>, "") EXCEPT !.shown = TRUE]
      add(t, k) == addMenuItem(t, m, k)
  IN  FoldLeft(add, [s EXCEPT !.tk[m] = bar], children(s, m))

\* CheckMenuItem() by command: the iRemoteId is not the number Windows knows.
checkMenuItem(s, m, v) ==
  LET iRemoteId == s.tk[m].id - 65536
      known == {k \in DOMAIN s.tk : s.tk[k] # NoWidget /\ s.tk[k].kind = "check"
                                      /\ s.tk[k].id = iRemoteId}
  IN  [s EXCEPT !.tk = [k \in DOMAIN @ |-> IF k \in known THEN [@[k] EXCEPT !.active = v] ELSE @[k]]]

\* ------------------------------------------------------------------- creation

\* repositionWindow(): the client area gets two more than the magnet has.
repositionWindow(s, m) ==
  LET g == s.mag[m]
      scr == s.mag[getScreen(s, m)]
      size == <<g.w + 2, g.h + 2>>
  IN  [at |-> <<centered(g.x, scr.w, size[1]), centered(g.y, scr.h, size[2])>>, size |-> size]

\* WINDOW, GROUPBOX and PANEL
collectorWidget(s, m) ==
  LET g == s.mag[m]
      t == IF g.menu # NULL /\ s.mag[g.menu].parent # NULL THEN buildMenu(s, g.menu) ELSE s
      to == repositionWindow(s, m)
  IN  IF g.type = "WINDOW" THEN [t EXCEPT !.tk[m] = Widget("window", NULL, to.at, to.size, "")]
      ELSE [s EXCEPT !.tk[m] = child(s, m, IF g.type = "GROUPBOX" THEN "frame" ELSE "static",
                                     g.caption)]

\* LABEL, EDITBOX and MULTILINE
textWidget(s, m) ==
  LET g == s.mag[m]
      w == child(s, m, [LABEL |-> "label", EDITBOX |-> "edit", MULTILINE |-> "richedit"][g.type],
                 g.caption)
  IN  [s EXCEPT !.tk[m] = IF w # NoWidget /\ g.type = "LABEL" THEN [w EXCEPT !.align = g.alignment]
                          ELSE w]

\* LISTBOX to RADIOBUTTON
listWidget(s, m) ==
  LET type == s.mag[m].type
      kind == [LISTBOX |-> "list", COMBOBOX |-> "combo", BUTTON |-> "button",
               CHECKBOX |-> "check", RADIOBUTTON |-> "radio"][type]
  IN  [s EXCEPT !.tk[m] = child(s, m, kind, IF type = "LISTBOX" THEN "" ELSE s.mag[m].caption)]

\* PROGRESSBAR to TREE
gridWidget(s, m) ==
  LET g == s.mag[m]
      w == child(s, m, [PROGRESSBAR |-> "bar", GRID |-> "list", TREE |-> "tree"][g.type], "")
  IN  [s EXCEPT !.tk[m] = IF w # NoWidget THEN [w EXCEPT !.active = g.undetermined] ELSE w]

\* NOTEBOOK, NOTEBOOKTAB and what the driver does not know: a page has no text,
\* its title in the tab control is its caption.
pageWidget(s, m) ==
  LET g == s.mag[m]
      at == SelectInSeq(children(s, g.parent), LAMBDA k : k = m) - 1
      t == [s EXCEPT !.tk[m] = child(s, m, "page", "")]
  IN  IF g.type = "NOTEBOOKTAB"
      THEN IF created(t, m) THEN [t EXCEPT !.tk[g.parent] = WithPage(@, at, m)] ELSE t
      ELSE [s EXCEPT !.tk[m] = child(s, m, IF g.type = "NOTEBOOK" THEN "pages" ELSE "unknown",
                                     IF g.type = "NOTEBOOK" THEN "" ELSE "Unknown Control")]

\* EDITTEXT: WM_SETTEXT, which neither a page nor a panel is sent.
setText(s, m, v) ==
  IF s.mag[m].type \in {"NOTEBOOKTAB", "PANEL"} THEN s ELSE [s EXCEPT !.tk[m].text = v]

stretchedIfMade(s, m) ==
  IF created(s, m) THEN setText(stretchMagnet(s, m), m, s.mag[m].caption) ELSE s

create_magnet(s, m) ==
  LET type == s.mag[m].type
  IN  stretchedIfMade(
        CASE type = "SCREEN" -> [s EXCEPT !.mag[m].w = ScreenSize[1], !.mag[m].h = ScreenSize[2]]
          [] type \in {"WINDOW", "GROUPBOX", "PANEL"} -> collectorWidget(s, m)
          [] type \in {"LABEL", "EDITBOX", "MULTILINE"} -> textWidget(s, m)
          [] type \in ListTypes \union {"BUTTON", "CHECKBOX", "RADIOBUTTON"} -> listWidget(s, m)
          [] type \in {"PROGRESSBAR", "GRID", "TREE"} -> gridWidget(s, m)
          [] type = "MENU" -> s
          [] OTHER -> pageWidget(s, m), m)

\* ----------------------------------------------------------------------- lists

select(s, m, i) == [s EXCEPT !.tk[m] = WithCursor(@, i)]

\* selected.set( selected.internalGet() ), which the refreshes end with
reselect(s, m) ==
  LET i == inList(s.mag[m].selected, Len(s.mag[m].items))
  IN  [select(s, m, i) EXCEPT !.mag[m].selected = i]

refreshItemsListbox(s, m) ==
  IF created(s, m) THEN reselect([s EXCEPT !.tk[m] = WithRows(@, s.mag[m].items)], m) ELSE s

refreshItemsCombobox(s, m) ==
  IF created(s, m) THEN reselect([s EXCEPT !.tk[m] = WithRows(@, s.mag[m].items)], m) ELSE s

\* ----------------------------------------------------------------------- grids

\* The texts a record has below the headers of the grid.
texts(s, m, record) ==
  [j \in DOMAIN s.mag[m].headers |-> record[s.mag[m].headers[j]]]

hasRecord(s, m, i) ==
  s.mag[m].data # NULL /\ i \in 0..(Len(s.mag[m].items) - 1) /\ s.mag[m].headers # <<>>

updateGridRow(s, m, i) ==
  IF hasRecord(s, m, i) /\ i < Len(s.tk[m].rows)
  THEN [s EXCEPT !.tk[m].rows[i + 1] = texts(s, m, s.mag[m].items[i + 1])] ELSE s

\* A mistake this could have: a record always comes in as the last row.
appendGridRow(s, m, i) ==
  IF hasRecord(s, m, i)
  THEN [s EXCEPT !.tk[m] = WithRowInserted(@, Len(@.rows), texts(s, m, s.mag[m].items[i + 1]))]
  ELSE s

insertGridRow(s, m, i) ==
  IF hasRecord(s, m, i)
  THEN [s EXCEPT !.tk[m] = WithRowInserted(@, i, texts(s, m, s.mag[m].items[i + 1]))] ELSE s

\* The items only appear with the text of a first column.
updateGridAllRows(s, m) ==
  LET g == s.mag[m]
      rows == IF g.data = NULL \/ g.headers = <<>> THEN <<>>
              ELSE [i \in DOMAIN g.items |-> texts(s, m, g.items[i])]
      to == IF g.data = NULL THEN g.selected ELSE inList(g.selected, Len(g.items))
  IN  [s EXCEPT !.tk[m] = WithCursor(WithRows(@, rows), to), !.mag[m].selected = to]

\* magic keeps the number of columns: the surplus goes, the others get their
\* titles, new ones are inserted.  The items keep the texts they have.
updateGridHeaders(s, m) == [s EXCEPT !.tk[m].cols = s.mag[m].headers]

\* A row is inserted or deleted only if the view has not as many as the table.
setGrid(s, m, what, i) ==
  LET same == Len(s.tk[m].rows) = IF s.mag[m].data = NULL THEN 0 ELSE Len(s.mag[m].items)
  IN  CASE what = "GRIDFULLUPDATE" -> updateGridAllRows(updateGridHeaders(s, m), m)
        [] what = "GRIDROWUPDATE" -> updateGridRow(s, m, i)
        [] what = "GRIDROWADD" -> IF same THEN updateGridRow(s, m, i) ELSE insertGridRow(s, m, i)
        [] what = "GRIDROWDELETE" -> IF same THEN updateGridRow(s, m, i)
                                     ELSE [s EXCEPT !.tk[m] = WithRowRemoved(@, i)]
        [] what = "GRIDCLEAR" -> [s EXCEPT !.tk[m] = WithRows(@, <<>>)]
        [] what = "GRIDROWSELECT" -> select(s, m, i)
        [] what = "GRIDHEADERSUPDATE" -> updateGridHeaders(s, m)

\* ----------------------------------------------------------------------- trees

\* refreshTree() with buildTree(): every node gets an item, and the item's handle
\* as an attribute.
refreshTree(s, m) ==
  IF ~created(s, m) THEN s
  ELSE [s EXCEPT !.tk[m].tree = IF s.mag[m].data = NULL THEN {} ELSE s.mag[m].data,
                 !.tk[m].node = NULL]

\* The node that has the handle of the selected item.
getSelectedItemTreeView(s, m) ==
  LET data == s.mag[m].data
  IN  IF created(s, m) /\ data # NULL /\ s.tk[m].node \in data THEN s.tk[m].node ELSE NULL

\* ----------------------------------------------------------- showing and hiding

\* Both make the window first, if it is not there.
withWidget(s, m) == IF created(s, m) THEN s ELSE create_magnet(s, m)
hidden(s, m) == IF created(s, m) THEN Hide(s, m) ELSE s

hide_magnet(s, m) == hidden(withWidget(s, m), m)

refreshed(s, m) ==
  LET type == s.mag[m].type
  IN  CASE type = "LISTBOX" -> refreshItemsListbox(s, m)
        [] type = "COMBOBOX" -> refreshItemsCombobox(s, m)
        [] type = "GRID" -> updateGridAllRows(updateGridHeaders(s, m), m)
        [] type = "TREE" -> refreshTree(s, m)
        [] OTHER -> s

shown(s, m) == IF created(s, m) THEN shownIfVisible(refreshed(s, m), m) ELSE pagesRead(s, m)

show_magnet(s, m) == shown(withWidget(s, m), m)

\* ------------------------------------------------------------------ properties

\* LISTITEMSEL to LISTITEMCLR: each change of the items fills the list anew.
setList(s, m, what, i) ==
  IF what = "LISTITEMSEL" THEN select(s, m, i)
  ELSE IF s.mag[m].type = "LISTBOX" THEN refreshItemsListbox(s, m) ELSE refreshItemsCombobox(s, m)

\* ALIGNMENT: the new style is without WS_VISIBLE.
setAlignment(s, m) == [Hide(s, m) EXCEPT !.tk[m].align = s.mag[m].alignment]

\* REPOSITION: Windows tells a window that its place or size has changed.
reposition(s, m) ==
  LET g == s.mag[m]
      to == repositionWindow(s, m)
      at == corrected(s, m)
  IN  IF g.type = "WINDOW" THEN WindowPosChanged(s, m, to.at, to.size)
      ELSE [s EXCEPT !.tk[m].at = <<at.x, at.y>>, !.tk[m].size = <<MaxOf(0, g.w), MaxOf(0, at.h)>>]

setinfo_magnet(s, m, what, v) ==
  IF ~created(s, m) THEN s
  ELSE CASE what = "EDITTEXT" -> setText(s, m, v)
         [] what \in {"LISTITEMSEL", "LISTITEMADD", "LISTITEMDEL", "LISTITEMCLR"} ->
              setList(s, m, what, v)
         [] what = "BARPOSITION" -> [s EXCEPT !.tk[m].bar = v]
         [] what = "BARSETUNDETERMINED" -> [s EXCEPT !.tk[m].active = v]
         [] what = "BUTTONSTATE" -> [s EXCEPT !.tk[m].active = v]
         [] what = "ALIGNMENT" -> setAlignment(s, m)
         [] what \in {"GRIDFULLUPDATE", "GRIDROWUPDATE", "GRIDROWADD", "GRIDROWDELETE",
                      "GRIDCLEAR", "GRIDROWSELECT", "GRIDHEADERSUPDATE"} -> setGrid(s, m, what, v)
         [] what = "MENUCHECKED" -> checkMenuItem(s, m, v)
         [] what = "NOTEBOOKTABSELECT" -> IF v < Len(s.tk[m].rows) THEN select(s, m, v) ELSE s
         [] what = "TREEFULLUPDATE" -> refreshTree(s, m)
         [] what = "REPOSITION" -> reposition(s, m)
         [] OTHER -> s

\* The answer of getinfo_magnet(); v is what the caller holds already.
getinfo_magnet(s, m, what, v) ==
  IF ~created(s, m) THEN v
  ELSE CASE what = "EDITTEXT" -> s.tk[m].text
         [] what \in {"LISTITEMSEL", "GRIDROWSELECT", "NOTEBOOKTABSELECT"} -> s.tk[m].cursor
         [] what = "BUTTONSTATE" -> s.tk[m].active
         [] what = "TREESELECT" -> getSelectedItemTreeView(s, m)
         [] OTHER -> v

\* ------------------------------------------------ what Win32's messages come to

\* A mistake this could have: the list is read from its first element on.
commandReceiverFromNull(s, m) ==
  LET low == s.tk[m].id % 65536
  IN  IF s.mag[m].type # "MENU" THEN m ELSE IF low \in DOMAIN s.cmds THEN s.cmds[low] ELSE NULL

\* The magnet a command is for: the control it comes from, or the menu item the
\* command list has at its low word.
commandReceiver(s, m) ==
  LET w == s.tk[m]
      low == w.id % 65536
  IN  IF s.mag[m].type # "MENU" THEN m ELSE IF low \in 1..(Len(s.cmds) - 1) THEN s.cmds[low + 1] ELSE NULL

\* WM_CONTEXTMENU: the menu is built when it is wanted first.
ContextMenu(s, m) ==
  LET menu == popupMenu(s, m)
  IN  IF s.mag[m].type \notin {"LISTBOX", "GRID", "EDITBOX", "MULTILINE"} \/ menu = NULL
         \/ created(s, menu)
      THEN s ELSE buildMenu(s, menu)

\* The buttons of a message box and what they answer.
messageButtons(type) ==
  [OK |-> {"OK"}, OKCANCEL |-> {"OK", "CANCEL"}, YESNO |-> {"YES", "NO"},
   YESNOCANCEL |-> {"YES", "NO", "CANCEL"}][type]

messagebox(pressed) == IF pressed \in {"OK", "CANCEL", "YES", "NO"} THEN pressed ELSE "0"

=============================================================================
