----------------------------- MODULE DriverCocoa -----------------------------
(***************************************************************************)
(* TCBDriverCocoa (Chalkboard/Cocoa/CBDriverCocoa.cpp): how the magnets     *)
(* become views of Cocoa, are shown and hidden, told their properties and   *)
(* asked for them, and what the events of Cocoa do.  The functions of       *)
(* CocoaIntf.m it calls are modelled by what they do to a widget.           *)
(***************************************************************************)
EXTENDS Magnets

CONSTANTS ScreenSize    \* <<width, height>> of the screen

Listed == {"WINDOW", "GROUPBOX", "PANEL"}   \* what the driver has in `windows`

\* The size of a parent: the point its magic holds while it is being resized,
\* else of its view; none is asked for of a notebook.
parentSize(s, p) ==
  IF s.mag[p].magic # NULL THEN s.mag[p].magic
  ELSE IF s.mag[p].type = "NOTEBOOK" THEN <<0, 0>> ELSE s.tk[p].size

\* A size that is not positive is counted from the parent's.
sizeIn(g, size) ==
  <<IF g.w <= 0 THEN size[1] - g.x + g.w ELSE g.w,
    IF g.h <= 0 THEN size[2] - g.y + g.h ELSE g.h>>

RECURSIVE stretchMagnet(_, _)
stretchMagnet(s, m) ==
  LET g == s.mag[m]
      t == IF g.type = "NOTEBOOKTAB" THEN s
           ELSE [s EXCEPT !.tk[m].at = <<g.x, g.y>>,
                          !.tk[m].size = sizeIn(g, parentSize(s, g.parent))]
  IN  IF ~created(s, m) \/ g.type = "MENU" \/ (g.w > 0 /\ g.h > 0) \/ ~created(s, g.parent)
      THEN s
      ELSE IF g.type \in Collectors THEN FoldLeft(stretchMagnet, t, children(t, m)) ELSE t

stretchChildren(s, m) ==
  IF s.mag[m].type \in Collectors THEN FoldLeft(stretchMagnet, s, children(s, m)) ELSE s

\* cocoaWindowResizeEvent(): the window does not have its new size yet.
WindowResizeEvent(s, m, size) ==
  LET t == stretchChildren([s EXCEPT !.mag[m].magic = size], m)
  IN  [t EXCEPT !.mag[m].magic = NULL, !.tk[m].size = size]

\* --------------------------------------------------------------------- events

\* getMagnetByRemoteId(): whether a collector has the widget below it.
RECURSIVE hasBelow(_, _, _)
hasBelow(s, c, m) ==
  \E k \in Range(children(s, c)) :
     (k = m /\ created(s, m)) \/ (s.mag[k].type \in Collectors /\ hasBelow(s, k, m))

\* The magnet an event is for: a control passes its own address; the sender of
\* a menu item's is looked for below what is in `windows`.
eventReceiver(s, m) ==
  IF s.mag[m].type # "MENU" THEN m
  ELSE IF \E w \in DOMAIN s.mag : created(s, w) /\ s.mag[w].type \in Listed /\ hasBelow(s, w, m)
       THEN m ELSE NULL

\* ------------------------------------------------------- what the views ask for

\* The rows of a list: its items, or the texts of the grid's records below its
\* headers (cocoaListbox... and cocoaGridNumberOfRows() and GetValue()).
listboxRows(s, m) == s.mag[m].items

gridRows(s, m) ==
  LET g == s.mag[m]
  IN  IF g.data = NULL THEN <<>>
      ELSE [i \in DOMAIN g.items |-> [j \in DOMAIN g.headers |-> g.items[i][g.headers[j]]]]

\* A table view asks again, and keeps the selected row if it is there.
reload(s, m) ==
  LET rows == IF s.mag[m].type = "GRID" THEN gridRows(s, m) ELSE listboxRows(s, m)
  IN  [s EXCEPT !.tk[m].rows = rows, !.tk[m].cursor = IF @ < Len(rows) THEN @ ELSE -1]

updateCocoaGridHeaders(s, m) == [s EXCEPT !.tk[m].cols = s.mag[m].headers]

\* The outline view asks for every child by its index; what is not there is a
\* row without a name, which the model leaves out.
treeNodes(s, m) == IF s.mag[m].data = NULL THEN {} ELSE s.mag[m].data

\* A pop-up button has every title once, where it was added last, and selects
\* its first item by itself.
withTitle(widget, title) ==
  LET others == SelectSeq(widget.rows, LAMBDA t : t # title)
      had == Len(others) < Len(widget.rows)
  IN  [widget EXCEPT !.rows = Append(others, title),
                     !.cursor = IF @ = -1 \/ had THEN 0 ELSE @]

select(s, m, i) == [s EXCEPT !.tk[m] = WithCursor(@, i)]

refreshItemsCombobox(s, m) ==
  LET w == FoldLeft(withTitle, WithRows(s.tk[m], <<>>), s.mag[m].items)
      i == inList(s.mag[m].selected, Len(s.mag[m].items))
  IN  [select([s EXCEPT !.tk[m] = w], m, i) EXCEPT !.mag[m].selected = i]

\* ---------------------------------------------------------------------- menus

RECURSIVE addMenuItem(_, _, _)
addMenuItem(s, menu, m) ==
  LET item == [Widget("item", menu, <<0, 0>>, <<0, 0>>, s.mag[m].caption) EXCEPT !.shown = TRUE]
      add(t, k) == addMenuItem(t, m, k)
      t == [s EXCEPT !.tk[m] = item]
  IN  IF s.mag[m].caption = "-" THEN t ELSE FoldLeft(add, t, children(s, m))

buildMenu(s, m) ==
  LET bar == [Widget("menu", NULL, <<0, 0>>, <<0, 0>>, "") EXCEPT !.shown = TRUE]
      add(t, k) == addMenuItem(t, m, k)
  IN  FoldLeft(add, [s EXCEPT !.tk[m] = bar], children(s, m))

\* ------------------------------------------------------------------- creation

\* The place and size a view begins with.
initialSize(s, m) ==
  LET g == s.mag[m]
  IN  IF created(s, g.parent)
      THEN sizeIn(g, IF s.mag[g.parent].type = "NOTEBOOK" THEN <<0, 0>> ELSE s.tk[g.parent].size)
      ELSE <<MaxOf(10, g.w), MaxOf(10, g.h)>>

\* A view is seen as soon as it is in its parent, a window when it is shown.
viewOf(s, m, kind) ==
  LET g == s.mag[m]
  IN  [Widget(kind, IF created(s, g.parent) THEN g.parent ELSE NULL, <<g.x, g.y>>,
              initialSize(s, m), g.caption) EXCEPT !.shown = TRUE]

\* WINDOW, GROUPBOX and PANEL
collectorView(s, m) ==
  LET g == s.mag[m]
      size == initialSize(s, m)
      scr == s.mag[getScreen(s, m)]
      at == <<centered(g.x, scr.w, size[1]), centered(g.y, scr.h, size[2])>>
  IN  [s EXCEPT !.tk[m] = IF g.type = "WINDOW" THEN Widget("window", NULL, at, size, g.caption)
                          ELSE viewOf(s, m, "box")]

\* LABEL to RADIOBUTTON.  The radio buttons in one view are one group.
controlView(s, m) ==
  LET g == s.mag[m]
      kind == [LABEL |-> "label", EDITBOX |-> "field", MULTILINE |-> "textview",
               LISTBOX |-> "list", COMBOBOX |-> "combo", BUTTON |-> "button",
               CHECKBOX |-> "check", RADIOBUTTON |-> "radio"][g.type]
      t == IF g.type = "LISTBOX" /\ g.menu # NULL /\ ~created(s, g.menu)
           THEN buildMenu(s, g.menu) ELSE s
  IN  [t EXCEPT !.tk[m] = viewOf(s, m, kind)]

\* PROGRESSBAR to TREE, and what the driver does not know
otherView(s, m) ==
  LET g == s.mag[m]
      kinds == [PROGRESSBAR |-> "bar", GRID |-> "list", NOTEBOOK |-> "pages", TREE |-> "tree"]
      t == IF g.type = "GRID" /\ g.menu # NULL /\ ~created(s, g.menu)
           THEN buildMenu(s, g.menu) ELSE s
  IN  IF g.type \in DOMAIN kinds THEN [t EXCEPT !.tk[m] = viewOf(s, m, kinds[g.type])]
      ELSE [s EXCEPT !.tk[m] = [viewOf(s, m, "label") EXCEPT !.text = "Unknown control"]]

\* NOTEBOOKTAB: the page comes after those that are there.
pageView(s, m) ==
  LET p == s.mag[m].parent
      t == [s EXCEPT !.tk[m] = viewOf(s, m, "page")]
  IN  IF created(s, p)
      THEN [t EXCEPT !.tk[p] = WithPage(@, Len(@.rows), m), !.tk[m].size = s.tk[p].size] ELSE t

stretchedIfMade(s, m) ==
  IF created(s, m) /\ s.mag[m].type # "WINDOW" THEN stretchMagnet(s, m) ELSE s

create_magnet(s, m) ==
  LET type == s.mag[m].type
  IN  stretchedIfMade(
        CASE type = "SCREEN" -> [s EXCEPT !.mag[m].w = ScreenSize[1], !.mag[m].h = ScreenSize[2]]
          [] type = "MENU" -> s
          [] type \in Listed -> collectorView(s, m)
          [] type \in {"LABEL", "BUTTON", "CHECKBOX", "RADIOBUTTON"} \union TextTypes
                      \union ListTypes -> controlView(s, m)
          [] type = "NOTEBOOKTAB" -> pageView(s, m)
          [] OTHER -> otherView(s, m), m)

\* ----------------------------------------------------------- showing and hiding

\* Both make the view first, if it is not there.  Only a window can be hidden.
withView(s, m) == IF created(s, m) THEN s ELSE create_magnet(s, m)
hidden(s, m) == IF created(s, m) /\ s.mag[m].type = "WINDOW" THEN Hide(s, m) ELSE s

hide_magnet(s, m) == hidden(withView(s, m), m)

withMenu(s, menu) == IF menu # NULL /\ ~created(s, menu) THEN buildMenu(s, menu) ELSE s

shown(s, m) ==
  LET type == s.mag[m].type
  IN  IF ~created(s, m) THEN s
      ELSE CASE type = "WINDOW" -> Show(withMenu(s, s.mag[m].menu), m)
             [] type = "LISTBOX" -> reload(s, m)
             [] type = "COMBOBOX" -> refreshItemsCombobox(s, m)
             [] type = "GRID" -> updateCocoaGridHeaders(reload(s, m), m)
             [] type = "TREE" -> [s EXCEPT !.tk[m].tree = treeNodes(s, m)]
             [] OTHER -> s

show_magnet(s, m) == shown(withView(s, m), m)

\* ------------------------------------------------------------------ properties

setText(s, m, v) ==
  IF s.mag[m].type \in {"BUTTON", "RADIOBUTTON", "CHECKBOX", "EDITBOX", "LABEL", "MULTILINE",
                        "GROUPBOX", "WINDOW"}
  THEN [s EXCEPT !.tk[m].text = v] ELSE s

\* LISTITEMADD, LISTITEMDEL and LISTITEMCLR
setListItem(s, m, what, i) ==
  CASE what = "LISTITEMADD" ->
         IF i \notin 0..(Len(s.mag[m].items) - 1) THEN s
         ELSE IF s.mag[m].type = "LISTBOX" THEN reload(s, m)
              ELSE [s EXCEPT !.tk[m] = withTitle(@, s.mag[m].items[i + 1])]
    [] what = "LISTITEMDEL" -> IF s.mag[m].type = "LISTBOX" THEN reload(s, m)
                               ELSE [s EXCEPT !.tk[m] = WithRowRemoved(@, i)]
    [] what = "LISTITEMCLR" -> IF s.mag[m].type = "LISTBOX" THEN reload(s, m)
                               ELSE refreshItemsCombobox(s, m)

\* BUTTONSTATE: a radio button that is pressed lets the others in its view out.
setButtonState(s, m, v) ==
  LET others == {k \in DOMAIN s.tk : k # m /\ created(s, k) /\ s.tk[k].kind = "radio"
                                       /\ s.tk[k].in = s.tk[m].in}
      out == IF v /\ s.tk[m].kind = "radio" THEN others ELSE {}
  IN  [s EXCEPT !.tk = [k \in DOMAIN @ |-> IF k \in out THEN [@[k] EXCEPT !.active = FALSE]
                                           ELSE IF k = m THEN [@[k] EXCEPT !.active = v] ELSE @[k]]]

\* GRIDFULLUPDATE to GRIDHEADERSUPDATE
setGrid(s, m, what, i) ==
  CASE what = "GRIDFULLUPDATE" -> reload(updateCocoaGridHeaders(s, m), m)
    [] what \in {"GRIDROWUPDATE", "GRIDROWADD", "GRIDROWDELETE", "GRIDCLEAR"} -> reload(s, m)
    [] what = "GRIDROWSELECT" -> select(s, m, i)
    [] what = "GRIDHEADERSUPDATE" -> updateCocoaGridHeaders(s, m)

\* A place, the mark of a menu item, the page of a notebook and the selection of
\* a tree are not handled.
setinfo_magnet(s, m, what, v) ==
  IF ~created(s, m) THEN s
  ELSE CASE what = "EDITTEXT" -> setText(s, m, v)
         [] what = "LISTITEMSEL" -> select(s, m, v)
         [] what \in {"LISTITEMADD", "LISTITEMDEL", "LISTITEMCLR"} -> setListItem(s, m, what, v)
         [] what = "BARPOSITION" -> [s EXCEPT !.tk[m].bar = v]
         [] what = "BUTTONSTATE" -> setButtonState(s, m, v)
         [] what \in {"GRIDFULLUPDATE", "GRIDROWUPDATE", "GRIDROWADD", "GRIDROWDELETE",
                      "GRIDCLEAR", "GRIDROWSELECT", "GRIDHEADERSUPDATE"} -> setGrid(s, m, what, v)
         [] what = "TREEFULLUPDATE" -> [s EXCEPT !.tk[m].tree = treeNodes(s, m)]
         [] OTHER -> s

\* The answer of getinfo_magnet(); v is what the caller holds already.
getinfo_magnet(s, m, what, v) ==
  IF ~created(s, m) THEN v
  ELSE CASE what = "EDITTEXT" -> IF s.mag[m].type \in TextTypes THEN s.tk[m].text ELSE v
         [] what \in {"LISTITEMSEL", "GRIDROWSELECT"} -> s.tk[m].cursor
         [] OTHER -> v

\* The buttons of a message box in the order they have, and what the n-th
\* answers.
messageButtons(type) ==
  [OK |-> <<"OK">>, OKCANCEL |-> <<"OK", "CANCEL">>, YESNO |-> <<"YES", "NO">>,
   YESNOCANCEL |-> <<"YES", "CANCEL", "NO">>][type]

messagebox(type, n) ==
  CASE type = "OK" -> IF n = 1 THEN "OK" ELSE "0"
    [] type = "OKCANCEL" -> IF n = 1 THEN "OK" ELSE "CANCEL"
    [] type = "YESNO" -> IF n = 1 THEN "YES" ELSE "NO"
    [] type = "YESNOCANCEL" -> IF n = 1 THEN "YES" ELSE IF n = 2 THEN "CANCEL" ELSE "NO"

=============================================================================
