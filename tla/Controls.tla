------------------------------- MODULE Controls -------------------------------
(***************************************************************************)
(* What stands in the controls of a window (CBControls.cpp): a program that *)
(* changes and reads captions, lists, tables, trees, buttons and menus, and *)
(* a user who types, selects and clicks, through each of the three drivers. *)
(* What the program holds and what the toolkit shows are kept apart, and    *)
(* each change has to reach the other side.                                 *)
(***************************************************************************)
EXTENDS Board

CONSTANTS Forms,    \* the windows a program may have, with what is done in each
          Texts,    \* captions, items of lists and what the user types
          Records,  \* of a table: tuples of the texts of its fields
          Trees,    \* sets of nodes a tree may be given
          ListLimit \* how many items and records a list or table may get here

VARIABLES form,
          latest,   \* what was last set or entered in each magnet
          clicked   \* what the user has just clicked

vars == <<boardVars, form, latest, clicked>>

ControlsInit ==
  /\ form \in Forms
  /\ toolkit \in form.toolkits
  /\ magnet = form.magnets
  /\ widget = [m \in Magnets |-> NoWidget]
  /\ commandlist = <<NULL>>
  /\ heard = NULL
  /\ latest = [m \in Magnets |-> [caption |-> magnet[m].caption, state |-> NULL,
                                  node |-> NULL, pos |-> NULL]]
  /\ clicked = NULL

\* ----------------------------------------------------------------------- lists

\* TCBListControl::setSelectedItem(): selected.set()
setSelectedItem(s, m, iIndex) ==
  LET i == inList(iIndex, Len(s.mag[m].items))
  IN  [setInfo(s, m, "LISTITEMSEL", i) EXCEPT !.mag[m].selected = i]

\* selected.get()
getSelectedItem(s, m) ==
  [s EXCEPT !.mag[m].selected = getInfo(s, m, "LISTITEMSEL", @)]

\* All three end with selected.set( selected.internalGet() ): the place that was
\* last set or read is selected again, wherever the user has gone since.
addItem(s, m, sValue) ==
  LET t == [s EXCEPT !.mag[m].items = Append(@, sValue)]
      i == Len(s.mag[m].items)
  IN  setSelectedItem(setInfo(t, m, "LISTITEMADD", i), m, s.mag[m].selected)

\* A mistake this could have: the selection is left where the toolkit has it.
removeItemOnly(s, m, iIndex) ==
  IF iIndex \notin 0..(Len(s.mag[m].items) - 1) THEN s
  ELSE setInfo([s EXCEPT !.mag[m].items = RemoveAt(@, iIndex + 1)], m, "LISTITEMDEL", iIndex)

removeItem(s, m, iIndex) ==
  LET t == [s EXCEPT !.mag[m].items = RemoveAt(@, iIndex + 1)]
      u == IF iIndex \in 0..(Len(s.mag[m].items) - 1) THEN setInfo(t, m, "LISTITEMDEL", iIndex)
           ELSE s
  IN  setSelectedItem(u, m, s.mag[m].selected)

clearItems(s, m) ==
  setSelectedItem(setInfo([s EXCEPT !.mag[m].items = <<>>], m, "LISTITEMCLR", NULL),
                  m, s.mag[m].selected)

\* ----------------------------------------------------------------------- grids

\* TCBGrid::setSelectedRow() and getSelectedRow()
setSelectedRow(s, m, iIndex) ==
  LET i == IF s.mag[m].data = NULL THEN iIndex ELSE inList(iIndex, Len(s.mag[m].items))
  IN  [setInfo(s, m, "GRIDROWSELECT", i) EXCEPT !.mag[m].selected = i]

getSelectedRow(s, m) ==
  [s EXCEPT !.mag[m].selected = getInfo(s, m, "GRIDROWSELECT", @)]

signalUpdateHeaders(s, m) == setInfo(s, m, "GRIDHEADERSUPDATE", NULL)
signalUpdateAllRows(s, m) == setInfo(s, m, "GRIDFULLUPDATE", NULL)
signalUpdateRow(s, m, i) ==
  [setInfo(s, m, "GRIDROWUPDATE", i) EXCEPT !.mag[m].selected = i]
signalClearAllRows(s, m) == setInfo(s, m, "GRIDCLEAR", NULL)
signalDeleteRow(s, m, i) == setInfo(s, m, "GRIDROWDELETE", i)
signalInsertRow(s, m, i) == setInfo(s, m, "GRIDROWADD", i)

\* ------------------------------------------------------- buttons, bars and trees

setState(s, m, bState) ==
  setInfo([s EXCEPT !.mag[m].state = bState], m, "BUTTONSTATE", bState)

getState(s, m) == [s EXCEPT !.mag[m].state = getInfo(s, m, "BUTTONSTATE", @)]

\* A mistake this could have: a position outside of the bar is taken.
setPosUnbounded(s, m, i) ==
  LET iPos == (100 * (i - s.mag[m].min)) \div (s.mag[m].max - s.mag[m].min)
  IN  setInfo([s EXCEPT !.mag[m].pos = iPos], m, "BARPOSITION", iPos)

\* TCBProgressbar: pos is kept in per cents, cut off.
setPos(s, m, i) ==
  LET iMin == s.mag[m].min
      iMax == s.mag[m].max
      in == IF MaxOf(iMin, i) < iMax THEN MaxOf(iMin, i) ELSE iMax
      iPos == (100 * (in - iMin)) \div (iMax - iMin)
  IN  setInfo([s EXCEPT !.mag[m].pos = iPos], m, "BARPOSITION", iPos)

getPos(s, m) ==
  s.mag[m].min + ((s.mag[m].max - s.mag[m].min) * s.mag[m].pos) \div 100

setMin(s, m, i) == setPos([s EXCEPT !.mag[m].min = i], m, getPos(s, m))
setMax(s, m, i) == setPos([s EXCEPT !.mag[m].max = i], m, getPos(s, m))

setUndetermined(s, m, b) ==
  IF b = s.mag[m].undetermined THEN s
  ELSE setInfo([s EXCEPT !.mag[m].undetermined = b], m, "BARSETUNDETERMINED", b)

\* TCBTree: data.set(), selected.set() and selected.get()
setData(s, m, aNode) == setInfo([s EXCEPT !.mag[m].data = aNode], m, "TREEFULLUPDATE", NULL)

setSelectedNode(s, m, node) ==
  setInfo([s EXCEPT !.mag[m].selected = node], m, "TREESELECT", NULL)

getSelectedNode(s, m) == [s EXCEPT !.mag[m].selected = getInfo(s, m, "TREESELECT", @)]

\* TCBMenu::setChecked() and TCBLabel::setAlignment()
setChecked(s, m, check) ==
  setInfo([s EXCEPT !.mag[m].checked = check], m, "MENUCHECKED", check)

setAlignment(s, m, i) == setInfo([s EXCEPT !.mag[m].alignment = i], m, "ALIGNMENT", i)

\* ------------------------------------------------------------------ the program

OfType(types) == {m \in Magnets : magnet[m].type \in types}
Program == clicked' = NULL /\ UNCHANGED form

SetVisible(m, bVisible) ==
  /\ m \in form.shows
  /\ bVisible # magnet[m].visible
  /\ Becomes(setVisible(S, m, bVisible))
  /\ latest' = [k \in Magnets |-> IF magnet[k].type = "TREE" THEN [latest[k] EXCEPT !.node = NULL]
                                  ELSE latest[k]]

SetCaption(m, v) ==
  /\ m \in form.captions
  /\ Becomes(setCaption(S, m, v))
  /\ latest' = [latest EXCEPT ![m].caption = v]

ReadCaption(m) == m \in form.captions /\ Becomes(getCaption(S, m)) /\ UNCHANGED latest

\* A pop-up button of Cocoa has every title once.
AddItem(m, v) ==
  /\ Len(magnet[m].items) < ListLimit
  /\ toolkit = "Cocoa" /\ magnet[m].type = "COMBOBOX" => v \notin Range(magnet[m].items)
  /\ Becomes(addItem(S, m, v))

UseList(m) ==
  /\ UNCHANGED latest
  /\ \/ \E v \in Texts : AddItem(m, v)
     \/ \E i \in 0..ListLimit : Becomes(removeItem(S, m, i))
     \/ Becomes(clearItems(S, m))
     \/ \E i \in -1..ListLimit : Becomes(setSelectedItem(S, m, i))
     \/ Becomes(getSelectedItem(S, m))

\* The program changes its table and tells the grid: a record at a time, or all
\* at once.
WithTable(m, items) == [S EXCEPT !.mag[m].items = items]

UseGrid(m) ==
  LET items == magnet[m].items
      all(data, rows, headers) ==
        [S EXCEPT !.mag[m].data = data, !.mag[m].items = rows, !.mag[m].headers = headers]
  IN  /\ UNCHANGED latest
      /\ \/ \E rows \in {<<>>} \union {<<a, b>> : a, b \in Records} :
              Becomes(signalUpdateAllRows(all("table", rows, magnet[m].headers), m))
         \/ \E n \in 0..Len(form.columns) :
              /\ n - Len(magnet[m].headers) \in {-1, 1}
              /\ Becomes(signalUpdateAllRows(signalUpdateHeaders(
                           all(magnet[m].data, items, SubSeq(form.columns, 1, n)), m), m))
         \/ /\ magnet[m].data # NULL
            /\ \/ \E i \in 0..Len(items), r \in Records :
                    /\ Len(items) < ListLimit
                    /\ Becomes(signalInsertRow(WithTable(m, InsertAt(items, i + 1, r)), m, i))
               \/ \E i \in 0..(Len(items) - 1), r \in Records :
                    Becomes(signalUpdateRow(WithTable(m, [items EXCEPT ![i + 1] = r]), m, i))
               \/ \E i \in 0..(Len(items) - 1) :
                    Becomes(signalDeleteRow(WithTable(m, RemoveAt(items, i + 1)), m, i))
               \/ Becomes(signalClearAllRows(WithTable(m, <<>>), m))
         \/ \E i \in -1..ListLimit : Becomes(setSelectedRow(S, m, i))
         \/ Becomes(getSelectedRow(S, m))

\* The other radio buttons in the parent of m.
group(m) == {k \in OfType({"RADIOBUTTON"}) \ {m} : magnet[k].parent = magnet[m].parent}

entered(m, bState, out) ==
  [k \in Magnets |-> IF k = m THEN [latest[k] EXCEPT !.state = bState]
                     ELSE IF k \in out THEN [latest[k] EXCEPT !.state = FALSE] ELSE latest[k]]

\* A state that is set before the widget is there does not reach it.  A radio
\* button is only pressed, and Win32 leaves it to the program to let the others
\* out.
SetState(m, bState) ==
  /\ created(S, m)
  /\ magnet[m].type = "RADIOBUTTON" => bState
  /\ Becomes(setState(S, m, bState))
  /\ latest' = entered(m, bState, IF magnet[m].type = "RADIOBUTTON" /\ toolkit = "GTK"
                                  THEN group(m) ELSE {})

ReadState(m) == Becomes(getState(S, m)) /\ UNCHANGED latest

\* A bar has its greatest position above its least.
UseBar(m) ==
  /\ created(S, m)
  /\ \/ \E i \in form.positions : /\ Becomes(setPos(S, m, i))
                                  /\ latest' = [latest EXCEPT ![m].pos = i]
     \/ \E i \in form.least : /\ i < magnet[m].max
                              /\ Becomes(setMin(S, m, i))
                              /\ latest' = [latest EXCEPT ![m].pos = NULL]
     \/ \E i \in form.most : /\ i > magnet[m].min
                             /\ Becomes(setMax(S, m, i))
                             /\ latest' = [latest EXCEPT ![m].pos = NULL]
     \/ \E b \in BOOLEAN : Becomes(setUndetermined(S, m, b)) /\ UNCHANGED latest

UseTree(m) ==
  \/ \E nodes \in Trees \union {NULL} :
       /\ Becomes(setData(S, m, nodes))
       /\ latest' = [latest EXCEPT ![m].node = NULL]
  \/ /\ magnet[m].data # NULL
     /\ \E node \in magnet[m].data : Becomes(setSelectedNode(S, m, node))
     /\ UNCHANGED latest
  \/ Becomes(getSelectedNode(S, m)) /\ UNCHANGED latest

SetChecked(m, check) ==
  m \in form.checks /\ Becomes(setChecked(S, m, check)) /\ UNCHANGED latest

SetAlignment(m, i) ==
  /\ toolkit = "GTK"
  /\ Becomes(setAlignment(S, m, i))
  /\ UNCHANGED latest

ProgramStep ==
  /\ Program
  /\ \/ \E m \in Magnets, b \in BOOLEAN : SetVisible(m, b)
     \/ \E m \in Magnets, v \in Texts : SetCaption(m, v)
     \/ \E m \in Magnets : ReadCaption(m)
     \/ \E m \in OfType(ListTypes) : UseList(m)
     \/ \E m \in OfType({"GRID"}) : UseGrid(m)
     \/ \E m \in OfType({"CHECKBOX", "RADIOBUTTON"}), b \in BOOLEAN : SetState(m, b)
     \/ \E m \in OfType({"CHECKBOX", "RADIOBUTTON"}) : ReadState(m)
     \/ \E m \in OfType({"PROGRESSBAR"}) : UseBar(m)
     \/ \E m \in OfType({"TREE"}) : UseTree(m)
     \/ \E m \in Magnets, b \in BOOLEAN : SetChecked(m, b)
     \/ \E m \in OfType({"LABEL"}), i \in {"LEFT", "RIGHT"} : SetAlignment(m, i)

\* --------------------------------------------------------------------- the user

\* A row of a list or grid; in a combo box that is a click.
SelectRow(m, i) ==
  LET t == [S EXCEPT !.tk[m].cursor = i]
      click == magnet[m].type = "COMBOBOX"
  IN  /\ i \in 0..(Len(widget[m].rows) - 1)
      /\ i # widget[m].cursor
      /\ Becomes(IF click THEN [t EXCEPT !.heard = m] ELSE t)
      /\ clicked' = IF click THEN m ELSE NULL
      /\ UNCHANGED latest

Type(m, v) ==
  /\ Becomes([S EXCEPT !.tk[m].text = v])
  /\ clicked' = NULL
  /\ latest' = [latest EXCEPT ![m].caption = v]

SelectNode(m, node) ==
  /\ Becomes([S EXCEPT !.tk[m].node = node])
  /\ clicked' = NULL
  /\ latest' = [latest EXCEPT ![m].node = node]

\* The toolkit changes the mark of a check box or lets the other radio buttons
\* out, and its signal, message or event executes the onClick of a magnet.
Press(m) ==
  LET type == magnet[m].type
      v == IF type = "RADIOBUTTON" THEN TRUE ELSE type = "CHECKBOX" /\ ~widget[m].active
      out == IF type = "RADIOBUTTON" THEN group(m) ELSE {}
      t == [S EXCEPT !.tk = [k \in Magnets |-> IF k = m THEN [@[k] EXCEPT !.active = v]
                                               ELSE IF k \in out /\ created(S, k)
                                                    THEN [@[k] EXCEPT !.active = FALSE] ELSE @[k]]]
  IN  /\ Becomes(CASE toolkit = "GTK" -> G!ClickEvent(t, m)
                   [] toolkit = "Win32" -> [t EXCEPT !.heard = W!commandReceiver(t, m)]
                   [] toolkit = "Cocoa" -> [t EXCEPT !.heard = C!eventReceiver(t, m)])
      /\ clicked' = m
      /\ latest' = IF type = "BUTTON" THEN latest ELSE entered(m, v, out)

\* The menu that pops up over m is built, if it is not there yet.
Popup(m) ==
  /\ popupMenu(S, m) # NULL
  /\ Becomes(CASE toolkit = "GTK" -> G!PopupEvent(S, m)
               [] toolkit = "Win32" -> W!ContextMenu(S, m)
               [] toolkit = "Cocoa" -> S)
  /\ clicked' = NULL
  /\ UNCHANGED latest

ClickMenu(m) ==
  LET t == [S EXCEPT !.tk[m].active = ~@]
  IN  /\ created(S, m)
      /\ widget[m].kind \in {"check", "item"}
      /\ children(S, m) = <<>> /\ magnet[m].caption # "-"
      /\ Becomes(CASE toolkit = "GTK" -> G!MenuClickEvent(t, m)
                   [] toolkit = "Win32" -> [S EXCEPT !.heard = W!commandReceiver(S, m)]
                   [] toolkit = "Cocoa" -> [S EXCEPT !.heard = C!eventReceiver(S, m)])
      /\ clicked' = m
      /\ UNCHANGED latest

UserStep ==
  /\ UNCHANGED form
  /\ \/ \E m \in OfType({"MENU"}) : ClickMenu(m)
     \/ \E m \in Magnets :
          /\ Displayed(m)
          /\ \/ magnet[m].type \in ListTypes \union {"GRID"} /\ \E i \in 0..ListLimit : SelectRow(m, i)
             \/ magnet[m].type \in TextTypes /\ \E v \in Texts : Type(m, v)
             \/ magnet[m].type = "TREE" /\ \E node \in widget[m].tree : SelectNode(m, node)
             \/ magnet[m].type \in {"BUTTON", "CHECKBOX", "RADIOBUTTON"} /\ Press(m)
             \/ Popup(m)

ControlsNext == ProgramStep \/ UserStep

ControlsSpec == ControlsInit /\ [][ControlsNext]_vars

\* ------------------------------------------------------------------- properties

\* The rows a table has in a grid: GTK's store has whole records, the others the
\* texts below the headers, and Win32 no rows without a first column.
rowsOf(m) ==
  LET g == magnet[m]
  IN  CASE toolkit = "GTK" -> g.items
        [] toolkit = "Win32" /\ g.headers = <<>> -> <<>>
        [] OTHER -> [i \in DOMAIN g.items |-> [j \in DOMAIN g.headers |-> g.items[i][g.headers[j]]]]

\* After any sequence of calls, made while the control was shown, hidden or not
\* there yet: what a control shows is what the program's side of it holds - the
\* items of a list, the columns and records of a table, the nodes of a tree, the
\* captions, alignments, marks of menu items and the fraction of a bar.
ViewMirrorsModel ==
  \A m \in Magnets :
     LET g == magnet[m]
         w == widget[m]
     IN  /\ Displayed(m) =>
              /\ g.type \in ListTypes => w.rows = g.items
              /\ g.type = "GRID" /\ g.data # NULL => w.rows = rowsOf(m) /\ w.cols = g.headers
              /\ g.type = "TREE" => w.tree = IF g.data = NULL THEN {} ELSE g.data
              /\ g.type \in {"LABEL", "BUTTON", "WINDOW", "GROUPBOX"} => w.text = g.caption
              /\ g.type = "LABEL" /\ toolkit = "GTK" => w.align = g.alignment
              /\ g.type = "PROGRESSBAR" => w.bar = g.pos
         /\ created(S, m) /\ w.kind = "check" /\ g.type = "MENU" /\ toolkit = "GTK" =>
              w.active = g.checked

\* A program that adds or removes an item or record or selects one finds selected
\* in the list what its side says, whatever the user had selected and whichever
\* rows moved, and nothing when there is no row.
SelectionFollows ==
  [][\A m \in OfType(ListTypes) :
       /\ widget'[m] # NoWidget /\ Displayed(m)'
       /\ magnet'[m].items # magnet[m].items \/ magnet'[m].selected # magnet[m].selected
       => widget'[m].cursor = IF magnet'[m].items = <<>> THEN -1 ELSE magnet'[m].selected]_vars

\* Reading gives what was set or entered last: a caption the program set or the
\* user typed, a state the program set or the user pressed, the node the user
\* selected, a position up to the one that is lost in cutting.  Cocoa is not
\* asked for states and nodes; GTK does not know the root, nor a node behind a
\* child that is not there.
ReadsBack ==
  \A m \in Magnets :
     LET g == magnet[m]
         data == g.data
         whole == \A p \in data : p # <<>> =>
                    \A i \in 0..p[Len(p)] : [p EXCEPT ![Len(p)] = i] \in data
     IN  /\ m \in form.captions => getCaption(S, m).mag[m].caption = latest[m].caption
         /\ latest[m].state # NULL /\ toolkit # "Cocoa" =>
              getState(S, m).mag[m].state = latest[m].state
         /\ latest[m].node # NULL /\ (toolkit = "GTK" => whole /\ latest[m].node # <<>>)
              /\ toolkit # "Cocoa" => getSelectedNode(S, m).mag[m].selected = latest[m].node
         /\ g.type = "PROGRESSBAR" =>
              /\ getPos(S, m) \in g.min..g.max
              /\ latest[m].pos # NULL /\ latest[m].pos \in g.min..g.max =>
                   getPos(S, m) \in {latest[m].pos - 1, latest[m].pos}

\* What the user clicks is what hears it: a button, a list that drops down, or an
\* item of a menu of a window or control, in whatever order menus were built and
\* numbered.  The button of a message box that is pressed is its answer.
ClickReaches ==
  /\ clicked # NULL => heard = clicked
  /\ \A type \in {"OK", "OKCANCEL", "YESNO", "YESNOCANCEL"} :
       /\ \A n \in DOMAIN C!messageButtons(type) :
            C!messagebox(type, n) = C!messageButtons(type)[n]
       /\ \A b \in G!messageButtons(type) : G!messagebox(b) = b
       /\ \A b \in W!messageButtons(type) : W!messagebox(b) = b

=============================================================================
