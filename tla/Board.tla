-------------------------------- MODULE Board --------------------------------
(***************************************************************************)
(* What a magnet does with its driver (TCBMagnet and TCBCollector in        *)
(* CBBase.cpp): every call of the program on a magnet comes to calls of the *)
(* driver of the screen the magnet is on, and to onShow and onHide.  The    *)
(* variables are the parts of the state the operators of Magnets work on.   *)
(***************************************************************************)
EXTENDS Magnets

CONSTANTS ScreenSize,   \* <<width, height>> of the monitor
          MenuHeight,   \* what a menu bar takes of a window of GTK
          TabStrip      \* what the titles of the tabs take of a notebook of Win32

VARIABLES toolkit,      \* the driver the screen has been given
          magnet,       \* every magnet the program has made
          widget,       \* what the toolkit has made of it
          commandlist,  \* CBGlobalDriver->commandlist of Win32
          heard         \* the magnet whose onClick was executed last

G == INSTANCE DriverGTK
W == INSTANCE DriverWin32
C == INSTANCE DriverCocoa

boardVars == <<toolkit, magnet, widget, commandlist, heard>>

S == [on |-> toolkit, mag |-> magnet, tk |-> widget, cmds |-> commandlist, heard |-> heard]

\* The state is now s.
Becomes(s) ==
  /\ toolkit' = s.on
  /\ magnet' = s.mag
  /\ widget' = s.tk
  /\ commandlist' = s.cmds
  /\ heard' = s.heard

Magnets == DOMAIN magnet

\* Whether the user sees the widget of m.
RECURSIVE Displayed(_)
Displayed(m) ==
  LET w == widget[m]
  IN  /\ w # NoWidget
      /\ w.shown
      /\ IF w.in = NULL THEN w.kind = "window" ELSE Displayed(w.in)
      /\ w.kind = "page" /\ toolkit # "Win32" =>
           /\ widget[w.in].cursor >= 0
           /\ widget[w.in].rows[widget[w.in].cursor + 1] = m

\* ------------------------------------------------------------------ the driver

show_magnet(s, m) ==
  CASE s.on = "GTK" -> G!show_magnet(s, m)
    [] s.on = "Win32" -> W!show_magnet(s, m)
    [] s.on = "Cocoa" -> C!show_magnet(s, m)

hide_magnet(s, m) ==
  CASE s.on = "GTK" -> G!hide_magnet(s, m)
    [] s.on = "Win32" -> W!hide_magnet(s, m)
    [] s.on = "Cocoa" -> C!hide_magnet(s, m)

setinfo_magnet(s, m, what, v) ==
  CASE s.on = "GTK" -> G!setinfo_magnet(s, m, what, v)
    [] s.on = "Win32" -> W!setinfo_magnet(s, m, what, v)
    [] s.on = "Cocoa" -> C!setinfo_magnet(s, m, what, v)

getinfo_magnet(s, m, what, v) ==
  CASE s.on = "GTK" -> G!getinfo_magnet(s, m, what, v)
    [] s.on = "Win32" -> W!getinfo_magnet(s, m, what, v)
    [] s.on = "Cocoa" -> C!getinfo_magnet(s, m, what, v)

setInfo(s, m, what, v) ==
  IF getDriver(s, m) = NULL THEN s ELSE setinfo_magnet(s, m, what, v)

getInfo(s, m, what, v) ==
  IF getDriver(s, m) = NULL THEN v ELSE getinfo_magnet(s, m, what, v)

\* ------------------------------------------------------------------ visibility

present(list) == SelectSeq(list, LAMBDA k : k # NULL)

told(s, m, bVisible) ==
  [s EXCEPT !.mag[m].told = IF bVisible THEN "onShow" ELSE "onHide"]

RECURSIVE parentVisibilityChange(_, _, _)

\* What both of TCBCollector do when the collector has been shown or hidden: those
\* in it follow, then onShow or onHide is executed.
contentsFollow(s, m, bVisible) ==
  LET tell(t, k) == parentVisibilityChange(t, k, bVisible)
      list == IF s.mag[m].type \in Collectors THEN present(children(s, m)) ELSE <<>>
  IN  told(FoldLeft(tell, s, list), m, bVisible)

\* TCBMagnet and TCBCollector::parentVisibilityChange(): a magnet that is not
\* visible itself has nothing to do, nor have those in it.
parentVisibilityChange(s, m, bParentActuallyVisible) ==
  IF getDriver(s, m) = NULL \/ ~s.mag[m].visible THEN s
  ELSE contentsFollow(IF bParentActuallyVisible THEN show_magnet(s, m) ELSE hide_magnet(s, m),
                      m, bParentActuallyVisible)

\* TCBMagnet and TCBCollector::selfVisibilityChange()
selfVisibilityChange(s, m) ==
  IF getDriver(s, m) = NULL THEN s
  ELSE contentsFollow(IF s.mag[m].visible THEN show_magnet(s, m) ELSE hide_magnet(s, m),
                      m, s.mag[m].visible)

\* A mistake this could have: the parent is not asked whether it is seen.
setVisibleUnasked(s, m, bVisible) ==
  IF bVisible = s.mag[m].visible THEN s
  ELSE selfVisibilityChange([s EXCEPT !.mag[m].visible = bVisible], m)

\* visible.set()
setVisible(s, m, bVisible) ==
  LET p == s.mag[m].parent
      t == [s EXCEPT !.mag[m].visible = bVisible]
      asked == IF p = NULL THEN t ELSE pagesRead(t, p)
  IN  IF bVisible = s.mag[m].visible THEN s
      ELSE IF p = NULL \/ isActuallyVisible(t, p) THEN selfVisibilityChange(asked, m) ELSE asked

\* A mistake this could have: the page that was on top stays.
pageStays(s, nb, iOldSelection) == s

\* changeNotebookTab() of Win32, when the user has selected another page: the
\* page that was on top is hidden as if it was made invisible.
pageHidden(s, nb, iOldSelection) ==
  LET oldTab == children(s, nb)[iOldSelection + 1]
  IN  IF iOldSelection = -1 THEN s
      ELSE [selfVisibilityChange([s EXCEPT !.mag[oldTab].visible = FALSE], oldTab)
              EXCEPT !.mag[oldTab].visible = TRUE]

changeNotebookTab(s, nb) ==
  LET iNewSelection == s.tk[nb].cursor
      newTab == children(s, nb)[iNewSelection + 1]
      t == pageHidden(s, nb, s.mag[nb].selected)
  IN  IF iNewSelection = -1 THEN t ELSE selfVisibilityChange(t, newTab)

\* ------------------------------------------------------ captions and positions

\* caption.set() and caption.get()
setCaption(s, m, sCaption) ==
  LET t == IF created(s, m) THEN setInfo(s, m, "EDITTEXT", sCaption) ELSE s
  IN  [t EXCEPT !.mag[m].caption = sCaption]

getCaption(s, m) ==
  IF created(s, m)
  THEN [s EXCEPT !.mag[m].caption = getInfo(s, m, "EDITTEXT", s.mag[m].caption)] ELSE s

update(s, m) == setInfo(s, m, "REPOSITION", NULL)

\* selected.set() and selected.get() of a notebook
setSelectedTab(s, nb, iIndex) ==
  LET i == inList(iIndex, Len(children(s, nb)))
  IN  [setInfo(s, nb, "NOTEBOOKTABSELECT", i) EXCEPT !.mag[nb].selected = i]

=============================================================================
