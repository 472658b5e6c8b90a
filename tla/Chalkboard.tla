------------------------------ MODULE Chalkboard ------------------------------
(***************************************************************************)
(* Windows and what is in them: a program that shows, hides, attaches and   *)
(* repositions its magnets (CBBase.cpp, the notebook of CBControls.cpp) and *)
(* a user who closes and resizes windows and turns the pages of notebooks,  *)
(* through each of the three drivers.                                       *)
(***************************************************************************)
EXTENDS Board

CONSTANTS Forms,        \* the windows a program may have, each with what is done with it
          ListLimit,    \* the length of a list (its holes included) that can grow here
          WindowLimit   \* the width of a window that update() lets grow here

VARIABLES form,         \* the one it has
          \* History, for the properties:
          unheard,      \* the magnets last set below a page that was not on top
          misnumbered,  \* the notebooks whose tabs have had other numbers than their pages
          late          \* what was made in a parent the user has resized, not stretched since

vars == <<boardVars, form, unheard, misnumbered, late>>

\* A form is the magnets as the program has put them together before the screen
\* is shown, the toolkits, and what the program (shows, moves, updates) and the
\* user (sizes) do with them.
ChalkboardInit ==
  /\ form \in Forms
  /\ toolkit \in form.toolkits
  /\ magnet = form.magnets
  /\ widget = [m \in Magnets |-> NoWidget]
  /\ commandlist = <<NULL>>
  /\ heard = NULL
  /\ unheard = {} /\ misnumbered = {} /\ late = {}

\* ------------------------------------------------------------------ the program

\* Whether m is on a page that is not on top.
RECURSIVE onHiddenPage(_)
onHiddenPage(m) ==
  /\ m # NULL
  /\ \/ magnet[m].type = "NOTEBOOKTAB" /\ ~isSelected(S, m)
     \/ onHiddenPage(magnet[m].parent)

SetVisible(m, bVisible) ==
  LET p == magnet[m].parent
  IN  /\ m \in form.shows
      /\ bVisible # magnet[m].visible
      /\ Becomes(setVisible(S, m, bVisible))
      /\ unheard' = IF p = NULL \/ isActuallyVisible(S, p) THEN unheard \ {m}
                    ELSE IF onHiddenPage(p) THEN unheard \union {m} ELSE unheard

\* The program attaches what it has not shown yet, and not below what is seen.
SetParent(m, c) ==
  /\ m \in form.moves
  /\ c # magnet[m].parent
  /\ ~created(S, m)
  /\ c # NULL => /\ magnet[c].type \in {"WINDOW", "PANEL"}
                 /\ ~isActuallyVisible(S, c)
                 /\ Len(children(S, c)) < ListLimit
  /\ Becomes(setParent(S, m, c))
  /\ UNCHANGED unheard

\* update() of a magnet the program has given its own place and size.
Update(m) ==
  /\ m \in form.updates
  /\ magnet[m].w < WindowLimit
  /\ Becomes(update(S, m))
  /\ UNCHANGED unheard

\* Win32 does not show the page the program selects: it selects one before the
\* notebook is shown.
SetSelectedTab(nb, i) ==
  /\ magnet[nb].type = "NOTEBOOK"
  /\ toolkit = "Win32" => ~isActuallyVisible(S, nb)
  /\ Becomes(setSelectedTab(S, nb, i))
  /\ UNCHANGED unheard

\* --------------------------------------------------------------------- the user

\* The window is closed: only Win32 leaves it where it is.
CloseWindow(m) ==
  /\ magnet[m].type = "WINDOW"
  /\ Displayed(m)
  /\ LET t == told(S, m, FALSE)
     IN  Becomes(IF toolkit = "Win32" THEN t ELSE Hide(t, m))
  /\ UNCHANGED unheard

ResizeWindow(m, size) ==
  /\ magnet[m].type = "WINDOW"
  /\ Displayed(m)
  /\ size # widget[m].size
  /\ Becomes(CASE toolkit = "GTK" -> G!ConfigureEvent(S, m, size)
               [] toolkit = "Win32" -> W!WindowPosChanged(S, m, widget[m].at, size)
               [] toolkit = "Cocoa" -> C!WindowResizeEvent(S, m, size))
  /\ UNCHANGED unheard

\* GTK takes the title of a page that is hidden away, Win32 does not.
ClickTab(nb, i) ==
  LET t == [S EXCEPT !.tk[nb].cursor = i]
  IN  /\ magnet[nb].type = "NOTEBOOK"
      /\ Displayed(nb)
      /\ i \in 0..(Len(widget[nb].rows) - 1)
      /\ i # widget[nb].cursor
      /\ toolkit = "GTK" => widget[widget[nb].rows[i + 1]].shown
      /\ Becomes(IF toolkit = "Win32" THEN changeNotebookTab(t, nb) ELSE t)
      /\ UNCHANGED unheard

\* The tabs of a notebook are the first pages of its widget, in their order.
numbered(nb) == created(S, nb) => IsPrefix(widget[nb].rows, children(S, nb))

\* The driver of GTK measures a parent by the size it asked for.
wrongSize(p) == toolkit = "GTK" /\ widget[p].size # widget[p].request

\* What the properties have to know of the past.
History ==
  /\ misnumbered' =
       misnumbered \union {nb \in Magnets : magnet[nb].type = "NOTEBOOK" /\ ~numbered(nb)'}
  /\ late' = {m \in Magnets :
                /\ stretches(magnet[m]) /\ created(S, m)' /\ magnet[m].parent # NULL
                /\ \/ m \in late /\ UNCHANGED widget[magnet[m].parent].size
                   \/ ~created(S, m) /\ created(S, magnet[m].parent) /\ wrongSize(magnet[m].parent)}

ChalkboardNext ==
  /\ UNCHANGED form
  /\ \/ \E m \in Magnets, bVisible \in BOOLEAN : SetVisible(m, bVisible)
     \/ \E m \in Magnets, c \in Magnets \union {NULL} : SetParent(m, c)
     \/ \E m \in Magnets : Update(m)
     \/ \E nb \in Magnets, i \in -1..3 : SetSelectedTab(nb, i)
     \/ \E m \in Magnets : CloseWindow(m)
     \/ \E m \in Magnets, size \in form.sizes : ResizeWindow(m, size)
     \/ \E nb \in Magnets, i \in 0..3 : ClickTab(nb, i)
  /\ History

ChalkboardSpec == ChalkboardInit /\ [][ChalkboardNext]_vars

\* ------------------------------------------------------------------- properties

closed(m) == getWindow(S, m) # NULL /\ magnet[getWindow(S, m)].told = "onHide"

inSight(m) == getDriver(S, m) # NULL /\ isActuallyVisible(S, m)

\* Whether m is in a magnet of `set`, or one itself.
RECURSIVE within(_, _)
within(m, set) == m # NULL /\ (m \in set \/ within(magnet[m].parent, set))

\* The user sees the widgets of the magnets of which isActuallyVisible() says that
\* they are visible, and no others.  Not in a notebook that once took the page of
\* one tab for that of another; with GTK, which has no handler for another
\* page on top, not of what was set while its page was below, which no driver was
\* told of.  A window the user has closed is gone with GTK and Cocoa, of which
\* `visible` knows nothing; Cocoa shows what is hidden.
DisplayIsVisibility ==
  \A m \in Magnets :
     magnet[m].type # "SCREEN" /\ ~within(m, misnumbered) =>
       CASE toolkit = "GTK" -> within(m, unheard) \/ (Displayed(m) <=> inSight(m) /\ ~closed(m))
         [] toolkit = "Win32" -> Displayed(m) <=> inSight(m)
         [] toolkit = "Cocoa" -> inSight(m) /\ ~closed(m) => Displayed(m)

tabs == {m \in Magnets : magnet[m].type = "NOTEBOOKTAB"}

\* The onShow and onHide of a magnet have told the program what is so: the last
\* one that was executed is onShow just when the magnet is actually visible.  A
\* page and what is on it are told of their notebook's, a window of the user's
\* close.
ToldWhatIsSo ==
  \A m \in Magnets :
     magnet[m].told # "nothing" /\ ~within(m, tabs) /\ ~closed(m) =>
        (magnet[m].told = "onShow" <=> inSight(m))

\* What isActuallyVisible() says of a magnet is what the user sees and what the
\* program was told, however it shows, hides, attaches and turns magnets, and
\* whatever the user closes and turns, but for what is named above.
VisibilityIsSo == DisplayIsVisibility /\ ToldWhatIsSo

\* setParent() takes a magnet out of one list and into another, leaving a hole:
\* a magnet is once in the list of its parent, and in no other.
TreeIsSound ==
  \A m, c \in Magnets :
     Len(SelectSeq(children(S, c), LAMBDA k : k = m)) = IF magnet[m].parent = c THEN 1 ELSE 0

\* What a stretched magnet leaves free of its parent to the right and below.
Margin(m) ==
  LET w == widget[m]
      free(k) == widget[magnet[m].parent].size[k] - w.at[k] - w.size[k]
  IN  <<IF magnet[m].w <= 0 THEN free(1) ELSE 0, IF magnet[m].h <= 0 THEN free(2) ELSE 0>>

\* A magnet whose width or height is not positive keeps its distance to the
\* right or lower edge of what it is in, through every resize of the window and
\* whatever it is nested in.  With GTK one that is shown first after its window
\* was resized gets there with the next resize only.
MarginsKept ==
  [][\A m \in Magnets :
       created(S, m) /\ magnet[m].type \notin {"WINDOW", "NOTEBOOKTAB"} /\ m \notin late =>
          Margin(m)' = Margin(m)]_vars

=============================================================================
