----------------------------- MODULE MCChalkboard -----------------------------
(***************************************************************************)
(* Three forms: panels in a window, a window whose contents are stretched,  *)
(* and a window with a notebook.                                            *)
(***************************************************************************)
EXTENDS Chalkboard

Everywhere == {"GTK", "Win32", "Cocoa"}

\* The magnets of a form, put together by the program: `tree` is a sequence of
\* <<name, parent, magnet>>, parents first.
Built(tree) ==
  LET made == [m \in {tree[i][1] : i \in DOMAIN tree} |->
                 tree[CHOOSE i \in DOMAIN tree : tree[i][1] = m][3]]
      attach(s, row) == setParent(s, row[1], row[2])
  IN  FoldLeft(attach, [mag |-> made], tree).mag

At(type, x, y, w, h) == TCBMagnet(type, x, y, w, h)

Panels ==
  [magnets |-> Built(<< <<"screen", NULL, At("SCREEN", 0, 0, 0, 0)>>,
                        <<"window", "screen", At("WINDOW", CenterOfScreen, 10, 100, 80)>>,
                        <<"panel", "window", At("PANEL", 1, 2, 50, 40)>>,
                        <<"inner", "panel", At("PANEL", 1, 2, 40, 30)>>,
                        <<"label", "inner", At("LABEL", 3, 4, 20, 10)>>,
                        <<"button", NULL, At("BUTTON", 5, 6, 20, 10)>> >>),
   toolkits |-> Everywhere, shows |-> {"screen", "window", "panel", "inner", "label", "button"},
   moves |-> {"button"}, updates |-> {}, sizes |-> {}]

Layout ==
  [magnets |-> Built(<< <<"screen", NULL, At("SCREEN", 0, 0, 0, 0)>>,
                        <<"window", "screen", At("WINDOW", 10, 10, 100, 80)>>,
                        <<"label", "window", At("LABEL", 3, 4, 20, 10)>>,
                        <<"group", "window", At("GROUPBOX", 4, 20, -4, -4)>>,
                        <<"edit", "group", At("EDITBOX", 2, 2, -6, 10)>>,
                        <<"list", "group", At("LISTBOX", 2, 14, 30, -3)>> >>),
   toolkits |-> Everywhere, shows |-> {"screen", "window", "group"},
   moves |-> {}, updates |-> {"window", "label"}, sizes |-> {<<150, 90>>, <<120, 200>>}]

Pages ==
  [magnets |-> Built(<< <<"screen", NULL, At("SCREEN", 0, 0, 0, 0)>>,
                        <<"window", "screen", At("WINDOW", 10, 10, 100, 80)>>,
                        <<"book", "window", At("NOTEBOOK", 3, 4, 90, 70)>>,
                        <<"first", "book", At("NOTEBOOKTAB", 0, 0, 0, 0)>>,
                        <<"button", "first", At("BUTTON", 2, 2, 30, 10)>>,
                        <<"second", "book", At("NOTEBOOKTAB", 0, 0, 0, 0)>>,
                        <<"label", "second", At("LABEL", 2, 14, 30, 10)>>,
                        <<"third", "book", At("NOTEBOOKTAB", 0, 0, 0, 0)>> >>),
   toolkits |-> {"GTK", "Win32"}, shows |-> {"screen", "window", "first", "second", "label"},
   moves |-> {}, updates |-> {}, sizes |-> {}]

TheForms == {Panels, Layout, Pages}
Screen == <<1024, 768>>

=============================================================================
