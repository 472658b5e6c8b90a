------------------------------ MODULE MCControls ------------------------------
(***************************************************************************)
(* One form for each kind of control: a window with that control.           *)
(***************************************************************************)
EXTENDS Controls

Everywhere == {"GTK", "Win32", "Cocoa"}

\* The magnets of a form, put together by the program: `tree` is a sequence of
\* <<name, parent, magnet>>, parents first.
Built(tree) ==
  LET made == [m \in {tree[i][1] : i \in DOMAIN tree} |->
                 tree[CHOOSE i \in DOMAIN tree : tree[i][1] = m][3]]
      attach(s, row) == setParent(s, row[1], row[2])
  IN  FoldLeft(attach, [mag |-> made], tree).mag

A(type) == TCBMagnet(type, 2, 2, 30, 10)
Item(caption) == [A("MENU") EXCEPT !.caption = caption]
WithMenu(type, menu, context) ==
  [A(type) EXCEPT !.menu = menu, !.shouldShowContextMenu = context]

Frame(window) == << <<"screen", NULL, A("SCREEN")>>, <<"window", "screen", window>> >>

Form(tree, shows) ==
  [magnets |-> Built(tree), toolkits |-> Everywhere, shows |-> {"screen"} \union shows,
   captions |-> {}, checks |-> {}, columns |-> <<2, 1>>,
   positions |-> {}, least |-> {}, most |-> {}]

In(m) == Frame(A("WINDOW")) \o << <<"control", "window", m>> >>

Lists == {Form(In(A(type)), {"control"}) : type \in ListTypes}
Grid == Form(In(A("GRID")), {"control"})
Tree == Form(In(A("TREE")), {"control"})
Bar == [Form(In(A("PROGRESSBAR")), {}) EXCEPT
          !.positions = {0, 5, 12, 40}, !.least = {0, 10}, !.most = {16, 40, 100}]
Captions == {[Form(In(A(type)), {"control"}) EXCEPT !.captions = {"control", "window"}] :
               type \in {"LABEL", "EDITBOX", "MULTILINE", "BUTTON", "GROUPBOX"}}
Buttons == Form(Frame(A("WINDOW")) \o << <<"first", "window", A("RADIOBUTTON")>>,
                                         <<"second", "window", A("RADIOBUTTON")>>,
                                         <<"check", "window", A("CHECKBOX")>> >>, {"second"})
Menus ==
  [Form(Frame(WithMenu("WINDOW", "main", FALSE)) \o
        << <<"main", "window", Item("")>>, <<"file", "main", Item("File")>>,
           <<"open", "file", Item("Open")>>, <<"line", "file", Item("-")>>,
           <<"close", "file", Item("Close")>>, <<"help", "main", Item("Help")>>,
           <<"list", "window", WithMenu("LISTBOX", "popup", TRUE)>>,
           <<"popup", "window", Item("")>>, <<"cut", "popup", Item("Cut")>>,
           <<"paste", "popup", Item("Paste")>> >>, {})
   EXCEPT !.checks = {"open", "paste"}]

Text(context) == [WithMenu("MULTILINE", "popup", context) EXCEPT !.defaultmenu = "edit"]
Popups(context) ==
  Form(In(Text(context)) \o
       << <<"edit", "window", Item("")>>, <<"copy", "edit", Item("Copy")>>,
          <<"line", "edit", Item("-")>>, <<"select", "edit", Item("Select All")>>,
          <<"popup", "window", Item("")>>, <<"find", "popup", Item("Find")>> >>, {"control"})

TheForms == Lists \union Captions \union {Grid, Tree, Bar, Buttons, Menus}
              \union {Popups(context) : context \in BOOLEAN}
Screen == <<1024, 768>>
TheTexts == {"a", "b"}
TheRecords == {<<"a", "x">>, <<"b", "x">>}
TheTrees == {{<<>>}, {<<>>, <<0>>, <<1>>}, {<<>>, <<1>>, <<1, 0>>}}

=============================================================================
