----------------------------- MODULE MCSquirrel -----------------------------
(***************************************************************************)
(* Squirrel, model-checked: a name that another starts with, used in       *)
(* either order, a value to be quoted and one that is not.                 *)
(***************************************************************************)
EXTENDS Squirrel

MCNames   == {<<"a">>, <<"a", "b">>}
MCQueries == {<<":", "a", "b", "=", ":", "a">>}
MCValues  ==
  [name \in MCNames |-> IF Len(name) = 1 THEN {[type |-> "int", text |-> <<"7">>]}
                        ELSE {[type |-> "string", text |-> <<"'", ":">>]}]
=============================================================================
