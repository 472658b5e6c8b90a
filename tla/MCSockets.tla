----------------------------- MODULE MCSockets -----------------------------
(***************************************************************************)
(* Sockets, model-checked: a message that ends with a piece that is not    *)
(* full and one that ends with an empty piece, room for less than two      *)
(* pieces, so that writes are short, and a client that connects again in   *)
(* the middle of a message.                                                *)
(***************************************************************************)
EXTENDS Sockets

CONSTANTS Longer       \* the message that is one unit longer than a piece

ASSUME Longer \in Messages

MCLength ==
  [m \in Messages |-> IF m = Longer THEN autosplit_size + 1 ELSE autosplit_size]
=============================================================================
