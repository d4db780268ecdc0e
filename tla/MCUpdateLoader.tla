--------------------------- MODULE MCUpdateLoader ---------------------------
(***************************************************************************)
(* UpdateLoader for TLC: a long, a short and a broken image, and an empty one. *)
(***************************************************************************)
EXTENDS UpdateLoader

MCGood == {"long", "short"}
MCImages == {"long", "short", "broken", "empty"}
MCSize == [long |-> 6, short |-> 2, broken |-> 4, empty |-> 0]
=============================================================================
