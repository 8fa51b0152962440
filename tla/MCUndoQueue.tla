---------------------------- MODULE MCUndoQueue -----------------------------
(* The overview of the checked instance of UndoQueue: three lists.         *)
EXTENDS UndoQueue

MCOrder == <<"bakery", "market", "party">>
=============================================================================
