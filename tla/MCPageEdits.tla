---------------------------- MODULE MCPageEdits ----------------------------
(* A small instance of PageEdits for TLC.                                   *)
EXTENDS PageEdits, MCPageEditing
=============================================================================
