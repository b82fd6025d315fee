---------------------------- MODULE MCEditorSaves ----------------------------
(* A small instance of EditorSaves for TLC: two text objects, two edits.     *)
(* There is no symmetry, because EditsArrive is a liveness property.         *)
EXTENDS EditorSaves

CONSTANTS a, b, s1, s2

TwoObjects == {a, b}
TwoSlots == {s1, s2}
=============================================================================
