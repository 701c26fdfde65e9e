------------------------------ MODULE MCEditor ------------------------------
(***************************************************************************)
(* Model values for the runs of Editor.  One character is enough: no       *)
(* handler looks at what is typed, and texts of different lengths differ.  *)
(***************************************************************************)
EXTENDS Editor

CONSTANT a
OneChar == {a}
=============================================================================
