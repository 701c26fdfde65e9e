------------------------------ MODULE MCScreen ------------------------------
(***************************************************************************)
(* Rows of three columns, texts that end before, on and after the last     *)
(* column of two rows, six keys in two lines, three of them unanswered.    *)
(***************************************************************************)
EXTENDS Screen

MCRecalled == {1, 3, 4}

=============================================================================
