------------------------------ MODULE MCParser ------------------------------
(***************************************************************************)
(* The lines the runs of Parser enumerate.                                 *)
(***************************************************************************)
EXTENDS Parser

\* Three of the token types stand for their kind in the longer lines: one of
\* the angles is like another to the parser.
Alphabet == {"WORD", "PIPE", "SEMICOLON", "AMP", "ANGLE_BRACKET_R", "EXCLAM"}
LinesUpTo(n, types) == UNION {[1 .. k -> types] : k \in 0 .. n}

\* Every line of at most five tokens.
AllLines == LinesUpTo(5, Alphabet)

\* Longer lines of a few types, in which the arrays are grown more than once.
MoreLines ==
    AllLines \cup LinesUpTo(7, {"WORD", "PIPE", "SEMICOLON"})
             \cup LinesUpTo(7, {"WORD", "ANGLE_BRACKET_L", "AMP"})
=============================================================================
