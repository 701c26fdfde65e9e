------------------------------ MODULE MCLexer -------------------------------
(***************************************************************************)
(* The lines the run of Lexer enumerates: all short ones, and longer ones  *)
(* of the characters that act on each other.                               *)
(***************************************************************************)
EXTENDS Lexer

LinesUpTo(n, chars) == UNION {[1 .. k -> chars] : k \in 0 .. n}

\* One operator, and one active character of glob(), stand for their kinds.
Alphabet == {"LETTER", "2", "ANGLE_BRACKET_R", "WHITESPACE", "BACKSLASH",
             "DOUBLE_QUOTE", "SINGLE_QUOTE", "ASTERISK"}

MoreLines ==
    LinesUpTo(3, Alphabet)
      \cup LinesUpTo(5, {"LETTER", "BACKSLASH", "DOUBLE_QUOTE", "WHITESPACE"})
      \cup LinesUpTo(5, {"2", "ANGLE_BRACKET_R", "BACKSLASH", "DOUBLE_QUOTE"})
      \cup LinesUpTo(5, {"ASTERISK", "WHITESPACE", "DOUBLE_QUOTE", "SINGLE_QUOTE"})
      \cup LinesUpTo(6, {"ASTERISK", "WHITESPACE", "DOUBLE_QUOTE"})
=============================================================================
