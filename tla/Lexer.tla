------------------------------- MODULE Lexer --------------------------------
(***************************************************************************)
(* The two stages of the lexer (raw_lex.c, lex.c): from the characters of  *)
(* a line to the tokens the parser reads.                                  *)
(*                                                                         *)
(* A character is named by the raw token it makes: "AMP" is an ampersand,  *)
(* "WHITESPACE" any of the six whitespace characters.  "LETTER" and "2"    *)
(* make text; "2" before "ANGLE_BRACKET_R" makes one raw token with it.    *)
(* RawType and RawText are raw_lex; one action is one call of lex, which   *)
(* takes one raw token.  The concatenation buffer is the C string it       *)
(* holds, with the length lex keeps beside it: the two differ after a      *)
(* match.  glob() is external: a pattern is a word, some of whose          *)
(* characters are active, and matches is what kinds of words name files.   *)
(***************************************************************************)
EXTENDS Naturals, SequencesExt

CONSTANTS
    Lines,          \* the lines to lex
    CatCapacity,    \* new_catbuf_capacity of lex (16)
    TokCapacity,    \* first capacity of the token buffer (4)
    Failures        \* may malloc, realloc and glob fail?

Letters == {"LETTER", "2"}
Quotes == {"SINGLE_QUOTE", "DOUBLE_QUOTE"}
GlobChars == {"ASTERISK", "QUESTION", "SQUARE_BRACKET_L"}
Operators == {"AMP", "SEMICOLON", "EXCLAM", "PIPE", "ANGLE_BRACKET_L",
              "ANGLE_BRACKET_R"}
Chars == Letters \cup Quotes \cup GlobChars \cup Operators
                 \cup {"BACKSLASH", "WHITESPACE"}

ASSUME LinesAssumption == Lines \subseteq Seq(Chars)
ASSUME CapacityAssumption ==
    CatCapacity \in Nat \ {0} /\ TokCapacity \in Nat \ {0}
ASSUME FailuresAssumption == Failures \in BOOLEAN

VARIABLES
    line,       \* the line, and
    cp,         \* the place in it of the next raw token
    finished,   \* raw_lex has returned its end token
    state,      \* state of the word machine
    escape,     \* the next raw token is escaped
    startQuote, \* the quote that opened the quoted section
    catbuf,     \* catbuf: the C string, catbuf_len and catbuf_capacity
    tokbuf,     \* tokbuf: the tokens and tokbuf_capacity
    result,     \* what lex returned
    matches,    \* which kinds of words are names of files
    stale       \* history variable: a word was ended in a buffer left from another

vars == <<line, cp, finished, state, escape, startQuote, catbuf, tokbuf, result,
          matches, stale>>

NullBuf == [str |-> <<>>, len |-> 0, cap |-> 0]

Init ==
    /\ line \in Lines /\ cp = 1 /\ finished = FALSE
    /\ state = "DULL" /\ escape = FALSE /\ startQuote = "END"
    /\ catbuf = NullBuf /\ tokbuf = [tokens |-> <<>>, cap |-> 0]
    /\ result = "ONGOING"
    /\ matches \in SUBSET {"plain", "pattern"}
    /\ stale = FALSE

-----------------------------------------------------------------------------
(* raw_lex. *)

\* The type of the raw token that starts at a place of the line.
RawType(i) ==
    IF i > Len(line) THEN "END"
    ELSE IF line[i] = "2" /\ i < Len(line) /\ line[i + 1] = "ANGLE_BRACKET_R"
      THEN "2_ANGLE_BRACKET_R"
    ELSE IF line[i] \in Letters THEN "TEXT"
    ELSE line[i]

BugPastEnd(i) == IF RawType(i) = "2_ANGLE_BRACKET_R" THEN i + 1 ELSE i
\* Text goes on up to the next special character, whitespace or the end.
RawLast(i) ==
    CASE RawType(i) = "END" -> i - 1
      [] RawType(i) = "2_ANGLE_BRACKET_R" -> i + 1
      [] RawType(i) = "TEXT" ->
           CHOOSE j \in i .. Len(line) :
               /\ \A k \in i .. j : RawType(k) = "TEXT"
               /\ RawType(j + 1) # "TEXT"
      [] OTHER -> i

RawText(i) == SubSeq(line, i, RawLast(i))

-----------------------------------------------------------------------------
(* glob(), and the two buffers. *)

Literal(chars) == [i \in 1 .. Len(chars) |-> <<chars[i], FALSE>>]

\* The word a pattern means to glob(): a backslash makes what follows literal.
GlobStep(acc, c) ==
    IF c = "BACKSLASH" /\ ~acc.esc THEN [esc |-> TRUE, word |-> acc.word]
    ELSE [esc |-> FALSE, word |-> Append(acc.word, <<c, c \in GlobChars /\ ~acc.esc>>)]

GlobRead(pattern) ==
    LET read[k \in 0 .. Len(pattern)] ==
            IF k = 0 THEN [esc |-> FALSE, word |-> <<>>]
            ELSE GlobStep(read[k - 1], pattern[k])
    IN read[Len(pattern)]

GlobWord(pattern) == GlobRead(pattern).word

Active(word) == \E i \in 1 .. Len(word) : word[i][2]

\* No file has the empty name.
Matching(word) ==
    word # <<>> /\ (IF Active(word) THEN "pattern" ELSE "plain") \in matches

\* A match of end_word: a name stands for itself, a pattern for two paths.
OtherToken(type) == [type |-> type, text |-> <<>>, path |-> 0]
WordToken(word, n) == [type |-> "WORD", text |-> word, path |-> n]
Paths(word) == IF Active(word) THEN <<WordToken(word, 1), WordToken(word, 2)>>
                               ELSE <<WordToken(word, 0)>>

\* The loop of end_word that removes the backslashes that escape.
UnescapeStep(acc, c) ==
    IF c = "BACKSLASH" /\ ~acc.esc THEN [esc |-> TRUE, text |-> acc.text]
    ELSE [esc |-> FALSE, text |-> Append(acc.text, c)]

Unescaped(pattern) ==
    LET read[k \in 0 .. Len(pattern)] ==
            IF k = 0 THEN [esc |-> FALSE, text |-> <<>>]
            ELSE UnescapeStep(read[k - 1], pattern[k])
    IN read[Len(pattern)].text

\* append_to_catbuf: the null byte has to fit too.
BugCatGrown(cap, len, more) ==
    IF len + more > cap THEN cap + 2 * more ELSE cap
CatGrown(cap, len, more) ==
    IF len + more + 1 > cap THEN cap + 2 * more + 1 ELSE cap
AppendToCatbuf(buf, text) ==
    [str |-> SubSeq(buf.str, 1, buf.len) \o text,
     len |-> buf.len + Len(text),
     cap |-> CatGrown(buf.cap, buf.len, Len(text))]

\* append_to_tokbuf.
AppendToTokbuf(buf, token) ==
    [tokens |-> Append(buf.tokens, token),
     cap |-> IF Len(buf.tokens) + 1 > buf.cap
               THEN IF buf.cap = 0 THEN TokCapacity ELSE buf.cap * 2
               ELSE buf.cap]

\* The buffers at the head of lex, which allocates catbuf again after a token
\* has taken it.
Buffers ==
    [cat |-> IF catbuf.cap = 0 THEN [NullBuf EXCEPT !.cap = CatCapacity]
                               ELSE catbuf,
     tok |-> tokbuf, stale |-> stale]

\* end_word: the paths of a match are copied and the buffer is kept, with its
\* length reset; without a match the word token takes the buffer.
EndWord(b) ==
    LET word == GlobWord(b.cat.str)
        paths == Paths(word)
        first == AppendToTokbuf(b.tok, paths[1])
        literal == WordToken(Literal(Unescaped(b.cat.str)), 0)
        reused == b.stale \/ b.cat.len # Len(b.cat.str)
    IN IF Matching(word)
         THEN [cat |-> [b.cat EXCEPT !.len = 0],
               tok |-> IF Active(word) THEN AppendToTokbuf(first, paths[2])
                                       ELSE first,
               stale |-> reused]
         ELSE [cat |-> NullBuf, tok |-> AppendToTokbuf(b.tok, literal),
               stale |-> reused]

AppendText(b, text) == [b EXCEPT !.cat = AppendToCatbuf(@, text)]
AppendToken(b, type) ==
    [b EXCEPT !.tok = AppendToTokbuf(@, OtherToken(type))]

-----------------------------------------------------------------------------
(* lex. *)

Raw == RawType(cp)

\* What starts an unquoted section of a word.
Markers == {"TEXT", "BACKSLASH"} \cup GlobChars

\* The state the raw token leads to, when it is neither a quote that opens a
\* section nor the end of the line in one.
BugStateAfter == IF state = "QUOTED" /\ Raw = startQuote THEN "QUOTED_END"
                 ELSE IF state = "QUOTED" THEN "QUOTED"
                 ELSE IF Raw \in Markers THEN "UNQUOTED" ELSE "DULL"
StateAfter == IF escape THEN state
              ELSE IF state = "QUOTED" /\ Raw = startQuote THEN "QUOTED_END"
              ELSE IF state = "QUOTED" THEN "QUOTED"
              ELSE IF Raw \in Markers THEN "UNQUOTED" ELSE "DULL"

\* A word ends when the machine leaves it, and at the end of the line.
LeavesWord ==
    state \in {"QUOTED_END", "UNQUOTED"} /\ (StateAfter = "DULL" \/ Raw = "END")

OpensQuote == ~escape /\ state # "QUOTED" /\ Raw \in Quotes
Unterminated == ~escape /\ state = "QUOTED" /\ Raw = "END"

\* `2>` escaped outside quotes: the 2 belongs to the word, which ends there.
SplitsTwo == escape /\ StateAfter = "UNQUOTED" /\ Raw = "2_ANGLE_BRACKET_R"
EndsWord == LeavesWord \/ SplitsTwo

\* A backslash before a character of glob() that is quoted.
BugProtection == <<>>
Protection == IF state = "QUOTED" /\ Raw \in GlobChars THEN <<"BACKSLASH">> ELSE <<>>

\* What the state does with the raw token.
Effect(b) ==
    CASE StateAfter = "DULL" ->
           IF Raw = "WHITESPACE" THEN b ELSE AppendToken(b, Raw)
      [] StateAfter = "QUOTED_END" -> b
      [] SplitsTwo ->
           AppendToken(EndWord(AppendText(b, <<"2">>)), "ANGLE_BRACKET_R")
      [] ~SplitsTwo /\ escape /\ StateAfter \in {"QUOTED", "UNQUOTED"} ->
           AppendText(b, RawText(cp))
      [] ~escape /\ StateAfter \in {"QUOTED", "UNQUOTED"} ->
           IF Raw = "BACKSLASH" THEN AppendText(b, <<"BACKSLASH">>)
           ELSE AppendText(AppendText(b, Protection), RawText(cp))

\* The buffers after a raw token: a word that ends is ended first.
After == Effect(IF LeavesWord THEN EndWord(Buffers) ELSE Buffers)

Consume ==
    /\ cp' = RawLast(cp) + 1
    /\ finished' = (Raw = "END")
    /\ UNCHANGED <<line, matches>>

\* raw_lex has nothing more.
LexEnd ==
    /\ result = "ONGOING" /\ finished
    /\ result' = "END"
    /\ catbuf' = Buffers.cat
    /\ UNCHANGED <<line, cp, finished, state, escape, startQuote, tokbuf>>
    /\ UNCHANGED <<matches, stale>>

\* The line ends inside quotes.
UnterminatedQuote ==
    /\ result = "ONGOING" /\ ~finished /\ Unterminated
    /\ result' = "UNTERMINATED_QUOTE"
    /\ catbuf' = Buffers.cat
    /\ Consume
    /\ UNCHANGED <<state, escape, startQuote, tokbuf, stale>>

\* A quote opens a quoted section of a word.
OpenQuote ==
    /\ result = "ONGOING" /\ ~finished /\ OpensQuote
    /\ state' = "QUOTED" /\ startQuote' = Raw
    /\ catbuf' = Buffers.cat
    /\ Consume
    /\ UNCHANGED <<escape, tokbuf, result, stale>>

\* Every other raw token.
LexToken ==
    /\ result = "ONGOING" /\ ~finished /\ ~OpensQuote /\ ~Unterminated
    /\ catbuf' = After.cat /\ tokbuf' = After.tok /\ stale' = After.stale
    /\ state' = IF SplitsTwo THEN "DULL" ELSE StateAfter
    /\ escape' = IF StateAfter \in {"QUOTED", "UNQUOTED"}
                   THEN ~escape /\ Raw = "BACKSLASH" ELSE escape
    /\ Consume
    /\ UNCHANGED <<startQuote, result>>

\* malloc or realloc fails where lex allocates: both buffers, the text of a raw
\* token, and the paths of a match.  Without a raw token lex destroys what was
\* never written (lex.c:326), and what that does is undefined.
MemoryError ==
    /\ Failures /\ result = "ONGOING"
    /\ \/ catbuf.cap = 0 /\ result' = "MEMORY_ERROR"
       \/ ~finished /\ Raw = "TEXT" /\ result' \in {"MEMORY_ERROR", "UNDEFINED"}
       \/ /\ ~finished /\ ~OpensQuote /\ ~Unterminated
          /\ EndsWord \/ After.cat.cap > catbuf.cap \/ After.tok.cap > tokbuf.cap
          /\ result' = "MEMORY_ERROR"
    /\ UNCHANGED <<line, cp, finished, state, escape, startQuote, catbuf, tokbuf,
                   matches, stale>>

\* glob() fails where a word ends.
GlobError ==
    /\ Failures /\ result = "ONGOING" /\ ~finished
    /\ ~OpensQuote /\ EndsWord
    /\ result' = "GLOB_ERROR"
    /\ UNCHANGED <<line, cp, finished, state, escape, startQuote, catbuf, tokbuf,
                   matches, stale>>

\* run() goes on with the tokens, or gives up.
Done == result # "ONGOING" /\ UNCHANGED vars

Next == LexEnd \/ UnterminatedQuote \/ OpenQuote \/ LexToken \/ MemoryError
        \/ GlobError \/ Done

Spec == Init /\ [][Next]_vars

-----------------------------------------------------------------------------
(* The rules of quoting as the report tells them (report.typ:201-207,        *)
(* 1590-1684), character by character and without raw tokens: a backslash    *)
(* makes the next character literal anywhere, a quote is literal in quotes   *)
(* of the other kind, and sections without whitespace between them are one   *)
(* word, even an empty one if it is quoted.                                  *)

StartReading ==
    [quote |-> "none", esc |-> FALSE, open |-> FALSE, skip |-> FALSE,
     word |-> <<>>, tokens |-> <<>>]

Take(acc, c, active) ==
    [acc EXCEPT !.esc = FALSE, !.open = TRUE, !.word = Append(@, <<c, active>>)]

CloseWord(acc) ==
    LET expansion == IF Matching(acc.word) THEN Paths(acc.word)
                     ELSE <<WordToken(Literal([i \in DOMAIN acc.word |-> acc.word[i][1]]), 0)>>
    IN IF acc.open
         THEN [acc EXCEPT !.open = FALSE, !.word = <<>>, !.tokens = @ \o expansion]
         ELSE acc

Operator(acc, type) ==
    [CloseWord(acc) EXCEPT !.tokens = Append(@, OtherToken(type))]

ReadChar(acc, i) ==
    LET c == line[i]
        two == c = "2" /\ i < Len(line) /\ line[i + 1] = "ANGLE_BRACKET_R"
    IN CASE acc.skip -> [acc EXCEPT !.skip = FALSE]
         [] ~acc.skip /\ acc.esc -> Take(acc, c, FALSE)
         [] ~acc.skip /\ ~acc.esc /\ c = "BACKSLASH" ->
              [acc EXCEPT !.esc = TRUE, !.open = TRUE]
         [] ~acc.skip /\ ~acc.esc /\ acc.quote # "none" /\ c # "BACKSLASH" ->
              IF c = acc.quote THEN [acc EXCEPT !.quote = "none"]
                               ELSE Take(acc, c, FALSE)
         [] ~acc.skip /\ ~acc.esc /\ acc.quote = "none" /\ c # "BACKSLASH" ->
              IF c \in Quotes THEN [acc EXCEPT !.quote = c, !.open = TRUE]
              ELSE IF two THEN [Operator(acc, "2_ANGLE_BRACKET_R") EXCEPT !.skip = TRUE]
              ELSE IF c \in Operators THEN Operator(acc, c)
              ELSE IF c = "WHITESPACE" THEN CloseWord(acc)
              ELSE Take(acc, c, c \in GlobChars)

\* What has been read after each number of characters, and in the end.
Readings[k \in 0 .. Len(line)] ==
    IF k = 0 THEN StartReading ELSE ReadChar(Readings[k - 1], k)

Reading == Readings[Len(line)]

\* The last character of the line is a backslash that escapes nothing.
EndsInBackslash == Reading.esc

-----------------------------------------------------------------------------
(* Properties. *)

Tokens ==
    [type : {"WORD", "2_ANGLE_BRACKET_R", "END"} \cup Operators,
     text : Seq(Chars \X BOOLEAN), path : 0 .. 2]

\* Every variable has its type.
TypeOk ==
    /\ line \in Lines /\ cp \in 1 .. Len(line) + 1 /\ finished \in BOOLEAN
    /\ state \in {"DULL", "QUOTED", "QUOTED_END", "UNQUOTED"}
    /\ escape \in BOOLEAN /\ startQuote \in Quotes \cup {"END"}
    /\ catbuf \in [str : Seq(Chars), len : Nat, cap : Nat]
    /\ tokbuf \in [tokens : Seq(Tokens), cap : Nat]
    /\ result \in {"ONGOING", "END", "UNTERMINATED_QUOTE", "MEMORY_ERROR",
                   "GLOB_ERROR", "UNDEFINED"}
    /\ matches \subseteq {"plain", "pattern"} /\ stale \in BOOLEAN

\* The string in catbuf ends with its null byte inside the buffer, also where
\* its length was reset and an older, longer one is still there, and the tokens
\* are inside theirs (lex.c:393, 415).
BuffersFit ==
    /\ catbuf.cap > 0 => Len(catbuf.str) < catbuf.cap /\ catbuf.len <= Len(catbuf.str)
    /\ Len(tokbuf.tokens) <= tokbuf.cap

\* The assertions of lex.c:156 and 382: only in a word is anything escaped, and
\* between words comes nothing but what has a token of its own.
AssertionsHold ==
    result = "ONGOING" =>
        /\ escape => state \in {"QUOTED", "UNQUOTED"}
        /\ ~finished /\ ~OpensQuote /\ StateAfter = "DULL" =>
              Raw \in Operators \cup {"2_ANGLE_BRACKET_R", "END", "WHITESPACE"}

\* The two stages together split a line into the words of the rules above, but
\* for a word that is ended in a buffer that still holds an older one
\* (lex.c:532), which only befalls an empty word after a match, and a line that
\* ends in a backslash; and missing quotes are reported exactly when they are
\* missing (a backslash at the end hides them).
WordsAsQuoted ==
    /\ result = "END" /\ ~stale /\ ~EndsInBackslash =>
           tokbuf.tokens = Append(CloseWord(Reading).tokens, OtherToken("END"))
    /\ stale => /\ matches # {}
                /\ \E i \in 1 .. Len(line) - 1 :
                       line[i] \in Quotes /\ line[i + 1] = line[i]
    /\ result \in {"END", "UNTERMINATED_QUOTE"} =>
           (result = "UNTERMINATED_QUOTE" <=>
                Reading.quote # "none" /\ ~EndsInBackslash)

\* What the parser counts on: one end token, which is last, or none, when the
\* line ends in a backslash.
EndMarksLine ==
    result = "END" =>
        \A i \in 1 .. Len(tokbuf.tokens) + 1 :
            (i <= Len(tokbuf.tokens) /\ tokbuf.tokens[i].type = "END")
              <=> (i = Len(tokbuf.tokens) /\ ~EndsInBackslash)
=============================================================================
