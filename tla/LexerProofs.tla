---------------------------- MODULE LexerProofs -----------------------------
(***************************************************************************)
(* Theorems about the lexer, for every set of lines, every capacity of the *)
(* two buffers and every answer of glob(): what is written stays inside    *)
(* the buffers and the assertions of lex.c hold; every variable has its    *)
(* type; and the tokens are the words that the rules of quoting give, with *)
(* one end token.                                                          *)
(*                                                                         *)
(* The last is a simulation: at the head of every call of lex, the machine *)
(* of lex.c, which knows states and raw tokens, and the reading of the     *)
(* rules, which knows characters, have reached the same place, and the     *)
(* text in catbuf means to glob() the characters that were read            *)
(* (Simulates, Follows).  What a recursive function computes is used only  *)
(* one step at a time (GlobReadAppend, ReadingSteps); an induction over    *)
(* the length is an argument from the least counterexample (SmallestNat).  *)
(***************************************************************************)
EXTENDS Lexer, WellFoundedInduction, TLAPS

\* The string, its length and its capacity.
SoundCat(c) ==
    /\ c \in [str : Seq(Chars), len : Nat, cap : Nat]
    /\ c.len <= Len(c.str)
    /\ c.cap > 0 => Len(c.str) < c.cap
    /\ c.cap = 0 => c.len = 0

\* The tokens, whatever they are, and their capacity.
SoundTok(t) ==
    /\ \E S : t.tokens \in Seq(S)
    /\ t.cap \in Nat /\ Len(t.tokens) <= t.cap

Sound(b) ==
    /\ b = [cat |-> b.cat, tok |-> b.tok, stale |-> b.stale]
    /\ SoundCat(b.cat) /\ SoundTok(b.tok)

\* The place in the line, and the state of the word machine.
Control ==
    /\ line \in Seq(Chars) /\ cp \in 1 .. Len(line) + 1
    /\ state \in {"DULL", "QUOTED", "QUOTED_END", "UNQUOTED"}
    /\ escape \in BOOLEAN
    /\ escape => state \in {"QUOTED", "UNQUOTED"}

Inv == Control /\ SoundCat(catbuf) /\ SoundTok(tokbuf)

-----------------------------------------------------------------------------
(* raw_lex. *)

RawTypes == {"TEXT", "2_ANGLE_BRACKET_R", "END", "BACKSLASH", "WHITESPACE"}
              \cup Quotes \cup GlobChars \cup Operators

LEMMA RawTypeType ==
    ASSUME line \in Seq(Chars), NEW i \in Nat \ {0}
    PROVE  /\ RawType(i) \in RawTypes
           /\ RawType(i) = "END" <=> i > Len(line)
           /\ RawType(i) = "2_ANGLE_BRACKET_R" => i < Len(line)
<1>1. CASE i > Len(line)
  BY <1>1 DEF RawType, RawTypes
<1>2. CASE ~(i > Len(line))
  <2>1. line[i] \in Chars /\ i \in 1 .. Len(line)
    BY <1>2
  <2>2. QED
    BY <1>2, <2>1 DEF RawType, RawTypes, Chars, Letters, Quotes, GlobChars, Operators
<1>3. QED
  BY <1>1, <1>2

\* There is a first place from i on where text does not go on.
LEMMA TextEnds ==
    ASSUME line \in Seq(Chars), NEW i \in 1 .. Len(line), RawType(i) = "TEXT"
    PROVE  \E j \in i .. Len(line) :
               /\ \A k \in i .. j : RawType(k) = "TEXT"
               /\ RawType(j + 1) # "TEXT"
<1> DEFINE T == {k \in Nat : k >= i /\ RawType(k) # "TEXT"}
           R == {ss \in Nat \X Nat : ss[1] < ss[2]}
<1>1. T \subseteq Nat /\ Len(line) + 1 \in T
  BY RawTypeType
<1>2. \E x \in T : \A y \in T : ~(<<y, x>> \in R)
  <2> HIDE DEF T, R
  <2>1. IsWellFoundedOn(R, Nat)
    BY NatLessThanWellFounded, Zenon DEF R, OpToRel
  <2>2. QED
    BY <1>1, <2>1, WFMin
<1>3. PICK x \in T : \A y \in T : ~(<<y, x>> \in R)
  BY <1>2
<1>4. \A y \in T : x <= y
  <2> TAKE y \in T
  <2>1. x \in Nat /\ y \in Nat /\ <<y, x>> \notin R
    BY <1>1, <1>3
  <2>2. QED
    BY <2>1
<1>5. x \in Nat /\ x > i /\ x <= Len(line) + 1 /\ RawType(x) # "TEXT"
  BY <1>1, <1>4
<1>6. \A k \in i .. x - 1 : RawType(k) = "TEXT"
  BY <1>4, <1>5
<1>7. x - 1 \in i .. Len(line) /\ (x - 1) + 1 = x
  BY <1>5
<1>8. QED
  BY <1>5, <1>6, <1>7

\* A raw token ends in the line, and only the end token takes nothing of it.
LEMMA RawLastType ==
    ASSUME line \in Seq(Chars), NEW i \in 1 .. Len(line) + 1
    PROVE  RawLast(i) \in Nat /\ RawLast(i) + 1 \in 1 .. Len(line) + 1
<1>1. CASE RawType(i) = "TEXT"
  <2>1. i \in 1 .. Len(line)
    BY <1>1, RawTypeType
  <2>2. RawLast(i) \in i .. Len(line)
    <3>1. RawLast(i) = CHOOSE j \in i .. Len(line) :
                           /\ \A k \in i .. j : RawType(k) = "TEXT"
                           /\ RawType(j + 1) # "TEXT"
      BY <1>1 DEF RawLast
    <3>2. QED
      BY <1>1, <2>1, <3>1, TextEnds
  <2>3. QED
    BY <2>1, <2>2
<1>2. CASE RawType(i) # "TEXT"
  <2>1. \/ RawType(i) = "END" /\ RawLast(i) = i - 1
        \/ RawType(i) = "2_ANGLE_BRACKET_R" /\ RawLast(i) = i + 1
        \/ RawType(i) \notin {"END", "2_ANGLE_BRACKET_R"} /\ RawLast(i) = i
    BY <1>2 DEF RawLast
  <2>2. QED
    BY <2>1, RawTypeType
<1>3. QED
  BY <1>1, <1>2

LEMMA RawTextType ==
    ASSUME line \in Seq(Chars), NEW i \in 1 .. Len(line) + 1
    PROVE  RawText(i) \in Seq(Chars)
BY RawLastType DEF RawText

-----------------------------------------------------------------------------
(* The buffers. *)

LEMMA CatAppends ==
    ASSUME NEW c, SoundCat(c), NEW text \in Seq(Chars)
    PROVE  SoundCat(AppendToCatbuf(c, text))
<1> DEFINE prefix == SubSeq(c.str, 1, c.len)
<1>1. prefix \in Seq(Chars) /\ Len(prefix) = c.len
  BY DEF SoundCat
<1>2. prefix \o text \in Seq(Chars) /\ Len(prefix \o text) = c.len + Len(text)
  BY <1>1
<1>3. /\ CatGrown(c.cap, c.len, Len(text)) \in Nat
      /\ c.len + Len(text) < CatGrown(c.cap, c.len, Len(text))
  BY DEF CatGrown, SoundCat
<1>4. c.len \in Nat /\ Len(text) \in Nat
  BY DEF SoundCat
<1> HIDE DEF prefix
<1>5. AppendToCatbuf(c, text) =
        [str |-> prefix \o text, len |-> c.len + Len(text),
         cap |-> CatGrown(c.cap, c.len, Len(text))]
  BY DEF AppendToCatbuf, prefix
<1>6. QED
  BY <1>2, <1>3, <1>4, <1>5 DEF SoundCat

\* A sequence is one whatever is appended to it.
LEMMA TokAppends ==
    ASSUME NEW t, SoundTok(t), NEW token
    PROVE  SoundTok(AppendToTokbuf(t, token))
<1>1. PICK S : t.tokens \in Seq(S)
  BY DEF SoundTok
<1> DEFINE S2 == S \cup {token}
<1>2. t.tokens \in Seq(S2) /\ token \in S2
  BY <1>1
<1> HIDE DEF S2
<1>3. Append(t.tokens, token) \in Seq(S2) /\ Len(Append(t.tokens, token)) = Len(t.tokens) + 1
  BY <1>2
<1>4. Len(t.tokens) \in Nat
  BY <1>1
<1> DEFINE grown == IF Len(t.tokens) + 1 > t.cap
                      THEN IF t.cap = 0 THEN TokCapacity ELSE t.cap * 2
                      ELSE t.cap
<1>5. grown \in Nat /\ Len(t.tokens) + 1 <= grown
  BY <1>4, CapacityAssumption DEF SoundTok
<1> HIDE DEF grown
<1>6. AppendToTokbuf(t, token) = [tokens |-> Append(t.tokens, token), cap |-> grown]
  BY DEF AppendToTokbuf, grown
<1>7. QED
  BY <1>3, <1>5, <1>6 DEF SoundTok

LEMMA BuffersSound == Inv => Sound(Buffers)
<1> SUFFICES ASSUME Inv PROVE Sound(Buffers)
  OBVIOUS
<1>1. SoundCat([NullBuf EXCEPT !.cap = CatCapacity])
  <2>1. [NullBuf EXCEPT !.cap = CatCapacity] =
          [str |-> <<>>, len |-> 0, cap |-> CatCapacity]
    BY DEF NullBuf
  <2>2. <<>> \in Seq(Chars) /\ Len(<<>>) = 0
    OBVIOUS
  <2> DEFINE c == [str |-> <<>>, len |-> 0, cap |-> CatCapacity]
  <2>3. c \in [str : Seq(Chars), len : Nat, cap : Nat]
    BY <2>2, CapacityAssumption
  <2>4. c.str = <<>> /\ c.len = 0 /\ c.cap > 0
    BY CapacityAssumption
  <2> HIDE DEF c
  <2>5. SoundCat(c)
    BY <2>2, <2>3, <2>4 DEF SoundCat
  <2>6. QED
    BY <2>1, <2>5 DEF c
<1>2. SoundCat(catbuf) /\ SoundTok(tokbuf)
  BY DEF Inv
<1>3. SoundCat(Buffers.cat) /\ Buffers.tok = tokbuf
  BY <1>1, <1>2 DEF Buffers
<1>4. Buffers = [cat |-> Buffers.cat, tok |-> Buffers.tok, stale |-> Buffers.stale]
  BY DEF Buffers
<1>5. QED
  BY <1>2, <1>3, <1>4 DEF Sound

LEMMA TextAppends ==
    ASSUME NEW b, Sound(b), NEW text \in Seq(Chars)
    PROVE  Sound(AppendText(b, text))
<1>1. AppendText(b, text) =
        [cat |-> AppendToCatbuf(b.cat, text), tok |-> b.tok, stale |-> b.stale]
  BY DEF AppendText, Sound
<1>2. QED
  BY <1>1, CatAppends DEF Sound

LEMMA TokenAppends ==
    ASSUME NEW b, Sound(b), NEW type
    PROVE  Sound(AppendToken(b, type))
<1>1. AppendToken(b, type) =
        [cat |-> b.cat, tok |-> AppendToTokbuf(b.tok, OtherToken(type)),
         stale |-> b.stale]
  BY DEF AppendToken, Sound
<1>2. QED
  BY <1>1, TokAppends DEF Sound

\* A match keeps the buffer and its text, no match gives it away.
LEMMA EndWordSound ==
    ASSUME NEW b, Sound(b)
    PROVE  Sound(EndWord(b))
<1> DEFINE word == GlobWord(b.cat.str)
           first == AppendToTokbuf(b.tok, Paths(word)[1])
           literal == WordToken(Literal(Unescaped(b.cat.str)), 0)
           reused == b.stale \/ b.cat.len # Len(b.cat.str)
           matched == [cat |-> [b.cat EXCEPT !.len = 0],
                       tok |-> IF Active(word)
                                 THEN AppendToTokbuf(first, Paths(word)[2])
                                 ELSE first,
                       stale |-> reused]
           unmatched == [cat |-> NullBuf, tok |-> AppendToTokbuf(b.tok, literal),
                         stale |-> reused]
<1>1. EndWord(b) = IF Matching(word) THEN matched ELSE unmatched
  BY DEF EndWord
<1>2. SoundCat(b.cat) /\ SoundTok(b.tok)
  BY DEF Sound
<1>3. SoundTok(first)
  BY <1>2, TokAppends
<1>4. SoundTok(AppendToTokbuf(first, Paths(word)[2]))
  BY <1>3, TokAppends
<1>5. SoundTok(AppendToTokbuf(b.tok, literal))
  BY <1>2, TokAppends
<1>6. SoundCat([b.cat EXCEPT !.len = 0])
  BY <1>2 DEF SoundCat
<1>7. SoundCat(NullBuf)
  BY DEF SoundCat, NullBuf
<1> HIDE DEF first, literal, word, reused
<1>8. Sound(matched)
  BY <1>3, <1>4, <1>6 DEF Sound
<1>9. Sound(unmatched)
  BY <1>5, <1>7 DEF Sound
<1>10. QED
  BY <1>1, <1>8, <1>9

-----------------------------------------------------------------------------
(* lex. *)

\* The assertion on escaping leaves the machine in one of its states.
LEMMA StateAfterType ==
    ASSUME Control
    PROVE  /\ StateAfter \in {"DULL", "QUOTED", "QUOTED_END", "UNQUOTED"}
           /\ escape => StateAfter \in {"QUOTED", "UNQUOTED"}
BY DEF Control, StateAfter

LEMMA EffectSound ==
    ASSUME Control, NEW b, Sound(b)
    PROVE  Sound(Effect(b))
<1>1. RawText(cp) \in Seq(Chars)
  BY RawTextType DEF Control
<1>2. <<"2">> \in Seq(Chars) /\ <<"BACKSLASH">> \in Seq(Chars) /\ Protection \in Seq(Chars)
  <2>1. "2" \in Chars /\ "BACKSLASH" \in Chars
    BY DEF Chars, Letters
  <2>2. <<"2">> \in Seq(Chars) /\ <<"BACKSLASH">> \in Seq(Chars) /\ <<>> \in Seq(Chars)
    BY <2>1
  <2>3. QED
    BY <2>2 DEF Protection
<1>3. CASE StateAfter = "DULL"
  <2>1. Effect(b) = IF Raw = "WHITESPACE" THEN b ELSE AppendToken(b, Raw)
    BY <1>3 DEF Effect, SplitsTwo
  <2>2. QED
    BY <2>1, TokenAppends
<1>4. CASE StateAfter = "QUOTED_END"
  <2>1. Effect(b) = b
    BY <1>4, StateAfterType DEF Effect, SplitsTwo
  <2>2. QED
    BY <2>1
<1>5. CASE SplitsTwo
  <2>1. Effect(b) =
          AppendToken(EndWord(AppendText(b, <<"2">>)), "ANGLE_BRACKET_R")
    BY <1>5 DEF Effect, SplitsTwo
  <2>2. Sound(AppendText(b, <<"2">>))
    BY <1>2, TextAppends
  <2>3. QED
    BY <2>1, <2>2, EndWordSound, TokenAppends
<1>6. CASE ~SplitsTwo /\ escape /\ StateAfter \in {"QUOTED", "UNQUOTED"}
  <2>1. Effect(b) = AppendText(b, RawText(cp))
    BY <1>6 DEF Effect
  <2>2. QED
    BY <1>1, <2>1, TextAppends
<1>7. CASE ~escape /\ StateAfter \in {"QUOTED", "UNQUOTED"}
  <2>1. Effect(b) = IF Raw = "BACKSLASH" THEN AppendText(b, <<"BACKSLASH">>)
                    ELSE AppendText(AppendText(b, Protection), RawText(cp))
    BY <1>7 DEF Effect, SplitsTwo
  <2>2. Sound(AppendText(b, <<"BACKSLASH">>))
    BY <1>2, TextAppends
  <2>3. Sound(AppendText(AppendText(b, Protection), RawText(cp)))
    BY <1>1, <1>2, TextAppends
  <2>4. QED
    BY <2>1, <2>2, <2>3
<1>8. QED
  BY <1>3, <1>4, <1>5, <1>6, <1>7, StateAfterType

LEMMA AfterSound == Inv => Sound(After)
<1> SUFFICES ASSUME Inv PROVE Sound(After)
  OBVIOUS
<1>1. Sound(Buffers) /\ Sound(EndWord(Buffers))
  BY BuffersSound, EndWordSound
<1>2. QED
  BY <1>1, EffectSound DEF After, Inv

LEMMA ConsumeMoves ==
    ASSUME Control, Consume
    PROVE  line' = line /\ cp' \in 1 .. Len(line) + 1
BY RawLastType DEF Control, Consume

LEMMA InitInv == Init => Inv
<1> SUFFICES ASSUME Init PROVE Inv
  OBVIOUS
<1>1. line \in Seq(Chars) /\ Len(line) \in Nat
  BY LinesAssumption DEF Init
<1>2. SoundCat(catbuf)
  BY DEF Init, NullBuf, SoundCat
<1>3. tokbuf.tokens = <<>> /\ tokbuf.cap = 0 /\ <<>> \in Seq({})
  BY DEF Init
<1>4. SoundTok(tokbuf)
  BY <1>3 DEF SoundTok
<1>5. Control
  <2>1. cp = 1 /\ state = "DULL" /\ escape = FALSE
    BY DEF Init
  <2>2. cp \in 1 .. Len(line) + 1
    BY <1>1, <2>1
  <2>3. QED
    BY <1>1, <2>1, <2>2 DEF Control
<1>6. QED
  BY <1>2, <1>4, <1>5 DEF Inv

LEMMA NextInv == Inv /\ [Next]_vars => Inv'
<1> SUFFICES ASSUME Inv, [Next]_vars PROVE Inv'
  OBVIOUS
<1>1. Sound(Buffers) /\ Sound(After) /\ Control
  BY BuffersSound, AfterSound DEF Inv
<1>2. CASE LexEnd
  BY <1>1, <1>2 DEF LexEnd, Inv, Control, Sound, SoundCat, SoundTok
<1>3. CASE UnterminatedQuote
  BY <1>1, <1>3, ConsumeMoves DEF UnterminatedQuote, Inv, Control, Sound, SoundCat, SoundTok
<1>4. CASE OpenQuote
  <2>1. state' = "QUOTED" /\ ~escape' /\ escape' = escape
    BY <1>4 DEF OpenQuote, OpensQuote
  <2>2. Control'
    BY <1>1, <1>4, <2>1, ConsumeMoves DEF OpenQuote, Control
  <2>3. SoundCat(catbuf)' /\ SoundTok(tokbuf)'
    BY <1>1, <1>4 DEF OpenQuote, Inv, Sound, SoundCat, SoundTok
  <2>4. QED
    BY <2>2, <2>3 DEF Inv
<1>5. CASE LexToken
  <2>1. SoundCat(catbuf)' /\ SoundTok(tokbuf)'
    BY <1>1, <1>5 DEF LexToken, Sound, SoundCat, SoundTok
  <2>2. /\ line' = line /\ cp' \in 1 .. Len(line) + 1
    BY <1>1, <1>5, ConsumeMoves DEF LexToken
  <2>3. state' \in {"DULL", "QUOTED", "QUOTED_END", "UNQUOTED"}
    BY <1>1, <1>5, StateAfterType DEF LexToken
  <2>4. escape' \in BOOLEAN /\ (escape' => state' \in {"QUOTED", "UNQUOTED"})
    BY <1>1, <1>5, StateAfterType DEF LexToken, SplitsTwo, Control
  <2>5. QED
    BY <1>1, <2>1, <2>2, <2>3, <2>4 DEF Inv, Control
<1>6. CASE MemoryError \/ GlobError \/ Done \/ UNCHANGED vars
  BY <1>6 DEF MemoryError, GlobError, Done, vars, Inv, Control, SoundCat, SoundTok
<1>7. QED
  BY <1>2, <1>3, <1>4, <1>5, <1>6 DEF Next

-----------------------------------------------------------------------------
(* The theorems. *)

\* No call of append_to_catbuf or append_to_tokbuf writes past its buffer, and a
\* text that was left in catbuf after a match still ends inside it.
THEOREM BuffersCorrect == Spec => []BuffersFit
<1>1. Inv => BuffersFit
  BY DEF Inv, BuffersFit, SoundCat, SoundTok
<1>2. QED
  BY <1>1, InitInv, NextInv, PTL DEF Spec

\* The assertion in lex on escaped tokens, and the one in
\* token_type_from_raw_token_type, never fail.
THEOREM AssertionsCorrect == Spec => []AssertionsHold
<1>1. Inv => AssertionsHold
  <2> SUFFICES ASSUME Inv, ~finished, ~OpensQuote, StateAfter = "DULL"
               PROVE  Raw \in Operators \cup {"2_ANGLE_BRACKET_R", "END", "WHITESPACE"}
    BY DEF Inv, Control, AssertionsHold
  <2>1. ~escape /\ state # "QUOTED"
    BY StateAfterType DEF Inv, Control, StateAfter
  <2>2. Raw \notin Markers /\ Raw \notin Quotes
    BY <2>1 DEF StateAfter, OpensQuote
  <2>3. Raw \in RawTypes
    BY RawTypeType DEF Inv, Control, Raw
  <2>4. QED
    BY <2>2, <2>3 DEF RawTypes, Markers
<1>2. QED
  BY <1>1, InitInv, NextInv, PTL DEF Spec

-----------------------------------------------------------------------------
(* The word a pattern means, and the pattern without its backslashes. *)

LEMMA SmallestNat ==
    ASSUME NEW T, T \subseteq Nat, T # {}
    PROVE  \E x \in T : \A y \in T : x <= y
<1> DEFINE R == {ss \in Nat \X Nat : ss[1] < ss[2]}
<1>1. \E x \in T : \A y \in T : ~(<<y, x>> \in R)
  <2> HIDE DEF R
  <2>1. IsWellFoundedOn(R, Nat)
    BY NatLessThanWellFounded, Zenon DEF R, OpToRel
  <2>2. QED
    BY <2>1, WFMin
<1>2. ASSUME NEW x \in T, NEW y \in T, ~(<<y, x>> \in R) PROVE x <= y
  <2>1. x \in Nat /\ y \in Nat
    OBVIOUS
  <2>2. ~(y < x)
    BY <1>2, <2>1
  <2>3. QED
    BY <2>1, <2>2
<1>3. QED
  BY <1>1, <1>2

GlobStart == [esc |-> FALSE, word |-> <<>>]
GlobRun(g, p, n) ==
    g = [k \in 0 .. n |-> IF k = 0 THEN GlobStart ELSE GlobStep(g[k - 1], p[k])]

LEMMA GlobRunExists ==
    ASSUME NEW p, NEW n \in Nat
    PROVE  \E g : GlobRun(g, p, n)
<1> DEFINE T == {m \in Nat : ~\E g : GlobRun(g, p, m)}
<1>1. SUFFICES ASSUME T # {} PROVE FALSE
  BY <1>1
<1>2. PICK m \in T : \A y \in T : m <= y
  BY <1>1, SmallestNat
<1>3. CASE m = 0
  <2>1. GlobRun([k \in 0 .. 0 |-> GlobStart], p, 0)
    BY DEF GlobRun
  <2>2. QED
    BY <1>2, <1>3, <2>1
<1>4. CASE m # 0
  <2>1. m - 1 \in Nat /\ m - 1 \notin T
    BY <1>2, <1>4
  <2>2. PICK g : GlobRun(g, p, m - 1)
    BY <2>1
  <2> DEFINE h == [k \in 0 .. m |-> IF k = m THEN GlobStep(g[m - 1], p[m]) ELSE g[k]]
  <2>3. \A k \in 0 .. m - 1 : h[k] = g[k]
    BY <2>1
  <2>4. \A k \in 0 .. m : h[k] = IF k = 0 THEN GlobStart ELSE GlobStep(h[k - 1], p[k])
    <3>1. \A k \in 0 .. m - 1 : g[k] = IF k = 0 THEN GlobStart ELSE GlobStep(g[k - 1], p[k])
      BY <2>2 DEF GlobRun
    <3>2. QED
      BY <1>4, <2>1, <2>3, <3>1
  <2>5. GlobRun(h, p, m)
    <3> HIDE DEF h
    <3>1. h = [k \in 0 .. m |-> h[k]]
      BY DEF h
    <3>2. QED
      BY <2>4, <3>1 DEF GlobRun
  <2>6. QED
    BY <1>2, <2>5
<1>5. QED
  BY <1>3, <1>4

LEMMA GlobReadRun ==
    ASSUME NEW p, Len(p) \in Nat
    PROVE  \E g : /\ g[0] = GlobStart
                  /\ \A k \in 1 .. Len(p) : g[k] = GlobStep(g[k - 1], p[k])
                  /\ GlobRead(p) = g[Len(p)]
<1> DEFINE f == CHOOSE g : GlobRun(g, p, Len(p))
<1>1. GlobRun(f, p, Len(p))
  BY GlobRunExists
<1>2. GlobRead(p) = f[Len(p)]
  BY DEF GlobRead, GlobRun, GlobStart
<1> HIDE DEF f
<1>3. QED
  BY <1>1, <1>2 DEF GlobRun

UnescapeStart == [esc |-> FALSE, text |-> <<>>]
UnescapeRun(g, p, n) ==
    g = [k \in 0 .. n |-> IF k = 0 THEN UnescapeStart ELSE UnescapeStep(g[k - 1], p[k])]

LEMMA UnescapeRunExists ==
    ASSUME NEW p, NEW n \in Nat
    PROVE  \E g : UnescapeRun(g, p, n)
<1> DEFINE T == {m \in Nat : ~\E g : UnescapeRun(g, p, m)}
<1>1. SUFFICES ASSUME T # {} PROVE FALSE
  BY <1>1
<1>2. PICK m \in T : \A y \in T : m <= y
  BY <1>1, SmallestNat
<1>3. CASE m = 0
  <2>1. UnescapeRun([k \in 0 .. 0 |-> UnescapeStart], p, 0)
    BY DEF UnescapeRun
  <2>2. QED
    BY <1>2, <1>3, <2>1
<1>4. CASE m # 0
  <2>1. m - 1 \in Nat /\ m - 1 \notin T
    BY <1>2, <1>4
  <2>2. PICK g : UnescapeRun(g, p, m - 1)
    BY <2>1
  <2> DEFINE h == [k \in 0 .. m |-> IF k = m THEN UnescapeStep(g[m - 1], p[m]) ELSE g[k]]
  <2>3. \A k \in 0 .. m - 1 : h[k] = g[k]
    BY <2>1
  <2>4. \A k \in 0 .. m :
          h[k] = IF k = 0 THEN UnescapeStart ELSE UnescapeStep(h[k - 1], p[k])
    <3>1. \A k \in 0 .. m - 1 :
            g[k] = IF k = 0 THEN UnescapeStart ELSE UnescapeStep(g[k - 1], p[k])
      BY <2>2 DEF UnescapeRun
    <3>2. QED
      BY <1>4, <2>1, <2>3, <3>1
  <2>5. UnescapeRun(h, p, m)
    <3> HIDE DEF h
    <3>1. h = [k \in 0 .. m |-> h[k]]
      BY DEF h
    <3>2. QED
      BY <2>4, <3>1 DEF UnescapeRun
  <2>6. QED
    BY <1>2, <2>5
<1>5. QED
  BY <1>3, <1>4

LEMMA UnescapedRun ==
    ASSUME NEW p, Len(p) \in Nat
    PROVE  \E g : /\ g[0] = UnescapeStart
                  /\ \A k \in 1 .. Len(p) : g[k] = UnescapeStep(g[k - 1], p[k])
                  /\ Unescaped(p) = g[Len(p)].text
<1> DEFINE f == CHOOSE g : UnescapeRun(g, p, Len(p))
<1>1. UnescapeRun(f, p, Len(p))
  BY UnescapeRunExists
<1>2. Unescaped(p) = f[Len(p)].text
  BY DEF Unescaped, UnescapeRun, UnescapeStart
<1> HIDE DEF f
<1>3. \A k \in 0 .. Len(p) :
         f[k] = IF k = 0 THEN UnescapeStart ELSE UnescapeStep(f[k - 1], p[k])
  BY <1>1 DEF UnescapeRun
<1>4. f[0] = UnescapeStart
  <2>1. 0 \in 0 .. Len(p)
    OBVIOUS
  <2>2. QED
    BY <1>3, <2>1
<1>5. ASSUME NEW k \in 1 .. Len(p) PROVE f[k] = UnescapeStep(f[k - 1], p[k])
  <2>1. k \in 0 .. Len(p) /\ k # 0
    OBVIOUS
  <2>2. QED
    BY <1>3, <2>1
<1>6. QED
  BY <1>2, <1>4, <1>5, Zenon

Marks == Chars \X BOOLEAN

\* The two readers of a pattern agree on what is escaped, and on the characters.
Agree(a, b) ==
    /\ a.esc \in BOOLEAN /\ (a.esc <=> b.esc) /\ b.esc \in BOOLEAN
    /\ a.word \in Seq(Marks) /\ b.text \in Seq(Chars)
    /\ Len(a.word) = Len(b.text)
    /\ \A i \in 1 .. Len(a.word) : a.word[i][1] = b.text[i]

LEMMA AgreeStep ==
    ASSUME NEW a, NEW b, Agree(a, b), NEW c \in Chars
    PROVE  Agree(GlobStep(a, c), UnescapeStep(b, c))
<1>1. CASE c = "BACKSLASH" /\ ~a.esc
  <2>1. /\ GlobStep(a, c).esc = TRUE /\ GlobStep(a, c).word = a.word
        /\ UnescapeStep(b, c).esc = TRUE /\ UnescapeStep(b, c).text = b.text
    BY <1>1 DEF GlobStep, UnescapeStep, Agree
  <2>2. QED
    BY <2>1 DEF Agree
<1>2. CASE ~(c = "BACKSLASH" /\ ~a.esc)
  <2>1. PICK mark \in Marks :
           GlobStep(a, c).word = Append(a.word, mark) /\ mark[1] = c
    <3>1. GlobStep(a, c).word = Append(a.word, <<c, c \in GlobChars /\ ~a.esc>>)
      BY <1>2, Zenon DEF GlobStep
    <3>2. <<c, c \in GlobChars /\ ~a.esc>> \in Marks
      BY DEF Marks
    <3>3. QED
      BY <3>1, <3>2
  <2>2. /\ GlobStep(a, c).esc = FALSE
        /\ UnescapeStep(b, c).esc = FALSE /\ UnescapeStep(b, c).text = Append(b.text, c)
    BY <1>2 DEF GlobStep, UnescapeStep, Agree
  <2>3. PICK w, t : w = Append(a.word, mark) /\ t = Append(b.text, c)
    OBVIOUS
  <2>4. /\ w \in Seq(Marks) /\ t \in Seq(Chars)
        /\ Len(w) = Len(t)
        /\ \A i \in 1 .. Len(w) : w[i][1] = t[i]
    BY <2>1, <2>3 DEF Agree
  <2>5. QED
    BY <2>1, <2>2, <2>3, <2>4 DEF Agree
<1>3. QED
  BY <1>1, <1>2

LEMMA UnescapedIsWord ==
    ASSUME NEW p \in Seq(Chars)
    PROVE  /\ GlobWord(p) \in Seq(Marks) /\ Unescaped(p) \in Seq(Chars)
           /\ Len(GlobWord(p)) = Len(Unescaped(p))
           /\ \A i \in 1 .. Len(GlobWord(p)) : GlobWord(p)[i][1] = Unescaped(p)[i]
<1>1. PICK g : /\ g[0] = GlobStart
               /\ \A k \in 1 .. Len(p) : g[k] = GlobStep(g[k - 1], p[k])
               /\ GlobRead(p) = g[Len(p)]
  BY GlobReadRun
<1>2. PICK h : /\ h[0] = UnescapeStart
               /\ \A k \in 1 .. Len(p) : h[k] = UnescapeStep(h[k - 1], p[k])
               /\ Unescaped(p) = h[Len(p)].text
  BY UnescapedRun
<1> DEFINE T == {k \in 0 .. Len(p) : ~Agree(g[k], h[k])}
<1>3. T = {}
  <2>1. SUFFICES ASSUME T # {} PROVE FALSE
    OBVIOUS
  <2>2. T \subseteq Nat
    OBVIOUS
  <2>3. PICK k \in T : \A y \in T : k <= y
    <3> HIDE DEF T
    <3>1. QED
      BY <2>1, <2>2, SmallestNat
  <2>4. k \in 0 .. Len(p) /\ ~Agree(g[k], h[k])
    BY <2>3
  <2>5. CASE k = 0
    <3>1. <<>> \in Seq(Marks) /\ <<>> \in Seq(Chars) /\ Len(<<>>) = 0
      OBVIOUS
    <3>2. g[0].esc = FALSE /\ g[0].word = <<>> /\ h[0].esc = FALSE /\ h[0].text = <<>>
      BY <1>1, <1>2 DEF GlobStart, UnescapeStart
    <3>3. Agree(g[0], h[0])
      <4>1. PICK a, b : a = g[0] /\ b = h[0]
        OBVIOUS
      <4>2. a.esc = FALSE /\ a.word = <<>> /\ b.esc = FALSE /\ b.text = <<>>
        BY <3>2, <4>1
      <4>a. /\ a.word \in Seq(Marks) /\ b.text \in Seq(Chars)
            /\ Len(a.word) = 0 /\ Len(b.text) = 0
        BY <3>1, <4>2
      <4>b. \A i \in 1 .. Len(a.word) : FALSE
        BY <4>a
      <4>3. Agree(a, b)
        BY <4>2, <4>a, <4>b, Zenon DEF Agree
      <4>4. QED
        BY <4>1, <4>3
    <3>4. QED
      BY <2>4, <2>5, <3>3
  <2>6. CASE k # 0
    <3>1. k - 1 \in 0 .. Len(p) /\ k - 1 \notin T /\ k \in 1 .. Len(p) /\ p[k] \in Chars
      BY <2>3, <2>4, <2>6
    <3>2. Agree(g[k - 1], h[k - 1])
      BY <3>1
    <3>3. g[k] = GlobStep(g[k - 1], p[k]) /\ h[k] = UnescapeStep(h[k - 1], p[k])
      BY <1>1, <1>2, <3>1
    <3>4. Agree(g[k], h[k])
      <4>1. PICK c \in Chars : c = p[k]
        BY <3>1
      <4>2. QED
        BY <3>2, <3>3, <4>1, AgreeStep
    <3>5. QED
      BY <2>4, <3>4
  <2>7. QED
    BY <2>5, <2>6
<1>4. Agree(g[Len(p)], h[Len(p)])
  BY <1>3
<1> HIDE DEF T
<1>5. QED
  BY <1>1, <1>2, <1>4 DEF Agree, GlobWord

LEMMA GlobReadEmpty ==
    ~GlobRead(<<>>).esc /\ GlobRead(<<>>).word = <<>>
<1>1. PICK e : e = <<>> /\ Len(e) = 0
  OBVIOUS
<1>2. PICK g : g[0] = GlobStart /\ GlobRead(e) = g[Len(e)]
  BY <1>1, GlobReadRun
<1>3. QED
  BY <1>1, <1>2 DEF GlobStart

\* A pattern is read from left to right.
LEMMA GlobReadAppend ==
    ASSUME NEW p \in Seq(Chars), NEW c \in Chars, NEW q, q = Append(p, c)
    PROVE  GlobRead(q) = GlobStep(GlobRead(p), c)
<1>1. /\ q \in Seq(Chars) /\ Len(q) = Len(p) + 1 /\ Len(p) \in Nat /\ q[Len(p) + 1] = c
      /\ \A k \in 1 .. Len(p) : q[k] = p[k]
  OBVIOUS
<1>2. PICK g : /\ g[0] = GlobStart
               /\ \A k \in 1 .. Len(p) : g[k] = GlobStep(g[k - 1], p[k])
               /\ GlobRead(p) = g[Len(p)]
  BY <1>1, GlobReadRun
<1>3. PICK h : /\ h[0] = GlobStart
               /\ \A k \in 1 .. Len(q) : h[k] = GlobStep(h[k - 1], q[k])
               /\ GlobRead(q) = h[Len(q)]
  <2>1. Len(q) \in Nat
    BY <1>1
  <2>2. QED
    BY <2>1, GlobReadRun, Zenon
<1> DEFINE T == {k \in 0 .. Len(p) : g[k] # h[k]}
<1>4. T = {}
  <2>1. SUFFICES ASSUME T # {} PROVE FALSE
    OBVIOUS
  <2>2. T \subseteq Nat
    OBVIOUS
  <2>3. PICK k \in T : \A y \in T : k <= y
    <3> HIDE DEF T
    <3>1. QED
      BY <2>1, <2>2, SmallestNat
  <2>4. k \in 0 .. Len(p) /\ g[k] # h[k] /\ k # 0
    BY <1>2, <1>3, <2>3
  <2>5. k - 1 \in 0 .. Len(p) /\ k - 1 \notin T /\ k \in 1 .. Len(p) /\ k \in 1 .. Len(q)
    BY <1>1, <2>3, <2>4
  <2>6. g[k - 1] = h[k - 1]
    BY <2>5
  <2>7. QED
    BY <1>1, <1>2, <1>3, <2>4, <2>5, <2>6
<1>5. g[Len(p)] = h[Len(p)]
  BY <1>1, <1>4
<1> HIDE DEF T
<1>6. Len(q) \in 1 .. Len(q) /\ Len(q) - 1 = Len(p)
  BY <1>1
<1>7. QED
  BY <1>1, <1>2, <1>3, <1>5, <1>6

-----------------------------------------------------------------------------
(* Types. *)

TypedTok(t) == t \in [tokens : Seq(Tokens), cap : Nat]
Typed(b) == TypedTok(b.tok) /\ b.stale \in BOOLEAN

LEMMA WordTyped ==
    ASSUME NEW word \in Seq(Marks), NEW n \in 0 .. 2
    PROVE  WordToken(word, n) \in Tokens
BY DEF WordToken, Tokens, Marks

LEMMA OtherTyped ==
    ASSUME NEW type \in {"2_ANGLE_BRACKET_R", "END"} \cup Operators
    PROVE  OtherToken(type) \in Tokens
<1>1. <<>> \in Seq(Chars \X BOOLEAN) /\ 0 \in 0 .. 2
  OBVIOUS
<1>2. QED
  BY <1>1 DEF OtherToken, Tokens

LEMMA LiteralTyped ==
    ASSUME NEW text \in Seq(Chars)
    PROVE  Literal(text) \in Seq(Marks)
<1>1. PICK f \in BOOLEAN : f = FALSE
  OBVIOUS
<1>2. Literal(text) = [i \in 1 .. Len(text) |-> <<text[i], f>>]
  BY <1>1, Zenon DEF Literal
<1>3. \A i \in 1 .. Len(text) : <<text[i], f>> \in Marks
  BY DEF Marks
<1>4. [i \in 1 .. Len(text) |-> <<text[i], f>>] \in [1 .. Len(text) -> Marks]
  BY <1>3
<1>5. QED
  BY <1>2, <1>4

LEMMA TokTyped ==
    ASSUME NEW t, TypedTok(t), NEW token \in Tokens
    PROVE  TypedTok(AppendToTokbuf(t, token))
<1>1. t.tokens \in Seq(Tokens) /\ t.cap \in Nat
  BY DEF TypedTok
<1>2. Append(t.tokens, token) \in Seq(Tokens)
  BY <1>1
<1> DEFINE grown == IF Len(t.tokens) + 1 > t.cap
                      THEN IF t.cap = 0 THEN TokCapacity ELSE t.cap * 2
                      ELSE t.cap
<1>3. grown \in Nat
  BY <1>1, CapacityAssumption
<1> HIDE DEF grown
<1>4. AppendToTokbuf(t, token) = [tokens |-> Append(t.tokens, token), cap |-> grown]
  BY DEF AppendToTokbuf, grown
<1>5. QED
  BY <1>2, <1>3, <1>4 DEF TypedTok

LEMMA TokenTyped ==
    ASSUME NEW b, Sound(b), Typed(b), NEW type \in {"2_ANGLE_BRACKET_R", "END"} \cup Operators
    PROVE  Typed(AppendToken(b, type))
<1>1. AppendToken(b, type) =
        [cat |-> b.cat, tok |-> AppendToTokbuf(b.tok, OtherToken(type)),
         stale |-> b.stale]
  BY DEF AppendToken, Sound
<1>2. QED
  BY <1>1, OtherTyped, TokTyped DEF Typed

LEMMA TextTyped ==
    ASSUME NEW b, Sound(b), Typed(b), NEW text
    PROVE  Typed(AppendText(b, text))
<1>1. AppendText(b, text) =
        [cat |-> AppendToCatbuf(b.cat, text), tok |-> b.tok, stale |-> b.stale]
  BY DEF AppendText, Sound
<1>2. QED
  BY <1>1 DEF Typed

LEMMA EndWordTyped ==
    ASSUME NEW b, Sound(b), Typed(b)
    PROVE  Typed(EndWord(b))
<1> DEFINE word == GlobWord(b.cat.str)
           first == AppendToTokbuf(b.tok, Paths(word)[1])
           literal == WordToken(Literal(Unescaped(b.cat.str)), 0)
           reused == b.stale \/ b.cat.len # Len(b.cat.str)
           matched == [cat |-> [b.cat EXCEPT !.len = 0],
                       tok |-> IF Active(word)
                                 THEN AppendToTokbuf(first, Paths(word)[2])
                                 ELSE first,
                       stale |-> reused]
           unmatched == [cat |-> NullBuf, tok |-> AppendToTokbuf(b.tok, literal),
                         stale |-> reused]
<1>1. EndWord(b) = IF Matching(word) THEN matched ELSE unmatched
  BY DEF EndWord
<1>2. TypedTok(b.tok) /\ reused \in BOOLEAN /\ b.cat.str \in Seq(Chars)
  BY DEF Typed, Sound, SoundCat
<1>3. word \in Seq(Marks) /\ literal \in Tokens
  BY <1>2, UnescapedIsWord, LiteralTyped, WordTyped
<1> HIDE DEF word, reused, literal
<1>4. Paths(word)[1] \in Tokens /\ (Active(word) => Paths(word)[2] \in Tokens)
  <2>1. WordToken(word, 0) \in Tokens /\ WordToken(word, 1) \in Tokens
        /\ WordToken(word, 2) \in Tokens
    BY <1>3, WordTyped
  <2>2. QED
    BY <2>1 DEF Paths
<1>5. TypedTok(first)
  BY <1>2, <1>4, TokTyped
<1> HIDE DEF first
<1>6. Active(word) => TypedTok(AppendToTokbuf(first, Paths(word)[2]))
  BY <1>4, <1>5, TokTyped
<1>7. TypedTok(AppendToTokbuf(b.tok, literal))
  BY <1>2, <1>3, TokTyped
<1>8. Typed(matched)
  BY <1>2, <1>5, <1>6 DEF Typed
<1>9. Typed(unmatched)
  BY <1>2, <1>7 DEF Typed
<1>10. QED
  BY <1>1, <1>8, <1>9

\* What comes between words has a token of its own.
LEMMA DullToken ==
    ASSUME Control, ~OpensQuote, StateAfter = "DULL"
    PROVE  Raw \in Operators \cup {"2_ANGLE_BRACKET_R", "END", "WHITESPACE"}
<1>1. ~escape /\ state # "QUOTED"
  BY StateAfterType DEF Control, StateAfter
<1>2. Raw \notin Markers /\ Raw \notin Quotes
  BY <1>1 DEF StateAfter, OpensQuote
<1>3. Raw \in RawTypes
  BY RawTypeType DEF Control, Raw
<1>4. QED
  BY <1>2, <1>3 DEF RawTypes, Markers

LEMMA EffectTyped ==
    ASSUME Control, ~OpensQuote, NEW b, Sound(b), Typed(b)
    PROVE  Typed(Effect(b))
<1>1. CASE StateAfter = "DULL"
  <2>1. Effect(b) = IF Raw = "WHITESPACE" THEN b ELSE AppendToken(b, Raw)
    BY <1>1 DEF Effect, SplitsTwo
  <2>2. QED
    BY <1>1, <2>1, DullToken, TokenTyped
<1>2. CASE StateAfter = "QUOTED_END"
  <2>1. Effect(b) = b
    BY <1>2, StateAfterType DEF Effect, SplitsTwo
  <2>2. QED
    BY <2>1
<1>3. CASE SplitsTwo
  <2>1. Effect(b) =
          AppendToken(EndWord(AppendText(b, <<"2">>)), "ANGLE_BRACKET_R")
    BY <1>3 DEF Effect, SplitsTwo
  <2>2. <<"2">> \in Seq(Chars) /\ "ANGLE_BRACKET_R" \in Operators
    BY DEF Chars, Letters, Operators
  <2>3. Sound(AppendText(b, <<"2">>)) /\ Typed(AppendText(b, <<"2">>))
    BY <2>2, TextAppends, TextTyped
  <2>4. QED
    BY <2>1, <2>2, <2>3, EndWordSound, EndWordTyped, TokenTyped
<1>4. CASE ~SplitsTwo /\ escape /\ StateAfter \in {"QUOTED", "UNQUOTED"}
  <2>1. Effect(b) = AppendText(b, RawText(cp))
    BY <1>4 DEF Effect
  <2>2. QED
    BY <2>1, TextTyped
<1>5. CASE ~escape /\ StateAfter \in {"QUOTED", "UNQUOTED"}
  <2>1. Effect(b) = IF Raw = "BACKSLASH" THEN AppendText(b, <<"BACKSLASH">>)
                    ELSE AppendText(AppendText(b, Protection), RawText(cp))
    BY <1>5 DEF Effect, SplitsTwo
  <2>2. Protection \in Seq(Chars)
    <3>1. <<"BACKSLASH">> \in Seq(Chars) /\ <<>> \in Seq(Chars)
      BY DEF Chars
    <3>2. QED
      BY <3>1 DEF Protection
  <2>3. Sound(AppendText(b, Protection)) /\ Typed(AppendText(b, Protection))
    BY <2>2, TextAppends, TextTyped
  <2>4. QED
    BY <2>1, <2>3, TextTyped
<1>6. QED
  BY <1>1, <1>2, <1>3, <1>4, <1>5, StateAfterType

LEMMA AfterTyped ==
    ASSUME Inv, TypeOk, ~OpensQuote
    PROVE  Typed(After)
<1>1. Sound(Buffers) /\ Sound(EndWord(Buffers))
  BY BuffersSound, EndWordSound
<1>2. Typed(Buffers)
  BY DEF TypeOk, Buffers, Typed, TypedTok
<1>3. Typed(EndWord(Buffers))
  BY <1>1, <1>2, EndWordTyped
<1>4. QED
  BY <1>1, <1>2, <1>3, EffectTyped DEF After, Inv

LEMMA InitTypeOk == Init => TypeOk
<1> SUFFICES ASSUME Init PROVE TypeOk
  OBVIOUS
<1>1. Inv
  BY InitInv
<1>2. tokbuf \in [tokens : Seq(Tokens), cap : Nat]
  <2>1. <<>> \in Seq(Tokens)
    OBVIOUS
  <2>2. QED
    BY <2>1 DEF Init
<1>3. matches \subseteq {"plain", "pattern"}
  BY DEF Init
<1>4. QED
  BY <1>1, <1>2, <1>3 DEF Init, TypeOk, Inv, Control, SoundCat

LEMMA NextTypeOk == Inv /\ TypeOk /\ [Next]_vars => TypeOk'
<1> SUFFICES ASSUME Inv, TypeOk, [Next]_vars PROVE TypeOk'
  OBVIOUS
<1>1. Inv'
  BY NextInv
<1>2. /\ (cp \in 1 .. Len(line) + 1)' /\ (state \in {"DULL", "QUOTED", "QUOTED_END", "UNQUOTED"})'
      /\ escape' \in BOOLEAN /\ (catbuf \in [str : Seq(Chars), len : Nat, cap : Nat])'
  BY <1>1 DEF Inv, Control, SoundCat
<1>3. line' = line /\ matches' = matches
  BY DEF Next, LexEnd, UnterminatedQuote, OpenQuote, LexToken, Consume, MemoryError,
         GlobError, Done, vars
<1>4. /\ finished' \in BOOLEAN /\ stale' \in BOOLEAN
      /\ tokbuf' \in [tokens : Seq(Tokens), cap : Nat]
  <2>1. CASE LexToken
    <3>1. Typed(After)
      BY <2>1, AfterTyped DEF LexToken
    <3>2. QED
      BY <2>1, <3>1 DEF LexToken, Consume, Typed, TypedTok
  <2>2. CASE ~LexToken
    BY <2>2 DEF Next, LexEnd, UnterminatedQuote, OpenQuote, Consume, MemoryError,
                GlobError, Done, vars, TypeOk
  <2>3. QED
    BY <2>1, <2>2
<1>5. startQuote' \in Quotes \cup {"END"}
  BY DEF Next, LexEnd, UnterminatedQuote, OpenQuote, OpensQuote, LexToken, MemoryError,
         GlobError, Done, vars, TypeOk
<1>6. result' \in {"ONGOING", "END", "UNTERMINATED_QUOTE", "MEMORY_ERROR",
                   "GLOB_ERROR", "UNDEFINED"}
  BY DEF Next, LexEnd, UnterminatedQuote, OpenQuote, LexToken, MemoryError,
         GlobError, Done, vars, TypeOk
<1>7. QED
  BY <1>2, <1>3, <1>4, <1>5, <1>6 DEF TypeOk

\* Every variable has its type: the lexer never leaves the line, and every token it
\* makes is one the parser knows, with a text of characters of the line.
THEOREM TypesCorrect == Spec => []TypeOk
BY InitInv, NextInv, InitTypeOk, NextTypeOk, PTL DEF Spec


-----------------------------------------------------------------------------
(* Reading a line by the rules, character by character. *)

ReadingRun(g, n) ==
    g = [k \in 0 .. n |-> IF k = 0 THEN StartReading ELSE ReadChar(g[k - 1], k)]

LEMMA ReadingRunExists ==
    ASSUME NEW n \in Nat
    PROVE  \E g : ReadingRun(g, n)
<1> DEFINE T == {m \in Nat : ~\E g : ReadingRun(g, m)}
<1>1. SUFFICES ASSUME T # {} PROVE FALSE
  BY <1>1
<1>2. PICK m \in T : \A y \in T : m <= y
  BY <1>1, SmallestNat
<1>3. CASE m = 0
  <2>1. ReadingRun([k \in 0 .. 0 |-> StartReading], 0)
    BY DEF ReadingRun
  <2>2. QED
    BY <1>2, <1>3, <2>1
<1>4. CASE m # 0
  <2>1. m - 1 \in Nat /\ m - 1 \notin T
    BY <1>2, <1>4
  <2>2. PICK g : ReadingRun(g, m - 1)
    BY <2>1
  <2> DEFINE h == [k \in 0 .. m |-> IF k = m THEN ReadChar(g[m - 1], m) ELSE g[k]]
  <2>3. \A k \in 0 .. m - 1 : h[k] = g[k]
    BY <2>1
  <2>4. \A k \in 0 .. m : h[k] = IF k = 0 THEN StartReading ELSE ReadChar(h[k - 1], k)
    <3>1. \A k \in 0 .. m - 1 :
            g[k] = IF k = 0 THEN StartReading ELSE ReadChar(g[k - 1], k)
      BY <2>2 DEF ReadingRun
    <3>2. QED
      BY <1>4, <2>1, <2>3, <3>1
  <2>5. ReadingRun(h, m)
    <3> HIDE DEF h
    <3>1. h = [k \in 0 .. m |-> h[k]]
      BY DEF h
    <3>2. QED
      BY <2>4, <3>1 DEF ReadingRun
  <2>6. QED
    BY <1>2, <2>5
<1>5. QED
  BY <1>3, <1>4

LEMMA ReadingSteps ==
    ASSUME line \in Seq(Chars)
    PROVE  /\ Readings[0] = StartReading
           /\ \A k \in 1 .. Len(line) : Readings[k] = ReadChar(Readings[k - 1], k)
<1>1. Len(line) \in Nat
  OBVIOUS
<1>2. ReadingRun(Readings, Len(line))
  <2>1. Readings = CHOOSE g : ReadingRun(g, Len(line))
    BY DEF Readings, ReadingRun
  <2>2. QED
    BY <1>1, <2>1, ReadingRunExists
<1>3. QED
  BY <1>1, <1>2 DEF ReadingRun

\* The rules do not change while a line is lexed.
LEMMA ReadingsSame ==
    ASSUME line' = line, matches' = matches
    PROVE  Readings' = Readings
BY DEF Readings, ReadChar, CloseWord, Matching, Operator, Take

LEMMA ReadingSame ==
    ASSUME line' = line, matches' = matches
    PROVE  /\ Reading' = Reading
           /\ CloseWord(Reading)' = CloseWord(Reading)
BY ReadingsSame DEF Reading, CloseWord, Matching

\* What has been read: literal characters, and those that are so unless a pattern of
\* glob() begins with them.
Lit(c) == <<c, FALSE>>
Plain(c) == <<c, c \in GlobChars>>

LEMMA PlainIsLit == ASSUME NEW c, c \notin GlobChars PROVE Plain(c) = Lit(c)
<1>1. (c \in GlobChars) = FALSE
  OBVIOUS
<1>2. QED
  BY <1>1, Zenon DEF Plain, Lit

LEMMA MarksType == ASSUME NEW c \in Chars PROVE Lit(c) \in Marks /\ Plain(c) \in Marks
<1>1. PICK f \in BOOLEAN : f = FALSE
  OBVIOUS
<1>2. Lit(c) = <<c, f>>
  BY <1>1, Zenon DEF Lit
<1>3. Lit(c) \in Marks
  BY <1>2 DEF Marks
<1>4. <<c, c \in GlobChars>> \in Marks
  <2>1. CASE c \in GlobChars
    <3>1. PICK g \in BOOLEAN : g = TRUE
      OBVIOUS
    <3>2. (c \in GlobChars) = TRUE
      BY <2>1
    <3>3. <<c, g>> \in Marks
      BY DEF Marks
    <3>4. QED
      BY <3>1, <3>2, <3>3, Zenon
  <2>2. CASE c \notin GlobChars
    BY <1>3, <2>2, PlainIsLit, Zenon DEF Plain
  <2>3. QED
    BY <2>1, <2>2
<1>5. QED
  BY <1>3, <1>4, Zenon DEF Plain

Acc(a) ==
    /\ DOMAIN a = {"quote", "esc", "open", "skip", "word", "tokens"}
    /\ a.esc \in BOOLEAN /\ a.open \in BOOLEAN /\ a.skip \in BOOLEAN
    /\ a.word \in Seq(Marks) /\ a.tokens \in Seq(Tokens)
    /\ ~a.open => a.word = <<>>

\* The words a word stands for.
Expansion(word) ==
    IF Matching(word) THEN Paths(word)
    ELSE <<WordToken(Literal([i \in DOMAIN word |-> word[i][1]]), 0)>>

LEMMA StartAcc ==
    /\ Acc(StartReading) /\ ~StartReading.skip /\ ~StartReading.esc
    /\ StartReading.quote = "none" /\ ~StartReading.open
    /\ StartReading.word = <<>> /\ StartReading.tokens = <<>>
<1>1. <<>> \in Seq(Marks) /\ <<>> \in Seq(Tokens)
  OBVIOUS
<1>2. QED
  BY <1>1 DEF StartReading, Acc

LEMMA ReadEscaped ==
    ASSUME NEW a, Acc(a), ~a.skip, a.esc, NEW i \in Nat, line[i] \in Chars,
           NEW u, u = ReadChar(a, i)
    PROVE  /\ Acc(u) /\ ~u.skip /\ ~u.esc /\ u.open
           /\ u.quote = a.quote /\ u.tokens = a.tokens
           /\ u.word = Append(a.word, Lit(line[i]))
<1>1. u = [a EXCEPT !.esc = FALSE, !.open = TRUE, !.word = Append(@, Lit(line[i]))]
  BY Zenon DEF ReadChar, Take, Lit
<1>2. PICK w : w = Append(a.word, Lit(line[i]))
  OBVIOUS
<1>3. w \in Seq(Marks)
  BY <1>2, MarksType DEF Acc
<1>4. /\ DOMAIN u = DOMAIN a /\ u.skip = FALSE /\ u.esc = FALSE /\ u.open = TRUE
      /\ u.quote = a.quote /\ u.tokens = a.tokens /\ u.word = w
  BY <1>1, <1>2 DEF Acc
<1>5. QED
  BY <1>2, <1>3, <1>4 DEF Acc

LEMMA ReadBackslash ==
    ASSUME NEW a, Acc(a), ~a.skip, ~a.esc, NEW i \in Nat,
           line[i] = "BACKSLASH", NEW u, u = ReadChar(a, i)
    PROVE  /\ Acc(u) /\ ~u.skip /\ u.esc /\ u.open
           /\ u.quote = a.quote /\ u.tokens = a.tokens /\ u.word = a.word
<1>1. u = [a EXCEPT !.esc = TRUE, !.open = TRUE]
  BY DEF ReadChar
<1>2. QED
  BY <1>1 DEF Acc

LEMMA ReadQuoted ==
    ASSUME NEW a, Acc(a), ~a.skip, ~a.esc, a.quote # "none",
           NEW i \in Nat, line[i] \in Chars, line[i] # "BACKSLASH", line[i] # a.quote,
           NEW u, u = ReadChar(a, i)
    PROVE  /\ Acc(u) /\ ~u.skip /\ ~u.esc /\ u.open
           /\ u.quote = a.quote /\ u.tokens = a.tokens
           /\ u.word = Append(a.word, Lit(line[i]))
<1>1. u = [a EXCEPT !.esc = FALSE, !.open = TRUE, !.word = Append(@, Lit(line[i]))]
  BY Zenon DEF ReadChar, Take, Lit
<1>2. PICK w : w = Append(a.word, Lit(line[i]))
  OBVIOUS
<1>3. w \in Seq(Marks)
  BY <1>2, MarksType DEF Acc
<1>4. /\ DOMAIN u = DOMAIN a /\ u.skip = FALSE /\ u.esc = FALSE /\ u.open = TRUE
      /\ u.quote = a.quote /\ u.tokens = a.tokens /\ u.word = w
  BY <1>1, <1>2 DEF Acc
<1>5. QED
  BY <1>2, <1>3, <1>4 DEF Acc

LEMMA ReadCloses ==
    ASSUME NEW a, Acc(a), ~a.skip, ~a.esc, a.quote # "none",
           NEW i \in Nat, line[i] = a.quote, line[i] # "BACKSLASH",
           NEW u, u = ReadChar(a, i)
    PROVE  /\ Acc(u) /\ ~u.skip /\ ~u.esc /\ u.open = a.open
           /\ u.quote = "none" /\ u.tokens = a.tokens /\ u.word = a.word
<1>1. u = [a EXCEPT !.quote = "none"]
  BY DEF ReadChar
<1>2. QED
  BY <1>1 DEF Acc

LEMMA ReadOpens ==
    ASSUME NEW a, Acc(a), ~a.skip, ~a.esc, a.quote = "none",
           NEW i \in Nat, line[i] \in Quotes, NEW u, u = ReadChar(a, i)
    PROVE  /\ Acc(u) /\ ~u.skip /\ ~u.esc /\ u.open
           /\ u.quote = line[i] /\ u.tokens = a.tokens /\ u.word = a.word
<1>1. u = [a EXCEPT !.quote = line[i], !.open = TRUE]
  BY DEF ReadChar, Quotes
<1>2. QED
  BY <1>1 DEF Acc

Two(i) == line[i] = "2" /\ i < Len(line) /\ line[i + 1] = "ANGLE_BRACKET_R"

LEMMA ReadText ==
    ASSUME NEW a, Acc(a), ~a.skip, ~a.esc, a.quote = "none",
           NEW i \in Nat, line[i] \in Letters \cup GlobChars, ~Two(i),
           NEW u, u = ReadChar(a, i)
    PROVE  /\ Acc(u) /\ ~u.skip /\ ~u.esc /\ u.open
           /\ u.quote = "none" /\ u.tokens = a.tokens
           /\ u.word = Append(a.word, Plain(line[i]))
<1>1. /\ line[i] # "BACKSLASH" /\ line[i] # "WHITESPACE" /\ line[i] \in Chars
      /\ line[i] \notin Quotes /\ line[i] \notin Operators
  BY DEF Letters, GlobChars, Quotes, Operators, Chars
<1>2. u = [a EXCEPT !.esc = FALSE, !.open = TRUE, !.word = Append(@, Plain(line[i]))]
  <2>1. u = Take(a, line[i], line[i] \in GlobChars)
    BY <1>1, Zenon DEF ReadChar, Two
  <2>2. QED
    BY <2>1, Zenon DEF Take, Plain
<1>3. PICK w : w = Append(a.word, Plain(line[i]))
  OBVIOUS
<1>4. w \in Seq(Marks)
  BY <1>1, <1>3, MarksType DEF Acc
<1>5. /\ DOMAIN u = DOMAIN a /\ u.skip = FALSE /\ u.esc = FALSE /\ u.open = TRUE
      /\ u.quote = a.quote /\ u.tokens = a.tokens /\ u.word = w
  BY <1>2, <1>3 DEF Acc
<1>6. QED
  BY <1>3, <1>4, <1>5 DEF Acc

LEMMA ExpansionTyped ==
    ASSUME NEW word \in Seq(Marks)
    PROVE  Expansion(word) \in Seq(Tokens)
<1>1. WordToken(word, 0) \in Tokens /\ WordToken(word, 1) \in Tokens
      /\ WordToken(word, 2) \in Tokens
  BY WordTyped
<1>2. Paths(word) \in Seq(Tokens)
  BY <1>1 DEF Paths
<1>3. PICK t : t = [i \in DOMAIN word |-> word[i][1]]
  OBVIOUS
<1>4. t \in Seq(Chars)
  <2>1. \A i \in 1 .. Len(word) : word[i][1] \in Chars
    BY DEF Marks
  <2>2. QED
    BY <1>3, <2>1
<1>5. WordToken(Literal(t), 0) \in Tokens
  BY <1>4, LiteralTyped, WordTyped
<1>6. QED
  BY <1>2, <1>3, <1>5 DEF Expansion

\* Where a word may end, it does.
LEMMA Closes ==
    ASSUME NEW a, Acc(a), NEW u, u = CloseWord(a)
    PROVE  /\ Acc(u) /\ u.skip = a.skip /\ u.esc = a.esc /\ ~u.open
           /\ u.quote = a.quote /\ u.word = <<>>
           /\ u.tokens = IF a.open THEN a.tokens \o Expansion(a.word) ELSE a.tokens
<1>1. CASE a.open = TRUE
  <2>1. u = [a EXCEPT !.open = FALSE, !.word = <<>>, !.tokens = @ \o Expansion(a.word)]
    BY <1>1 DEF CloseWord, Expansion
  <2>2. PICK t : t = a.tokens \o Expansion(a.word)
    OBVIOUS
  <2>3. t \in Seq(Tokens) /\ <<>> \in Seq(Marks)
    BY <2>2, ExpansionTyped DEF Acc
  <2>4. /\ DOMAIN u = DOMAIN a /\ u.skip = a.skip /\ u.esc = a.esc /\ u.open = FALSE
        /\ u.quote = a.quote /\ u.word = <<>> /\ u.tokens = t
    BY <2>1, <2>2 DEF Acc
  <2>5. QED
    BY <1>1, <2>2, <2>3, <2>4 DEF Acc
<1>2. CASE a.open = FALSE
  <2>1. u = a
    BY <1>2 DEF CloseWord
  <2>2. QED
    BY <1>2, <2>1 DEF Acc
<1>3. QED
  BY <1>1, <1>2 DEF Acc

LEMMA ReadWhitespace ==
    ASSUME NEW a, Acc(a), ~a.skip, ~a.esc, a.quote = "none",
           NEW i \in Nat, line[i] = "WHITESPACE", NEW u, u = ReadChar(a, i)
    PROVE  u = CloseWord(a)
BY DEF ReadChar, Quotes, Operators

LEMMA Operates ==
    ASSUME NEW a, Acc(a), NEW type \in {"2_ANGLE_BRACKET_R"} \cup Operators,
           NEW u, u = Operator(a, type)
    PROVE  /\ Acc(u) /\ u.skip = a.skip /\ u.esc = a.esc /\ ~u.open
           /\ u.quote = a.quote /\ u.word = <<>>
           /\ u.tokens = Append(CloseWord(a).tokens, OtherToken(type))
<1>1. PICK v : v = CloseWord(a)
  OBVIOUS
<1>2. /\ Acc(v) /\ v.skip = a.skip /\ v.esc = a.esc /\ v.open = FALSE
      /\ v.quote = a.quote /\ v.word = <<>>
  BY <1>1, Closes
<1>3. u = [v EXCEPT !.tokens = Append(@, OtherToken(type))]
  BY <1>1 DEF Operator
<1>4. PICK t : t = Append(v.tokens, OtherToken(type))
  OBVIOUS
<1>5. t \in Seq(Tokens)
  BY <1>2, <1>4, OtherTyped DEF Acc
<1>6. /\ DOMAIN u = DOMAIN v /\ u.skip = v.skip /\ u.esc = v.esc /\ u.open = FALSE
      /\ u.quote = v.quote /\ u.word = v.word /\ u.tokens = t
  BY <1>2, <1>3, <1>4 DEF Acc
<1>7. QED
  BY <1>1, <1>2, <1>4, <1>5, <1>6 DEF Acc

LEMMA ReadOperator ==
    ASSUME NEW a, Acc(a), ~a.skip, ~a.esc, a.quote = "none",
           NEW i \in Nat, line[i] \in Operators, NEW u, u = ReadChar(a, i)
    PROVE  u = Operator(a, line[i])
BY DEF ReadChar, Quotes, Operators

\* `2>` is read in one go.
LEMMA ReadTwo ==
    ASSUME NEW a, Acc(a), ~a.skip, ~a.esc, a.quote = "none",
           NEW i \in Nat, Two(i), NEW u, u = ReadChar(ReadChar(a, i), i + 1)
    PROVE  /\ Acc(u) /\ ~u.skip /\ ~u.esc /\ ~u.open
           /\ u.quote = "none" /\ u.word = <<>>
           /\ u.tokens = Append(CloseWord(a).tokens, OtherToken("2_ANGLE_BRACKET_R"))
<1>a. PICK type \in {"2_ANGLE_BRACKET_R"} \cup Operators : type = "2_ANGLE_BRACKET_R"
  OBVIOUS
<1>1. PICK v : v = Operator(a, type)
  OBVIOUS
<1>2. /\ Acc(v) /\ v.skip = FALSE /\ v.esc = FALSE /\ v.open = FALSE
      /\ v.quote = "none" /\ v.word = <<>>
      /\ v.tokens = Append(CloseWord(a).tokens, OtherToken(type))
  BY <1>1, Operates
<1>3. PICK x : x = ReadChar(a, i)
  OBVIOUS
<1>4. x = [v EXCEPT !.skip = TRUE]
  BY <1>a, <1>1, <1>3 DEF ReadChar, Two, Quotes
<1>5. /\ DOMAIN x = DOMAIN v /\ x.skip = TRUE /\ x.esc = FALSE /\ x.open = FALSE
      /\ x.quote = "none" /\ x.word = <<>> /\ x.tokens = v.tokens
  BY <1>2, <1>4 DEF Acc
<1>6. u = [x EXCEPT !.skip = FALSE]
  BY <1>3, <1>5 DEF ReadChar
<1>7. /\ DOMAIN u = DOMAIN x /\ u.skip = FALSE /\ u.esc = FALSE /\ u.open = FALSE
      /\ u.quote = "none" /\ u.word = <<>> /\ u.tokens = v.tokens
  BY <1>2, <1>5, <1>6 DEF Acc
<1>8. QED
  BY <1>a, <1>2, <1>5, <1>7 DEF Acc

-----------------------------------------------------------------------------
(* The text that lex writes for glob(), beside what has been read. *)

LEMMA PatternEscaped ==
    ASSUME NEW p \in Seq(Chars), NEW c \in Chars, GlobRead(p).esc,
           NEW q, q = Append(p, c)
    PROVE  ~GlobRead(q).esc /\ GlobRead(q).word = Append(GlobRead(p).word, Lit(c))
<1>1. PICK g : g = GlobRead(p)
  OBVIOUS
<1>2. (c \in GlobChars /\ ~g.esc) = FALSE
  BY <1>1
<1>3. GlobStep(g, c) = [esc |-> FALSE, word |-> Append(g.word, Lit(c))]
  <2>1. ~(c = "BACKSLASH" /\ ~g.esc)
    BY <1>1
  <2>2. QED
    BY <1>2, <2>1, Zenon DEF GlobStep, Lit
<1>4. GlobRead(q) = [esc |-> FALSE, word |-> Append(g.word, Lit(c))]
  BY <1>1, <1>3, GlobReadAppend
<1>5. QED
  BY <1>1, <1>4

LEMMA PatternBackslash ==
    ASSUME NEW p \in Seq(Chars), ~GlobRead(p).esc, NEW q, q = Append(p, "BACKSLASH")
    PROVE  GlobRead(q).esc /\ GlobRead(q).word = GlobRead(p).word
<1>1. PICK c \in Chars : c = "BACKSLASH"
  BY DEF Chars
<1>2. GlobRead(q) = GlobStep(GlobRead(p), c)
  BY <1>1, GlobReadAppend
<1>3. QED
  BY <1>1, <1>2 DEF GlobStep

LEMMA PatternChar ==
    ASSUME NEW p \in Seq(Chars), NEW c \in Chars, ~GlobRead(p).esc,
           c # "BACKSLASH", NEW q, q = Append(p, c)
    PROVE  ~GlobRead(q).esc /\ GlobRead(q).word = Append(GlobRead(p).word, Plain(c))
<1>1. PICK g : g = GlobRead(p)
  OBVIOUS
<1>2. (c \in GlobChars /\ ~g.esc) = (c \in GlobChars)
  BY <1>1
<1>3. GlobStep(g, c) = [esc |-> FALSE, word |-> Append(g.word, Plain(c))]
  BY <1>2, Zenon DEF GlobStep, Plain
<1>4. GlobRead(q) = [esc |-> FALSE, word |-> Append(g.word, Plain(c))]
  BY <1>1, <1>3, GlobReadAppend
<1>5. QED
  BY <1>1, <1>4

\* To glob() the text means what has been read of the word.
Follows(r, p) ==
    /\ Acc(r) /\ ~r.skip
    /\ p \in Seq(Chars)
    /\ (GlobRead(p).esc <=> r.esc) /\ GlobRead(p).word = r.word

At(k, c) == line[k] = c
Extended(q, p, c) == q = Append(p, c)
InWord(r, k, c) ==
    \/ r.esc
    \/ c = "BACKSLASH"
    \/ r.quote # "none" /\ c # r.quote /\ c \notin GlobChars
    \/ r.quote = "none" /\ c \in Letters \cup GlobChars /\ ~Two(k)

\* A character that is part of a word is written as it is.
LEMMA CharFollows ==
    ASSUME NEW k \in Nat, NEW c \in Chars, At(k, c), NEW r, NEW p, Follows(r, p),
           InWord(r, k, c),
           NEW u, u = ReadChar(r, k), NEW q, Extended(q, p, c)
    PROVE  /\ Follows(u, q) /\ u.quote = r.quote /\ u.tokens = r.tokens /\ u.open
           /\ u.esc <=> (c = "BACKSLASH" /\ ~r.esc)
<1>1. /\ Acc(r) /\ ~r.skip /\ r.esc \in BOOLEAN
      /\ p \in Seq(Chars) /\ (GlobRead(p).esc <=> r.esc) /\ GlobRead(p).word = r.word
  BY Zenon DEF Follows, Acc
<1>a. q = Append(p, c) /\ q \in Seq(Chars)
  BY <1>1 DEF Extended
<1>2. CASE r.esc
  <2>1. /\ Acc(u) /\ ~u.skip /\ ~u.esc /\ u.open
        /\ u.quote = r.quote /\ u.tokens = r.tokens /\ u.word = Append(r.word, Lit(c))
    <3>1. line[k] = c
      BY DEF At
    <3>2. QED
      BY <1>1, <1>2, <3>1, ReadEscaped
  <2>2. ~GlobRead(q).esc /\ GlobRead(q).word = Append(r.word, Lit(c))
    <3>1. p \in Seq(Chars) /\ GlobRead(p).esc
      BY <1>1, <1>2
    <3>2. /\ ~GlobRead(q).esc
          /\ GlobRead(q).word = Append(GlobRead(p).word, Lit(c))
      BY <1>a, <3>1, PatternEscaped
    <3>3. QED
      BY <1>1, <3>2, Zenon
  <2>3. QED
    BY <1>a, <1>2, <2>1, <2>2, Zenon DEF Follows
<1>3. CASE ~r.esc /\ c = "BACKSLASH"
  <2>1. /\ Acc(u) /\ ~u.skip /\ u.esc /\ u.open
        /\ u.quote = r.quote /\ u.tokens = r.tokens /\ u.word = r.word
    <3>1. line[k] = "BACKSLASH" /\ ~r.esc
      BY <1>3 DEF At
    <3>2. Acc(r) /\ ~r.skip
      BY <1>1
    <3>3. QED
      BY <3>1, <3>2, ReadBackslash DEF Acc
  <2>2. GlobRead(q).esc /\ GlobRead(q).word = r.word
    BY <1>1, <1>3, <1>a, PatternBackslash
  <2>3. QED
    BY <1>a, <1>3, <2>1, <2>2, Zenon DEF Follows
<1>4. CASE ~r.esc /\ c # "BACKSLASH" /\ r.quote # "none"
  <2>1. c # r.quote /\ c \notin GlobChars
    BY <1>4 DEF InWord
  <2>2. /\ Acc(u) /\ ~u.skip /\ ~u.esc /\ u.open
        /\ u.quote = r.quote /\ u.tokens = r.tokens /\ u.word = Append(r.word, Lit(c))
    <3>1. /\ line[k] \in Chars /\ line[k] # "BACKSLASH" /\ line[k] # r.quote
          /\ ~r.esc /\ r.quote # "none"
      BY <1>4, <2>1 DEF At
    <3>2. /\ Acc(u) /\ ~u.skip /\ ~u.esc /\ u.open
          /\ u.quote = r.quote /\ u.tokens = r.tokens
          /\ u.word = Append(r.word, Lit(line[k]))
      BY <1>1, <3>1, ReadQuoted
    <3>3. QED
      BY <3>2, Zenon DEF At
  <2>3. ~GlobRead(q).esc /\ GlobRead(q).word = Append(r.word, Lit(c))
    BY <1>1, <1>4, <1>a, <2>1, PatternChar, PlainIsLit
  <2>4. QED
    BY <1>a, <1>4, <2>2, <2>3, Zenon DEF Follows
<1>5. CASE ~r.esc /\ c # "BACKSLASH" /\ r.quote = "none"
  <2>1. c \in Letters \cup GlobChars /\ ~Two(k)
    BY <1>5 DEF InWord
  <2>2. /\ Acc(u) /\ ~u.skip /\ ~u.esc /\ u.open
        /\ u.quote = "none" /\ u.tokens = r.tokens /\ u.word = Append(r.word, Plain(c))
    <3>1. line[k] \in Letters \cup GlobChars /\ ~r.esc /\ r.quote = "none"
      BY <1>5, <2>1 DEF At
    <3>2. /\ Acc(u) /\ ~u.skip /\ ~u.esc /\ u.open
          /\ u.quote = "none" /\ u.tokens = r.tokens
          /\ u.word = Append(r.word, Plain(line[k]))
      BY <1>1, <2>1, <3>1, ReadText, Zenon
    <3>3. QED
      BY <3>2, Zenon DEF At
  <2>3. ~GlobRead(q).esc /\ GlobRead(q).word = Append(r.word, Plain(c))
    BY <1>1, <1>5, <1>a, PatternChar
  <2>4. QED
    BY <1>a, <1>5, <2>2, <2>3, Zenon DEF Follows
<1>6. QED
  BY <1>1, <1>2, <1>3, <1>4, <1>5, Zenon

\* A character that glob() knows is protected in quotes.
LEMMA ProtectedFollows ==
    ASSUME NEW k \in Nat, NEW c \in GlobChars, At(k, c), NEW r, NEW p, Follows(r, p),
           ~r.esc, r.quote \in Quotes, NEW u, u = ReadChar(r, k),
           NEW b, Extended(b, p, "BACKSLASH"), NEW q, Extended(q, b, c)
    PROVE  /\ Follows(u, q) /\ u.quote = r.quote /\ u.tokens = r.tokens /\ u.open
           /\ ~u.esc
<1>1. /\ c \in Chars /\ Acc(r) /\ ~r.skip
      /\ p \in Seq(Chars) /\ ~GlobRead(p).esc /\ GlobRead(p).word = r.word
  BY DEF Follows, Chars
<1>2. c # "BACKSLASH" /\ c # r.quote /\ r.quote # "none"
  BY DEF GlobChars, Quotes
<1>3. b = Append(p, "BACKSLASH") /\ q = Append(b, c) /\ line[k] = c
  BY DEF Extended, At
<1>4. "BACKSLASH" \in Chars
  BY DEF Chars
<1>5. b \in Seq(Chars) /\ q = Append(b, c) /\ q \in Seq(Chars)
  BY <1>1, <1>3, <1>4
<1>6. GlobRead(b).esc /\ GlobRead(b).word = r.word
  BY <1>1, <1>3, PatternBackslash
<1>7. ~GlobRead(q).esc /\ GlobRead(q).word = Append(r.word, Lit(c))
  <2>1. ~GlobRead(q).esc /\ GlobRead(q).word = Append(GlobRead(b).word, Lit(c))
    <3>1. b \in Seq(Chars) /\ c \in Chars /\ GlobRead(b).esc /\ q = Append(b, c)
      BY <1>1, <1>5, <1>6, Zenon
    <3>2. QED
      BY <3>1, PatternEscaped, Zenon
  <2>2. QED
    BY <1>6, <2>1, Zenon
<1>8. /\ Acc(u) /\ ~u.skip /\ ~u.esc /\ u.open
      /\ u.quote = r.quote /\ u.tokens = r.tokens /\ u.word = Append(r.word, Lit(c))
  <2>1. /\ line[k] \in Chars /\ line[k] # "BACKSLASH" /\ line[k] # r.quote
    BY <1>1, <1>2, <1>3
  <2>2. /\ Acc(u) /\ ~u.skip /\ ~u.esc /\ u.open
        /\ u.quote = r.quote /\ u.tokens = r.tokens
        /\ u.word = Append(r.word, Lit(line[k]))
    BY <1>1, <1>2, <2>1, ReadQuoted
  <2>3. QED
    BY <1>3, <2>2, Zenon
<1>9. QED
  BY <1>5, <1>7, <1>8 DEF Follows

LEMMA AppendIs ==
    ASSUME NEW e \in Seq(Chars), NEW d \in Chars, NEW g, g = Append(e, d)
    PROVE  /\ g \in Seq(Chars) /\ Len(g) = Len(e) + 1 /\ g[Len(e) + 1] = d
           /\ \A k \in 1 .. Len(e) : g[k] = e[k]
OBVIOUS

LEMMA Longer ==
    ASSUME NEW s \in Seq(Chars), NEW p \in Seq(Chars), NEW i \in 1 .. Len(s),
           NEW k \in i .. Len(s)
    PROVE  /\ p \o SubSeq(s, i, k) = Append(p \o SubSeq(s, i, k - 1), s[k])
           /\ SubSeq(s, i, i - 1) = <<>> /\ p \o <<>> = p
<1>1. /\ SubSeq(s, i, k) \in Seq(Chars) /\ Len(SubSeq(s, i, k)) = k - i + 1
      /\ \A x \in 1 .. k - i + 1 : SubSeq(s, i, k)[x] = s[i + x - 1]
  OBVIOUS
<1>2. /\ SubSeq(s, i, k - 1) \in Seq(Chars) /\ Len(SubSeq(s, i, k - 1)) = k - i
      /\ \A x \in 1 .. k - i : SubSeq(s, i, k - 1)[x] = s[i + x - 1]
  OBVIOUS
<1>3. s[k] \in Chars
  OBVIOUS
<1>4. PICK a, b \in Seq(Chars) : a = SubSeq(s, i, k) /\ b = SubSeq(s, i, k - 1)
  BY <1>1, <1>2
<1>a. PICK c \in Chars, n \in Nat : c = s[k] /\ n = k - i
  BY <1>3
<1>5. /\ Len(a) = n + 1 /\ Len(b) = n /\ a[n + 1] = c
      /\ \A x \in 1 .. n : a[x] = b[x]
  <2>1. /\ Len(a) = n + 1 /\ \A x \in 1 .. n + 1 : a[x] = s[i + x - 1]
    BY <1>1, <1>4, <1>a
  <2>2. Len(b) = n /\ \A x \in 1 .. n : b[x] = s[i + x - 1]
    BY <1>2, <1>4, <1>a
  <2>3. n + 1 \in 1 .. n + 1 /\ i + (n + 1) - 1 = k
    BY <1>a
  <2>4. a[n + 1] = c
    BY <1>a, <2>1, <2>3
  <2>5. \A x \in 1 .. n : x \in 1 .. n + 1
    OBVIOUS
  <2>6. QED
    BY <2>1, <2>2, <2>4, <2>5
<1>6. a = Append(b, c)
  <2>1. PICK g : g = Append(b, c)
    OBVIOUS
  <2>2. /\ g \in Seq(Chars) /\ Len(g) = Len(b) + 1 /\ g[Len(b) + 1] = c
        /\ \A x \in 1 .. Len(b) : g[x] = b[x]
    BY <2>1, AppendIs
  <2>3. Len(a) = Len(g) /\ \A x \in 1 .. Len(a) : a[x] = g[x]
    BY <1>5, <2>2
  <2>4. a = g
    BY <2>2, <2>3
  <2>5. QED
    BY <2>1, <2>4
<1>7. p \o Append(b, c) = Append(p \o b, c)
  OBVIOUS
<1>b. SubSeq(s, i, i - 1) = <<>>
  OBVIOUS
<1>c. p \o <<>> = p
  OBVIOUS
<1>8. QED
  BY <1>4, <1>6, <1>7, <1>a, <1>b, <1>c, Zenon

\* So is a raw token of text, whatever its length and wherever it stands in a word.
LEMMA TextFollows ==
    ASSUME line \in Seq(Chars), NEW i \in 1 .. Len(line), RawType(i) = "TEXT",
           NEW p, Follows(Readings[i - 1], p),
           Readings[i - 1].quote \in Quotes \cup {"none"},
           NEW u, u = Readings[RawLast(i)], NEW q, q = p \o RawText(i)
    PROVE  /\ Follows(u, q) /\ u.quote = Readings[i - 1].quote
           /\ u.tokens = Readings[i - 1].tokens /\ u.open /\ ~u.esc
           /\ Len(RawText(i)) > 0
<1>1. PICK j \in i .. Len(line) :
          /\ j = RawLast(i)
          /\ \A k \in i .. j : RawType(k) = "TEXT"
  <2>1. RawLast(i) = CHOOSE j \in i .. Len(line) :
                         /\ \A k \in i .. j : RawType(k) = "TEXT"
                         /\ RawType(j + 1) # "TEXT"
    BY DEF RawLast
  <2>2. QED
    BY <2>1, TextEnds
<1>2. \A k \in i .. j : line[k] \in Letters /\ ~Two(k) /\ k \in 1 .. Len(line)
  <2> SUFFICES ASSUME NEW k \in i .. j PROVE line[k] \in Letters /\ ~Two(k) /\ k \in 1 .. Len(line)
    OBVIOUS
  <2>1. RawType(k) = "TEXT" /\ k \in 1 .. Len(line) /\ line[k] \in Chars
    BY <1>1
  <2>2. line[k] \in Letters \/ line[k] = "TEXT"
    BY <2>1 DEF RawType
  <2>3. line[k] # "TEXT"
    BY <2>1 DEF Chars, Letters, Quotes, GlobChars, Operators
  <2>4. QED
    BY <2>1, <2>2, <2>3 DEF RawType, Two
<1> DEFINE r == Readings[i - 1]
           Good(k) == /\ Follows(Readings[k], p \o SubSeq(line, i, k))
                      /\ Readings[k].quote = r.quote /\ Readings[k].tokens = r.tokens
                      /\ k >= i => Readings[k].open /\ ~Readings[k].esc
           T == {k \in Nat : k \in (i - 1) .. j /\ ~Good(k)}
<1>a. ~(i - 1 >= i)
  OBVIOUS
<1>3. p \in Seq(Chars)
  BY DEF Follows
<1>4. T = {}
  <2>1. SUFFICES ASSUME T # {} PROVE FALSE
    OBVIOUS
  <2>2. T \subseteq Nat
    OBVIOUS
  <2>3. PICK k \in T : \A y \in T : k <= y
    <3> HIDE DEF T
    <3>1. QED
      BY <2>1, <2>2, SmallestNat
  <2>4. k \in (i - 1) .. j /\ ~Good(k) /\ k \in Nat
    BY <2>3
  <2>5. CASE k = i - 1
    <3>1. SubSeq(line, i, i - 1) = <<>> /\ p \o <<>> = p
      BY <1>3, Longer
    <3>2. Good(i - 1)
      BY <1>a, <3>1, Zenon
    <3>3. QED
      BY <2>4, <2>5, <3>2
  <2>6. CASE k # i - 1
    <3>1. k \in i .. j /\ k - 1 \in (i - 1) .. j /\ k - 1 \in Nat /\ k - 1 \notin T
      BY <2>3, <2>4, <2>6
    <3>2. Good(k - 1)
      BY <3>1
    <3> HIDE DEF T
    <3>3. Readings[k] = ReadChar(Readings[k - 1], k) /\ k \in 1 .. Len(line)
      BY <1>2, <3>1, ReadingSteps
    <3>4. p \o SubSeq(line, i, k) = Append(p \o SubSeq(line, i, k - 1), line[k])
      <4>1. k \in i .. Len(line)
        BY <1>1, <3>1
      <4>2. QED
        BY <1>3, <4>1, Longer, Zenon
    <3>5. PICK a, b, v, w, c : /\ a = Readings[k - 1] /\ b = p \o SubSeq(line, i, k - 1)
                               /\ v = Readings[k] /\ w = p \o SubSeq(line, i, k)
                               /\ c = line[k]
      OBVIOUS
    <3>6. Follows(a, b) /\ a.quote = r.quote /\ a.tokens = r.tokens
      BY <3>2, <3>5
    <3>7. v = ReadChar(a, k) /\ w = Append(b, c)
      BY <3>3, <3>4, <3>5
    <3>8. c \in Letters /\ ~Two(k)
      BY <1>2, <3>1, <3>5
    <3>9. \/ a.quote # "none" /\ c # a.quote /\ c \notin GlobChars
          \/ a.quote = "none" /\ c \in Letters \cup GlobChars /\ ~Two(k)
      BY <3>6, <3>8 DEF Letters, Quotes, GlobChars
    <3>b. k \in Nat /\ c \in Chars
      BY <2>4, <3>8 DEF Chars
    <3>10. /\ Follows(v, w) /\ v.quote = a.quote /\ v.tokens = a.tokens /\ v.open
           /\ v.esc <=> (c = "BACKSLASH" /\ ~a.esc)
      <4>1. At(k, c)
        BY <3>5 DEF At
      <4>2. InWord(a, k, c)
        BY <3>9 DEF InWord
      <4>3. Follows(a, b)
        BY <3>6
      <4>4. k \in Nat /\ c \in Chars /\ v = ReadChar(a, k) /\ Extended(w, b, c)
        BY <3>b, <3>7 DEF Extended
      <4>5. QED
        BY <4>1, <4>2, <4>3, <4>4, CharFollows
    <3>11. ~v.esc
      BY <3>8, <3>10 DEF Letters, Follows, Acc
    <3>12. Good(k)
      BY <3>5, <3>6, <3>10, <3>11
    <3>13. QED
      BY <2>4, <3>12
  <2>7. QED
    BY <2>5, <2>6
<1>5. Good(j)
  <2>1. j \in Nat /\ j \in (i - 1) .. j
    BY <1>1
  <2>2. QED
    BY <1>4, <2>1
<1>6. Len(RawText(i)) > 0
  BY <1>1 DEF RawText
<1> HIDE DEF T
<1>7. QED
  BY <1>1, <1>5, <1>6 DEF RawText

-----------------------------------------------------------------------------
(* Raw tokens and buffers. *)

LEMMA OneCut ==
    ASSUME NEW s \in Seq(Chars), NEW i \in 1 .. Len(s)
    PROVE  SubSeq(s, i, i) = <<s[i]>>
<1>a. <<>> \in Seq(Chars)
  OBVIOUS
<1>1. PICK p \in Seq(Chars) : p = <<>>
  BY <1>a
<1>2. p \o SubSeq(s, i, i) = Append(p \o SubSeq(s, i, i - 1), s[i])
  BY Longer
<1>3. SubSeq(s, i, i - 1) = <<>> /\ p \o <<>> = p
  BY Longer
<1>4. SubSeq(s, i, i) \in Seq(Chars) /\ s[i] \in Chars
  OBVIOUS
<1>5. PICK a \in Seq(Chars), c \in Chars : a = SubSeq(s, i, i) /\ c = s[i]
  BY <1>4
<1>6. p \o a = Append(p, c)
  BY <1>2, <1>3, <1>5
<1>7. a = <<c>>
  <2>1. p \o a = a /\ Append(p, c) = <<c>>
    BY <1>1
  <2>2. QED
    BY <1>6, <2>1
<1>8. QED
  BY <1>5, <1>7

LEMMA OneMore ==
    ASSUME NEW e \in Seq(Chars), NEW c \in Chars, NEW d \in Chars, Len(e) = 1, e[1] = c
    PROVE  Append(e, d) = <<c, d>>
<1>1. PICK g : g = Append(e, d)
  OBVIOUS
<1>2. g \in Seq(Chars) /\ Len(g) = 2 /\ g[2] = d /\ g[1] = c
  BY <1>1, AppendIs
<1>3. <<c, d>> \in Seq(Chars)
  OBVIOUS
<1>4. PICK f \in Seq(Chars) : f = <<c, d>>
  BY <1>3
<1>5. Len(f) = 2 /\ f[1] = c /\ f[2] = d
  BY <1>4
<1>6. g = f
  BY <1>2, <1>5
<1>7. QED
  BY <1>1, <1>4, <1>6

LEMMA PairMade ==
    ASSUME NEW c \in Chars, NEW d \in Chars
    PROVE  Append(<<c>>, d) = <<c, d>>
<1>1. <<c>> \in Seq(Chars)
  OBVIOUS
<1>2. PICK e \in Seq(Chars) : e = <<c>>
  BY <1>1
<1>3. Len(e) = 1 /\ e[1] = c
  BY <1>2
<1>4. Append(e, d) = <<c, d>>
  BY <1>3, OneMore
<1>5. QED
  BY <1>2, <1>4

LEMMA PairCut ==
    ASSUME NEW s \in Seq(Chars), NEW i \in 1 .. Len(s), i + 1 \in 1 .. Len(s)
    PROVE  SubSeq(s, i, i + 1) = <<s[i], s[i + 1]>>
<1>a. <<>> \in Seq(Chars)
  OBVIOUS
<1>1. PICK p \in Seq(Chars) : p = <<>>
  BY <1>a
<1>2. PICK k \in i .. Len(s) : k = i + 1
  OBVIOUS
<1>3. p \o SubSeq(s, i, k) = Append(p \o SubSeq(s, i, k - 1), s[k])
  BY Longer
<1>4. k - 1 = i /\ SubSeq(s, i, i) = <<s[i]>>
  BY <1>2, OneCut
<1>5. SubSeq(s, i, k) \in Seq(Chars) /\ s[i] \in Chars /\ s[k] \in Chars
  BY <1>2
<1>6. PICK a \in Seq(Chars), c \in Chars, d \in Chars :
          a = SubSeq(s, i, k) /\ c = s[i] /\ d = s[k]
  BY <1>5
<1>7. p \o a = Append(p \o <<c>>, d)
  BY <1>3, <1>4, <1>6
<1>8. a = <<c, d>>
  <2>1. p \o a = a /\ p \o <<c>> = <<c>>
    BY <1>1
  <2>2. Append(<<c>>, d) = <<c, d>>
    BY PairMade
  <2>3. QED
    BY <1>7, <2>1, <2>2
<1>9. QED
  BY <1>2, <1>6, <1>8

LEMMA RawTokens ==
    ASSUME line \in Seq(Chars), NEW i \in 1 .. Len(line)
    PROVE  \/ RawType(i) = "TEXT"
           \/ /\ RawType(i) = "2_ANGLE_BRACKET_R" /\ Two(i) /\ i + 1 \in 1 .. Len(line)
              /\ RawLast(i) = i + 1 /\ RawText(i) = <<"2", "ANGLE_BRACKET_R">>
           \/ /\ RawType(i) = line[i] /\ ~Two(i) /\ line[i] \notin Letters
              /\ RawLast(i) = i /\ RawText(i) = <<line[i]>>
<1>1. i \in Nat /\ ~(i > Len(line)) /\ line[i] \in Chars
  OBVIOUS
<1>2. CASE Two(i)
  <2>1. RawType(i) = "2_ANGLE_BRACKET_R"
    BY <1>1, <1>2 DEF RawType, Two
  <2>2. RawLast(i) = i + 1
    BY <2>1 DEF RawLast
  <2>3. i + 1 \in 1 .. Len(line) /\ line[i] = "2" /\ line[i + 1] = "ANGLE_BRACKET_R"
    BY <1>1, <1>2 DEF Two
  <2>4. SubSeq(line, i, i + 1) = <<line[i], line[i + 1]>>
    BY <2>3, PairCut
  <2>5. RawText(i) = <<"2", "ANGLE_BRACKET_R">>
    BY <2>2, <2>3, <2>4 DEF RawText
  <2>6. QED
    BY <1>2, <2>1, <2>2, <2>3, <2>5
<1>3. CASE ~Two(i) /\ line[i] \in Letters
  BY <1>1, <1>3 DEF RawType, Two
<1>4. CASE ~Two(i) /\ line[i] \notin Letters
  <2>1. RawType(i) = line[i]
    BY <1>1, <1>4 DEF RawType, Two
  <2>2. RawType(i) \notin {"END", "2_ANGLE_BRACKET_R", "TEXT"}
    BY <1>1, <2>1 DEF Chars, Letters, Quotes, GlobChars, Operators
  <2>3. RawLast(i) = i
    BY <2>2 DEF RawLast
  <2>4. SubSeq(line, i, i) = <<line[i]>>
    BY OneCut
  <2>5. QED
    BY <1>4, <2>1, <2>3, <2>4 DEF RawText
<1>5. QED
  BY <1>2, <1>3, <1>4

\* The text that counts.
Kept(c) == SubSeq(c.str, 1, c.len)

\* Only after a match is there more text in the buffer than counts.
Leftover(c) == c.len # Len(c.str) => c.len = 0 /\ matches # {}

LEMMA KeptText ==
    ASSUME NEW c, SoundCat(c), NEW text \in Seq(Chars), NEW u, u = AppendToCatbuf(c, text)
    PROVE  /\ Kept(u) = Kept(c) \o text
           /\ u.len = Len(u.str) /\ u.len = c.len + Len(text)
           /\ Kept(c) \in Seq(Chars)
<1>1. /\ c.str \in Seq(Chars) /\ c.len \in Nat /\ c.len <= Len(c.str)
  BY DEF SoundCat
<1>2. PICK k : k = SubSeq(c.str, 1, c.len)
  OBVIOUS
<1>3. k \in Seq(Chars) /\ Len(k) = c.len
  BY <1>1, <1>2
<1>a. k \o text \in Seq(Chars)
  BY <1>3
<1>4. PICK s \in Seq(Chars) : s = k \o text
  BY <1>a
<1>5. Len(s) = c.len + Len(text) /\ SubSeq(s, 1, Len(s)) = s
  <2>1. Len(s) = c.len + Len(text)
    BY <1>3, <1>4
  <2>2. SubSeq(s, 1, Len(s)) = s
    OBVIOUS
  <2>3. QED
    BY <2>1, <2>2
<1>6. u.str = s /\ u.len = c.len + Len(text)
  BY <1>2, <1>4 DEF AppendToCatbuf
<1>7. Kept(u) = s
  BY <1>5, <1>6 DEF Kept
<1>8. QED
  BY <1>2, <1>3, <1>4, <1>5, <1>6, <1>7 DEF Kept

LEMMA BuffersKeep ==
    ASSUME Inv, Leftover(catbuf)
    PROVE  /\ Kept(Buffers.cat) = Kept(catbuf) /\ Buffers.cat.len = catbuf.len
           /\ Leftover(Buffers.cat)
           /\ Buffers.cat.len # Len(Buffers.cat.str) => catbuf.len # Len(catbuf.str)
           /\ Buffers.tok = tokbuf /\ (Buffers.stale <=> stale)
<1>1. SoundCat(catbuf)
  BY DEF Inv
<1>2. CASE catbuf.cap = 0
  <2>1. Buffers.cat.str = <<>> /\ Buffers.cat.len = 0 /\ Len(<<>>) = 0
    BY <1>2 DEF Buffers, NullBuf
  <2>2. catbuf.len = 0 /\ catbuf.str \in Seq(Chars)
    BY <1>1, <1>2 DEF SoundCat
  <2>3. Kept(catbuf) = <<>> /\ Kept(Buffers.cat) = <<>>
    BY <2>1, <2>2 DEF Kept
  <2>4. QED
    BY <2>1, <2>2, <2>3 DEF Leftover, Buffers
<1>3. CASE catbuf.cap # 0
  BY <1>3 DEF Buffers
<1>4. QED
  BY <1>2, <1>3

NoEnd(tokens) == \A i \in 1 .. Len(tokens) : tokens[i].type # "END"

LEMMA NoEndAppends ==
    ASSUME NEW S, NEW tokens \in Seq(S), NoEnd(tokens), NEW token, token.type # "END"
    PROVE  NoEnd(Append(tokens, token))
<1>1. PICK u : u = Append(tokens, token)
  OBVIOUS
<1>2. /\ Len(u) = Len(tokens) + 1 /\ u[Len(tokens) + 1] = token
      /\ \A i \in 1 .. Len(tokens) : u[i] = tokens[i]
  BY <1>1
<1>3. NoEnd(u)
  BY <1>2 DEF NoEnd
<1>4. QED
  BY <1>1, <1>3

\* A word is ended as the rules say, and the buffer is empty then or holds what was
\* matched, with its length reset.
LEMMA EndWordReads ==
    ASSUME NEW b, Sound(b), Typed(b), Leftover(b.cat), NEW e, e = EndWord(b)
    PROVE  /\ e.cat.len = 0 /\ Kept(e.cat) = <<>> /\ Leftover(e.cat)
           /\ e.stale <=> (b.stale \/ b.cat.len # Len(b.cat.str))
           /\ ~e.stale => e.tok.tokens = b.tok.tokens \o Expansion(GlobRead(Kept(b.cat)).word)
           /\ NoEnd(b.tok.tokens) => NoEnd(e.tok.tokens)
<1> DEFINE str == b.cat.str
           word == GlobWord(str)
           first == AppendToTokbuf(b.tok, Paths(word)[1])
           literal == WordToken(Literal(Unescaped(str)), 0)
           reused == b.stale \/ b.cat.len # Len(str)
           matched == [cat |-> [b.cat EXCEPT !.len = 0],
                       tok |-> IF Active(word)
                                 THEN AppendToTokbuf(first, Paths(word)[2])
                                 ELSE first,
                       stale |-> reused]
           unmatched == [cat |-> NullBuf, tok |-> AppendToTokbuf(b.tok, literal),
                         stale |-> reused]
<1>1. e = IF Matching(word) THEN matched ELSE unmatched
  BY DEF EndWord
<1>2. /\ str \in Seq(Chars) /\ b.tok.tokens \in Seq(Tokens)
      /\ b.cat \in [str : Seq(Chars), len : Nat, cap : Nat]
  BY DEF Typed, TypedTok, Sound, SoundCat
<1>3. word \in Seq(Marks) /\ literal.type = "WORD"
  BY <1>2, UnescapedIsWord DEF WordToken
<1>4. e.stale <=> reused
  <2>1. matched.stale = reused /\ unmatched.stale = reused
    BY Zenon
  <2> HIDE DEF matched, unmatched
  <2>2. e.stale = reused
    BY <1>1, <2>1, Zenon
  <2>3. QED
    BY <2>2
<1>5. Matching(word) => matches # {}
  BY DEF Matching
<1>6. Kept(b.cat) = str \/ reused
  <2>1. SubSeq(str, 1, Len(str)) = str
    BY <1>2
  <2>2. QED
    BY <2>1 DEF Kept
<1>7. literal = WordToken(Literal([i \in DOMAIN word |-> word[i][1]]), 0)
  <2>1. PICK t, w : t = Unescaped(str) /\ w = word
    OBVIOUS
  <2>2. /\ w \in Seq(Marks) /\ t \in Seq(Chars) /\ Len(w) = Len(t)
        /\ \A i \in 1 .. Len(w) : w[i][1] = t[i]
    BY <1>2, <2>1, UnescapedIsWord
  <2>3. t = [i \in DOMAIN w |-> w[i][1]]
    BY <2>2
  <2>4. QED
    BY <2>1, <2>3
<1>8. CASE Matching(word)
  <2>1. e = matched
    BY <1>1, <1>8
  <2>2. /\ e.cat.len = 0 /\ e.cat.str = str
    BY <1>2, <2>1
  <2>3. Kept(e.cat) = <<>>
    <3>1. SubSeq(str, 1, 0) = <<>>
      BY <1>2
    <3>2. QED
      BY <2>2, <3>1 DEF Kept
  <2>4. PICK one, two : one = Paths(word)[1] /\ two = Paths(word)[2]
    OBVIOUS
  <2>5. first.tokens = Append(b.tok.tokens, one)
    BY <2>4 DEF AppendToTokbuf
  <2>6. e.tok = IF Active(word) THEN AppendToTokbuf(first, two) ELSE first
    BY <2>1, <2>4
  <2>7. /\ Active(word) => e.tok.tokens = Append(Append(b.tok.tokens, one), two)
        /\ ~Active(word) => e.tok.tokens = Append(b.tok.tokens, one)
    <3> HIDE DEF first, word
    <3>1. AppendToTokbuf(first, two).tokens = Append(first.tokens, two)
      BY DEF AppendToTokbuf
    <3>2. QED
      BY <2>5, <2>6, <3>1
  <2>8. /\ one \in Tokens /\ one.type = "WORD" /\ (Active(word) => two \in Tokens /\ two.type = "WORD")
        /\ Paths(word) = IF Active(word) THEN <<one, two>> ELSE <<one>>
    <3>1. /\ WordToken(word, 0) \in Tokens /\ WordToken(word, 1) \in Tokens
          /\ WordToken(word, 2) \in Tokens
      BY <1>3, WordTyped
    <3>2. /\ WordToken(word, 0).type = "WORD" /\ WordToken(word, 1).type = "WORD"
          /\ WordToken(word, 2).type = "WORD"
      BY DEF WordToken
    <3>3. QED
      BY <2>4, <3>1, <3>2 DEF Paths
  <2> HIDE DEF first, matched, unmatched, literal
  <2>9. e.tok.tokens = b.tok.tokens \o Paths(word)
    <3>1. PICK a \in Seq(Tokens) : a = b.tok.tokens
      BY <1>2
    <3>2. CASE Active(word)
      <4>1. Append(Append(a, one), two) = a \o <<one, two>>
        BY <2>8, <3>2
      <4>2. QED
        BY <2>7, <2>8, <3>1, <3>2, <4>1
    <3>3. CASE ~Active(word)
      <4>1. Append(a, one) = a \o <<one>>
        BY <2>8
      <4>2. QED
        BY <2>7, <2>8, <3>1, <3>3, <4>1
    <3>4. QED
      BY <3>2, <3>3
  <2>10. NoEnd(b.tok.tokens) => NoEnd(e.tok.tokens)
    <3>1. PICK a \in Seq(Tokens) : a = b.tok.tokens
      BY <1>2
    <3>2. ASSUME NoEnd(a) PROVE NoEnd(Append(a, one))
      BY <2>8, <3>2, NoEndAppends
    <3>3. ASSUME NoEnd(a), Active(word) PROVE NoEnd(Append(Append(a, one), two))
      <4>a. Append(a, one) \in Seq(Tokens)
        BY <2>8
      <4>1. PICK d \in Seq(Tokens) : d = Append(a, one)
        BY <4>a
      <4>2. NoEnd(d)
        BY <3>2, <3>3, <4>1
      <4>3. NoEnd(Append(d, two))
        BY <2>8, <3>3, <4>2, NoEndAppends
      <4>4. QED
        BY <4>1, <4>3
    <3>4. QED
      BY <2>7, <3>1, <3>2, <3>3
  <2>11. ~e.stale => e.tok.tokens = b.tok.tokens \o Expansion(GlobRead(Kept(b.cat)).word)
    <3>1. Expansion(word) = Paths(word)
      BY <1>8 DEF Expansion
    <3>2. ~e.stale => GlobRead(Kept(b.cat)).word = word
      BY <1>4, <1>6 DEF GlobWord
    <3>3. QED
      BY <2>9, <3>1, <3>2
  <2>12. Leftover(e.cat)
    BY <1>5, <1>8, <2>2 DEF Leftover
  <2>13. QED
    BY <1>4, <2>2, <2>3, <2>10, <2>11, <2>12
<1>9. CASE ~Matching(word)
  <2>1. e = unmatched
    BY <1>1, <1>9
  <2>2. e.cat.len = 0 /\ e.cat.str = <<>> /\ Len(<<>>) = 0 /\ SubSeq(<<>>, 1, 0) = <<>>
    BY <2>1 DEF NullBuf
  <2>3. e.tok.tokens = Append(b.tok.tokens, literal)
    BY <2>1 DEF AppendToTokbuf
  <2> HIDE DEF first, matched, unmatched, literal
  <2>4. e.tok.tokens = b.tok.tokens \o <<literal>>
    <3>1. PICK a \in Seq(Tokens) : a = b.tok.tokens
      BY <1>2
    <3>a. PICK t : t = literal
      OBVIOUS
    <3>2. Append(a, t) = a \o <<t>>
      OBVIOUS
    <3>3. QED
      BY <2>3, <3>1, <3>a, <3>2
  <2>5. NoEnd(b.tok.tokens) => NoEnd(e.tok.tokens)
    BY <1>2, <1>3, <2>3, NoEndAppends
  <2>6. ~e.stale => e.tok.tokens = b.tok.tokens \o Expansion(GlobRead(Kept(b.cat)).word)
    <3>1. Expansion(word) = <<literal>>
      BY <1>7, <1>9 DEF Expansion
    <3>2. ~e.stale => GlobRead(Kept(b.cat)).word = word
      BY <1>4, <1>6 DEF GlobWord
    <3>3. QED
      BY <2>4, <3>1, <3>2
  <2>7. Leftover(e.cat) /\ Kept(e.cat) = <<>>
    BY <2>2 DEF Leftover, Kept
  <2>8. QED
    BY <1>4, <2>2, <2>5, <2>6, <2>7
<1>10. QED
  BY <1>8, <1>9

-----------------------------------------------------------------------------
(* What lex adds to the word that it is in. *)

\* What has been read by the rules up to the next raw token.
Reached == Readings[cp - 1]

\* The machine beside the rules, where lex goes on.
Simulates ==
    /\ Follows(Reached, Kept(catbuf))
    /\ (Reached.esc <=> escape) /\ (Reached.open <=> state # "DULL")
    /\ Reached.quote = IF state = "QUOTED" THEN startQuote ELSE "none"
    /\ state = "QUOTED" => startQuote \in Quotes
    /\ ~stale => Reached.tokens = tokbuf.tokens
    /\ NoEnd(tokbuf.tokens)

Added ==
    IF escape THEN RawText(cp)
    ELSE IF Raw = "BACKSLASH" THEN <<"BACKSLASH">> ELSE Protection \o RawText(cp)

LEMMA Joined ==
    ASSUME NEW p \in Seq(Chars), NEW c \in Chars, NEW d \in Chars
    PROVE  /\ p \o <<c>> = Append(p, c)
           /\ p \o <<c, d>> = Append(Append(p, c), d)
           /\ <<>> \o <<c>> = <<c>> /\ <<c>> \o <<d>> = <<c, d>>
           /\ <<>> \o p = p
<1>1. p \o <<c>> = Append(p, c) /\ <<>> \o <<c>> = <<c>> /\ <<>> \o p = p
  OBVIOUS
<1>2. p \o <<c, d>> = Append(Append(p, c), d)
  <2>1. PICK e : e = <<c>>
    OBVIOUS
  <2>2. e \in Seq(Chars)
    BY <2>1
  <2>3. p \o Append(e, d) = Append(p \o e, d)
    BY <2>2
  <2>4. QED
    BY <1>1, <2>1, <2>3, PairMade
<1>3. <<c>> \o <<d>> = <<c, d>>
  <2>1. PICK e : e = <<c>>
    OBVIOUS
  <2>2. e \in Seq(Chars)
    BY <2>1
  <2>3. e \o <<d>> = Append(e, d)
    BY <2>2
  <2>4. QED
    BY <2>1, <2>3, PairMade
<1>4. QED
  BY <1>1, <1>2, <1>3

\* The next character that the rules read, and the one after it.
LEMMA ReadsNext ==
    ASSUME Control, cp <= Len(line)
    PROVE  /\ cp \in 1 .. Len(line) /\ cp \in Nat /\ Readings[cp] = ReadChar(Reached, cp)
           /\ cp + 1 \in 1 .. Len(line) =>
                  Readings[cp + 1] = ReadChar(ReadChar(Reached, cp), cp + 1)
<1>1. line \in Seq(Chars) /\ cp \in 1 .. Len(line) /\ cp \in Nat /\ (cp + 1) - 1 = cp
  BY DEF Control
<1>2. Readings[cp] = ReadChar(Readings[cp - 1], cp)
  BY <1>1, ReadingSteps
<1>3. cp + 1 \in 1 .. Len(line) => Readings[cp + 1] = ReadChar(Readings[cp], cp + 1)
  BY <1>1, ReadingSteps
<1>4. QED
  BY <1>1, <1>2, <1>3 DEF Reached

\* In a word, `2>` is text only in quotes, where no escaped one splits.
LEMMA TwoInQuotes ==
    ASSUME Control, ~SplitsTwo, StateAfter \in {"QUOTED", "UNQUOTED"},
           Raw = "2_ANGLE_BRACKET_R"
    PROVE  state = "QUOTED"
BY DEF Control, SplitsTwo, StateAfter, Markers, GlobChars

LEMMA TwoFollows ==
    ASSUME Control, Simulates, cp <= Len(line), state = "QUOTED", Two(cp),
           NEW u, u = Readings[cp + 1], NEW q, q = Kept(catbuf) \o <<"2", "ANGLE_BRACKET_R">>
    PROVE  /\ Follows(u, q) /\ u.quote = Reached.quote /\ u.tokens = Reached.tokens
           /\ u.open /\ ~u.esc
<1>1. PICK r, p, c, d, i : /\ r = Reached /\ p = Kept(catbuf) /\ c = "2"
                           /\ d = "ANGLE_BRACKET_R" /\ i = cp
  OBVIOUS
<1>2. /\ Follows(r, p) /\ r.quote \in Quotes /\ r.quote # "none"
  BY <1>1 DEF Simulates, Quotes
<1>3. c \in Chars /\ d \in Chars /\ c # "BACKSLASH" /\ d # "BACKSLASH"
  BY <1>1 DEF Chars, Letters, Operators
<1>4. c \notin Quotes /\ d \notin Quotes /\ c \notin GlobChars /\ d \notin GlobChars
  BY <1>1 DEF Quotes, GlobChars
<1>5. i \in Nat /\ i + 1 \in Nat /\ i + 1 \in 1 .. Len(line) /\ At(i, c) /\ At(i + 1, d)
  BY <1>1 DEF Control, Two, At
<1>6. PICK x, y : x = ReadChar(r, i) /\ y = Append(p, c)
  OBVIOUS
<1>7. InWord(r, i, c) /\ Extended(y, p, c)
  BY <1>2, <1>4, <1>6 DEF InWord, Extended
<1>8. /\ Follows(x, y) /\ x.quote = r.quote /\ x.tokens = r.tokens /\ x.open
      /\ x.esc <=> (c = "BACKSLASH" /\ ~r.esc)
  BY <1>2, <1>3, <1>5, <1>6, <1>7, CharFollows
<1>9. InWord(x, i + 1, d)
  BY <1>2, <1>4, <1>8 DEF InWord
<1>10. u = ReadChar(x, i + 1)
  BY <1>1, <1>5, <1>6, ReadsNext
<1>11. Extended(q, y, d)
  <2>1. p \in Seq(Chars)
    BY <1>2 DEF Follows
  <2>2. q = Append(y, d)
    BY <1>1, <1>3, <1>6, <2>1, Joined
  <2>3. QED
    BY <2>2 DEF Extended
<1>12. /\ Follows(u, q) /\ u.quote = x.quote /\ u.tokens = x.tokens /\ u.open
       /\ u.esc <=> (d = "BACKSLASH" /\ ~x.esc)
  <2>1. PICK k \in Nat : k = i + 1
    BY <1>5
  <2>2. At(k, d) /\ InWord(x, k, d) /\ u = ReadChar(x, k)
    BY <1>5, <1>9, <1>10, <2>1
  <2>3. QED
    BY <1>3, <1>8, <1>11, <2>2, CharFollows
<1>13. QED
  BY <1>1, <1>3, <1>8, <1>12

LEMMA SingleFollows ==
    ASSUME Control, Simulates, cp <= Len(line), ~OpensQuote,
           StateAfter \in {"QUOTED", "UNQUOTED"},
           NEW c \in Chars, c \notin Letters, At(cp, c), ~Two(cp), Raw = c,
           RawText(cp) = <<c>>,
           NEW u, u = Readings[cp], NEW q, q = Kept(catbuf) \o Added
    PROVE  /\ Follows(u, q) /\ u.quote = Reached.quote /\ u.tokens = Reached.tokens
           /\ u.open /\ (u.esc <=> ~escape /\ c = "BACKSLASH")
           /\ Added \in Seq(Chars) /\ Len(Added) > 0
<1>1. PICK r, p, i : r = Reached /\ p = Kept(catbuf) /\ i = cp
  OBVIOUS
<1>2. /\ Follows(r, p) /\ p \in Seq(Chars) /\ (r.esc <=> escape)
      /\ r.quote = (IF state = "QUOTED" THEN startQuote ELSE "none")
      /\ state = "QUOTED" => startQuote \in Quotes
  BY <1>1 DEF Simulates, Follows
<1>3. i \in Nat /\ At(i, c) /\ u = ReadChar(r, i) /\ ~Two(i)
  BY <1>1, ReadsNext
<1>4. <<c>> \in Seq(Chars) /\ Len(<<c>>) > 0 /\ <<>> \o <<c>> = <<c>>
      /\ "BACKSLASH" \in Chars
  BY DEF Chars
<1>5. CASE escape \/ c \notin GlobChars \/ state # "QUOTED"
  <2>1. Added = <<c>>
    BY <1>4, <1>5 DEF Added, Protection
  <2>2. InWord(r, i, c)
    <3>1. CASE escape
      BY <1>2, <3>1 DEF InWord
    <3>2. CASE ~escape /\ state = "QUOTED" /\ c # "BACKSLASH"
      <4>1. c # startQuote
        BY <3>2 DEF StateAfter
      <4>2. r.quote \in Quotes /\ c # r.quote /\ c \notin GlobChars
        BY <1>2, <1>5, <3>2, <4>1
      <4>3. QED
        BY <4>2 DEF InWord, Quotes
    <3>3. CASE ~escape /\ state # "QUOTED" /\ c # "BACKSLASH"
      <4>1. c \in Markers
        BY <3>3 DEF StateAfter
      <4>2. c \in GlobChars
        BY <3>3, <4>1 DEF Markers, Chars, Letters, Quotes, GlobChars, Operators
      <4>3. r.quote = "none"
        BY <1>2, <3>3
      <4>4. QED
        BY <1>3, <4>2, <4>3 DEF InWord
    <3>4. CASE c = "BACKSLASH"
      BY <3>4 DEF InWord
    <3>5. QED
      BY <3>1, <3>2, <3>3, <3>4
  <2>3. Extended(q, p, c)
    BY <1>1, <1>2, <2>1, Joined DEF Extended
  <2>4. /\ Follows(u, q) /\ u.quote = r.quote /\ u.tokens = r.tokens /\ u.open
        /\ u.esc <=> (c = "BACKSLASH" /\ ~r.esc)
    BY <1>2, <1>3, <2>2, <2>3, CharFollows
  <2>5. QED
    BY <1>1, <1>2, <1>4, <2>1, <2>4
<1>6. CASE ~escape /\ c \in GlobChars /\ state = "QUOTED"
  <2>1. c # "BACKSLASH"
    BY <1>6 DEF GlobChars
  <2>2. Added = <<"BACKSLASH", c>>
    <3>1. Added = <<"BACKSLASH">> \o <<c>>
      BY <1>6, <2>1 DEF Added, Protection
    <3>2. QED
      BY <1>2, <1>4, <3>1, Joined
  <2>3. q = Append(Append(p, "BACKSLASH"), c)
    BY <1>1, <1>2, <1>4, <2>2, Joined
  <2>4. ~r.esc /\ r.quote \in Quotes
    BY <1>2, <1>6
  <2>5. /\ Follows(u, q) /\ u.quote = r.quote /\ u.tokens = r.tokens /\ u.open
        /\ ~u.esc
    <3>1. PICK b : b = Append(p, "BACKSLASH")
      OBVIOUS
    <3>2. Extended(b, p, "BACKSLASH") /\ Extended(q, b, c)
      BY <2>3, <3>1 DEF Extended
    <3>3. QED
      BY <1>2, <1>3, <1>6, <2>4, <3>2, ProtectedFollows
  <2>6. <<"BACKSLASH", c>> \in Seq(Chars) /\ Len(<<"BACKSLASH", c>>) > 0
    BY <1>4
  <2>7. QED
    BY <1>1, <2>1, <2>2, <2>5, <2>6
<1>7. QED
  BY <1>5, <1>6

\* What lex adds to a word is what the rules read into it.
LEMMA AddedFollows ==
    ASSUME Control, Simulates, cp <= Len(line), ~OpensQuote, ~SplitsTwo,
           StateAfter \in {"QUOTED", "UNQUOTED"},
           NEW u, u = Readings[RawLast(cp)], NEW q, q = Kept(catbuf) \o Added
    PROVE  /\ Follows(u, q) /\ u.quote = Reached.quote /\ u.tokens = Reached.tokens
           /\ u.open /\ (u.esc <=> ~escape /\ Raw = "BACKSLASH")
           /\ Added \in Seq(Chars) /\ Len(Added) > 0
<1>1. line \in Seq(Chars) /\ cp \in 1 .. Len(line)
  BY ReadsNext DEF Control
<1>2. RawText(cp) \in Seq(Chars) /\ <<>> \o RawText(cp) = RawText(cp)
  <2>1. RawText(cp) \in Seq(Chars)
    BY <1>1, RawTextType
  <2>2. "2" \in Chars
    BY DEF Chars, Letters
  <2>3. QED
    BY <2>1, <2>2, Joined
<1>3. CASE Raw = "TEXT"
  <2>1. Added = RawText(cp)
    BY <1>2, <1>3 DEF Added, Protection, GlobChars
  <2>2. /\ Follows(Readings[cp - 1], Kept(catbuf))
        /\ Readings[cp - 1].quote \in Quotes \cup {"none"}
    BY DEF Simulates, Reached
  <2>3. /\ Follows(u, q) /\ u.quote = Readings[cp - 1].quote
        /\ u.tokens = Readings[cp - 1].tokens /\ u.open /\ ~u.esc
        /\ Len(RawText(cp)) > 0
    <3>1. RawType(cp) = "TEXT" /\ q = Kept(catbuf) \o RawText(cp)
      BY <1>3, <2>1 DEF Raw
    <3>2. QED
      BY <1>1, <2>2, <3>1, TextFollows
  <2>4. QED
    BY <1>2, <1>3, <2>1, <2>3 DEF Reached
<1>4. CASE Raw = "2_ANGLE_BRACKET_R" /\ Two(cp) /\ RawLast(cp) = cp + 1
           /\ RawText(cp) = <<"2", "ANGLE_BRACKET_R">>
  <2>1. state = "QUOTED"
    BY <1>4, TwoInQuotes
  <2>2. Added = <<"2", "ANGLE_BRACKET_R">>
    BY <1>2, <1>4 DEF Added, Protection, GlobChars
  <2>3. /\ Follows(u, q) /\ u.quote = Reached.quote /\ u.tokens = Reached.tokens
        /\ u.open /\ ~u.esc
    BY <1>4, <2>1, <2>2, TwoFollows
  <2>4. Len(<<"2", "ANGLE_BRACKET_R">>) > 0
    OBVIOUS
  <2>5. QED
    BY <1>2, <1>4, <2>2, <2>3, <2>4
<1>5. CASE Raw = line[cp] /\ ~Two(cp) /\ line[cp] \notin Letters
           /\ RawLast(cp) = cp /\ RawText(cp) = <<line[cp]>>
  <2>1. PICK c \in Chars : c = line[cp]
    BY <1>1
  <2>2. At(cp, c) /\ Raw = c /\ c \notin Letters /\ RawText(cp) = <<c>> /\ u = Readings[cp]
    BY <1>5, <2>1 DEF At
  <2>3. /\ Follows(u, q) /\ u.quote = Reached.quote /\ u.tokens = Reached.tokens
        /\ u.open /\ (u.esc <=> ~escape /\ c = "BACKSLASH")
        /\ Added \in Seq(Chars) /\ Len(Added) > 0
    BY <1>5, <2>2, SingleFollows
  <2>4. QED
    BY <2>2, <2>3
<1>6. QED
  BY <1>1, <1>3, <1>4, <1>5, RawTokens DEF Raw

\* lex adds it to the buffer, and makes no token of it.
LEMMA EffectAdds ==
    ASSUME Control, ~SplitsTwo, StateAfter \in {"QUOTED", "UNQUOTED"},
           NEW b, Sound(b), NEW e, e = Effect(b)
    PROVE  /\ Kept(e.cat) = Kept(b.cat) \o Added
           /\ e.cat.len = b.cat.len + Len(Added) /\ e.cat.len = Len(e.cat.str)
           /\ e.tok = b.tok /\ e.stale = b.stale
<1>1. RawText(cp) \in Seq(Chars) /\ <<"BACKSLASH">> \in Seq(Chars) /\ Protection \in Seq(Chars)
  <2>1. RawText(cp) \in Seq(Chars)
    BY RawTextType DEF Control
  <2>2. <<"BACKSLASH">> \in Seq(Chars) /\ <<>> \in Seq(Chars)
    BY DEF Chars
  <2>3. QED
    BY <2>1, <2>2 DEF Protection
<1>2. \A text \in Seq(Chars) :
          /\ AppendText(b, text).cat = AppendToCatbuf(b.cat, text)
          /\ AppendText(b, text).tok = b.tok /\ AppendText(b, text).stale = b.stale
  BY DEF AppendText, Sound
<1>3. CASE escape
  <2>1. e = AppendText(b, RawText(cp)) /\ Added = RawText(cp)
    BY <1>3 DEF Effect, Added
  <2>2. PICK y \in Seq(Chars) : y = Added
    BY <1>1, <2>1
  <2>a. e = AppendText(b, y)
    BY <2>1, <2>2
  <2>3. e.cat = AppendToCatbuf(b.cat, y) /\ e.tok = b.tok /\ e.stale = b.stale
    BY <1>2, <2>a
  <2>4. SoundCat(b.cat)
    BY DEF Sound
  <2>5. QED
    BY <2>2, <2>3, <2>4, KeptText
<1>4. CASE ~escape /\ Raw = "BACKSLASH"
  <2>1. e = AppendText(b, <<"BACKSLASH">>) /\ Added = <<"BACKSLASH">>
    BY <1>4 DEF Effect, Added
  <2>2. PICK y \in Seq(Chars) : y = Added
    BY <1>1, <2>1
  <2>a. e = AppendText(b, y)
    BY <2>1, <2>2
  <2>3. e.cat = AppendToCatbuf(b.cat, y) /\ e.tok = b.tok /\ e.stale = b.stale
    BY <1>2, <2>a
  <2>4. SoundCat(b.cat)
    BY DEF Sound
  <2>5. QED
    BY <2>2, <2>3, <2>4, KeptText
<1>5. CASE ~escape /\ Raw # "BACKSLASH"
  <2>1. PICK x, y, d : x = Protection /\ y = RawText(cp) /\ d = AppendText(b, x)
    OBVIOUS
  <2>2. e = AppendText(d, y) /\ Added = x \o y
    BY <1>5, <2>1 DEF Effect, Added
  <2>3. x \in Seq(Chars) /\ y \in Seq(Chars) /\ Sound(d)
    BY <1>1, <2>1, TextAppends
  <2>4. /\ d.cat = AppendToCatbuf(b.cat, x) /\ d.tok = b.tok /\ d.stale = b.stale
    BY <1>2, <2>1, <2>3
  <2>5. /\ Kept(d.cat) = Kept(b.cat) \o x /\ d.cat.len = b.cat.len + Len(x)
        /\ Kept(b.cat) \in Seq(Chars)
    BY <2>3, <2>4, KeptText DEF Sound
  <2>6. /\ e.cat = AppendToCatbuf(d.cat, y) /\ e.tok = d.tok /\ e.stale = d.stale
    BY <2>2, <2>3 DEF AppendText, Sound
  <2>7. /\ Kept(e.cat) = Kept(d.cat) \o y /\ e.cat.len = d.cat.len + Len(y)
        /\ e.cat.len = Len(e.cat.str)
    BY <2>3, <2>6, KeptText DEF Sound
  <2>8. PICK k \in Seq(Chars) : k = Kept(b.cat)
    BY <2>5
  <2>9. (k \o x) \o y = k \o (x \o y) /\ Len(x \o y) = Len(x) + Len(y)
    BY <2>3
  <2>10. b.cat.len \in Nat /\ Len(x) \in Nat /\ Len(y) \in Nat
    BY <2>3 DEF Sound, SoundCat
  <2>11. QED
    BY <2>2, <2>4, <2>5, <2>6, <2>7, <2>8, <2>9, <2>10
<1>6. QED
  BY <1>3, <1>4, <1>5

-----------------------------------------------------------------------------
(* The machine follows the rules: the steps inside a line. *)

\* Two quotes of a kind side by side: what an empty word takes.
Doubled == \E i \in 1 .. Len(line) - 1 : line[i] \in Quotes /\ line[i + 1] = line[i]

\* An empty word is only possible after quotes that hold nothing.
Lengths ==
    /\ Leftover(catbuf)
    /\ state = "UNQUOTED" => catbuf.len > 0
    /\ state = "QUOTED" /\ catbuf.len = 0 => cp > 1 /\ line[cp - 1] = startQuote
    /\ state = "QUOTED_END" /\ catbuf.len = 0 => Doubled

StaleWords == stale => matches # {} /\ Doubled

Following == Simulates /\ Lengths /\ StaleWords

LEMMA Arrives ==
    ASSUME Control, Consume
    PROVE  /\ line' = line /\ matches' = matches /\ Reached' = Readings[RawLast(cp)]
           /\ (Doubled' <=> Doubled)
<1>1. line' = line /\ matches' = matches
  BY DEF Consume
<1>2. Readings' = Readings
  BY <1>1, ReadingsSame
<1>3. cp' - 1 = RawLast(cp)
  BY RawLastType DEF Control, Consume
<1>4. QED
  BY <1>1, <1>2, <1>3 DEF Reached, Doubled

LEMMA WordGoesOn ==
    ASSUME Inv, Following, LexToken, cp <= Len(line), ~SplitsTwo,
           StateAfter \in {"QUOTED", "UNQUOTED"}
    PROVE  Following'
<1>1. Control /\ Sound(Buffers) /\ Leftover(catbuf)
  BY BuffersSound DEF Inv, Following, Lengths
<1>2. Raw # "END" /\ ~LeavesWord
  <2>1. Raw # "END"
    BY <1>1, RawTypeType DEF Raw, Control
  <2>2. QED
    BY <2>1 DEF LeavesWord
<1>3. After = Effect(Buffers) /\ ~OpensQuote /\ Consume
  BY <1>2 DEF After, LexToken
<1>4. PICK u, q : u = Readings[RawLast(cp)] /\ q = Kept(catbuf) \o Added
  OBVIOUS
<1>5. /\ Follows(u, q) /\ u.quote = Reached.quote /\ u.tokens = Reached.tokens
      /\ u.open /\ (u.esc <=> ~escape /\ Raw = "BACKSLASH")
      /\ Added \in Seq(Chars) /\ Len(Added) > 0
  BY <1>1, <1>3, <1>4, AddedFollows DEF Following
<1>6. /\ Kept(After.cat) = q /\ After.cat.len = catbuf.len + Len(Added)
      /\ After.cat.len = Len(After.cat.str)
      /\ After.tok = tokbuf /\ (After.stale <=> stale)
  <2>1. /\ Kept(Buffers.cat) = Kept(catbuf) /\ Buffers.cat.len = catbuf.len
        /\ Buffers.tok = tokbuf /\ (Buffers.stale <=> stale)
    BY <1>1, BuffersKeep
  <2>2. PICK e : e = Effect(Buffers)
    OBVIOUS
  <2>3. /\ Kept(e.cat) = Kept(Buffers.cat) \o Added
        /\ e.cat.len = Buffers.cat.len + Len(Added) /\ e.cat.len = Len(e.cat.str)
        /\ e.tok = Buffers.tok /\ e.stale = Buffers.stale
    BY <1>1, <2>2, EffectAdds
  <2>4. QED
    BY <1>3, <1>4, <2>1, <2>2, <2>3
<1>7. /\ catbuf' = After.cat /\ tokbuf' = After.tok /\ stale' = After.stale
      /\ state' = StateAfter /\ (escape' <=> ~escape /\ Raw = "BACKSLASH")
      /\ startQuote' = startQuote
  BY DEF LexToken
<1>8. Reached' = u /\ line' = line /\ matches' = matches /\ (Doubled' <=> Doubled)
  BY <1>1, <1>3, <1>4, Arrives
<1>9. (StateAfter = "QUOTED" <=> state = "QUOTED") /\ StateAfter # "DULL"
  BY <1>1 DEF StateAfter, Control
<1>10. Simulates'
  <2>1. /\ (Reached.open <=> state # "DULL") /\ (state = "QUOTED" => startQuote \in Quotes)
        /\ Reached.quote = IF state = "QUOTED" THEN startQuote ELSE "none"
        /\ ~stale => Reached.tokens = tokbuf.tokens
        /\ NoEnd(tokbuf.tokens)
    BY DEF Simulates, Following
  <2>2. Follows(Reached', Kept(catbuf'))
    BY <1>5, <1>6, <1>7, <1>8
  <2>3. u.esc <=> escape'
    BY <1>5, <1>7
  <2>4. u.open <=> state' # "DULL"
    BY <1>5, <1>7, <1>9
  <2>5. /\ Reached'.quote = IF state' = "QUOTED" THEN startQuote' ELSE "none"
        /\ state' = "QUOTED" => startQuote' \in Quotes
    BY <1>5, <1>7, <1>8, <1>9, <2>1
  <2>6. (~stale' => Reached'.tokens = tokbuf'.tokens) /\ NoEnd(tokbuf'.tokens)
    BY <1>5, <1>6, <1>7, <1>8, <2>1
  <2>7. QED
    BY <1>8, <2>2, <2>3, <2>4, <2>5, <2>6 DEF Simulates
<1>11. Lengths'
  <2>1. catbuf'.len = Len(catbuf'.str) /\ catbuf'.len > 0
    <3>1. catbuf.len \in Nat /\ Len(Added) \in Nat
      BY <1>5 DEF Inv, SoundCat
    <3>2. QED
      BY <1>5, <1>6, <1>7, <3>1
  <2>2. QED
    BY <1>7, <2>1 DEF Lengths, Leftover
<1>12. StaleWords'
  BY <1>6, <1>7, <1>8 DEF StaleWords, Following
<1>13. QED
  BY <1>10, <1>11, <1>12 DEF Following

\* The closing quote.
LEMMA QuoteCloses ==
    ASSUME Inv, Following, LexToken, cp <= Len(line), StateAfter = "QUOTED_END"
    PROVE  Following'
<1>1. Control /\ Leftover(catbuf) /\ Simulates
  BY DEF Inv, Following, Lengths
<1>2. ~escape /\ state = "QUOTED" /\ Raw = startQuote /\ startQuote \in Quotes
  BY <1>1 DEF StateAfter, Control, Simulates
<1>3. After = Buffers /\ Consume
  BY <1>2 DEF After, LeavesWord, LexToken, Effect, StateAfter, SplitsTwo
<1>4. RawLast(cp) = cp /\ line[cp] = startQuote /\ cp \in 1 .. Len(line)
  <2>1. cp \in 1 .. Len(line) /\ line \in Seq(Chars)
    BY <1>1, ReadsNext DEF Control
  <2>2. RawType(cp) = startQuote /\ startQuote \notin {"TEXT", "2_ANGLE_BRACKET_R"}
    BY <1>2 DEF Raw, Quotes
  <2>3. QED
    BY <2>1, <2>2, RawTokens
<1>5. PICK u, r : u = Readings[cp] /\ r = Reached
  OBVIOUS
<1>6. Acc(r) /\ ~r.skip /\ ~r.esc /\ r.quote = startQuote /\ r.open
  BY <1>1, <1>2, <1>5 DEF Simulates, Follows
<1>7. /\ Acc(u) /\ ~u.skip /\ ~u.esc /\ u.open
      /\ u.quote = "none" /\ u.tokens = r.tokens /\ u.word = r.word
  <2>1. cp \in Nat /\ u = ReadChar(r, cp)
    BY <1>1, <1>5, ReadsNext
  <2>2. line[cp] = r.quote /\ line[cp] # "BACKSLASH" /\ r.quote # "none"
    BY <1>2, <1>4, <1>6 DEF Quotes
  <2>3. QED
    BY <1>6, <2>1, <2>2, ReadCloses
<1>8. /\ Kept(Buffers.cat) = Kept(catbuf) /\ Buffers.cat.len = catbuf.len
      /\ Leftover(Buffers.cat) /\ Buffers.tok = tokbuf /\ (Buffers.stale <=> stale)
  BY <1>1, BuffersKeep
<1>9. /\ catbuf' = Buffers.cat /\ tokbuf' = tokbuf /\ (stale' <=> stale)
      /\ state' = "QUOTED_END" /\ ~escape'
  BY <1>2, <1>3, <1>8 DEF LexToken, SplitsTwo
<1>10. Reached' = u /\ line' = line /\ matches' = matches /\ (Doubled' <=> Doubled)
  BY <1>1, <1>3, <1>4, <1>5, Arrives
<1>11. Simulates'
  <2>1. Follows(u, Kept(catbuf))
    BY <1>1, <1>5, <1>6, <1>7, Zenon DEF Simulates, Follows
  <2>2. QED
    BY <1>1, <1>5, <1>7, <1>8, <1>9, <1>10, <2>1 DEF Simulates
<1>12. Lengths'
  <2>1. ASSUME catbuf.len = 0 PROVE Doubled
    <3>1. cp > 1 /\ line[cp - 1] = startQuote
      BY <1>2, <2>1 DEF Following, Lengths
    <3>2. cp - 1 \in 1 .. Len(line) - 1 /\ (cp - 1) + 1 = cp
      BY <1>4, <3>1
    <3>3. QED
      BY <1>2, <1>4, <3>1, <3>2 DEF Doubled
  <2>2. QED
    BY <1>8, <1>9, <1>10, <2>1 DEF Lengths, Leftover
<1>13. StaleWords'
  BY <1>9, <1>10 DEF StaleWords, Following
<1>14. QED
  BY <1>11, <1>12, <1>13 DEF Following

LEMMA QuoteOpens ==
    ASSUME Inv, Following, OpenQuote
    PROVE  Following'
<1>1. Control /\ Leftover(catbuf) /\ Simulates /\ Consume
  BY DEF Inv, Following, Lengths, OpenQuote
<1>2. ~escape /\ state # "QUOTED" /\ Raw \in Quotes
  BY DEF OpenQuote, OpensQuote
<1>3. RawLast(cp) = cp /\ line[cp] = Raw /\ cp \in 1 .. Len(line)
  <2>1. Raw # "END"
    BY <1>2 DEF Quotes
  <2>2. cp \in 1 .. Len(line) /\ line \in Seq(Chars)
    BY <1>1, <2>1, RawTypeType DEF Raw, Control
  <2>3. RawType(cp) = Raw /\ Raw \notin {"TEXT", "2_ANGLE_BRACKET_R"}
    BY <1>2 DEF Raw, Quotes
  <2>4. QED
    BY <2>2, <2>3, RawTokens
<1>4. PICK u, r : u = Readings[cp] /\ r = Reached
  OBVIOUS
<1>5. Acc(r) /\ ~r.skip /\ ~r.esc /\ r.quote = "none"
  BY <1>1, <1>2, <1>4 DEF Simulates, Follows
<1>6. /\ Acc(u) /\ ~u.skip /\ ~u.esc /\ u.open
      /\ u.quote = line[cp] /\ u.tokens = r.tokens /\ u.word = r.word
  <2>1. cp \in Nat /\ u = ReadChar(r, cp)
    BY <1>1, <1>3, <1>4, ReadsNext
  <2>2. line[cp] \in Quotes
    BY <1>2, <1>3
  <2>3. QED
    BY <1>5, <2>1, <2>2, ReadOpens
<1>7. /\ Kept(Buffers.cat) = Kept(catbuf) /\ Buffers.cat.len = catbuf.len
      /\ Leftover(Buffers.cat)
  BY <1>1, BuffersKeep
<1>8. /\ catbuf' = Buffers.cat /\ tokbuf' = tokbuf /\ stale' = stale
      /\ state' = "QUOTED" /\ escape' = escape /\ startQuote' = Raw
  BY DEF OpenQuote
<1>9. Reached' = u /\ line' = line /\ matches' = matches /\ (Doubled' <=> Doubled)
  BY <1>1, <1>3, <1>4, Arrives
<1>10. Simulates'
  <2>1. Follows(u, Kept(catbuf))
    BY <1>1, <1>4, <1>5, <1>6, Zenon DEF Simulates, Follows
  <2>2. QED
    BY <1>1, <1>2, <1>3, <1>4, <1>6, <1>7, <1>8, <1>9, <2>1 DEF Simulates
<1>11. Lengths'
  <2>1. cp' = cp + 1 /\ cp' > 1 /\ cp' - 1 = cp
    BY <1>1, <1>3 DEF Consume
  <2>2. QED
    BY <1>3, <1>7, <1>8, <1>9, <2>1 DEF Lengths, Leftover
<1>12. StaleWords'
  BY <1>8, <1>9 DEF StaleWords, Following
<1>13. QED
  BY <1>10, <1>11, <1>12 DEF Following

-----------------------------------------------------------------------------
(* The machine follows the rules: the ends of words and of the line. *)

\* Only after empty quotes is a word ended in what is left of another.
LEMMA WordDone ==
    ASSUME Inv, TypeOk, Following, state \in {"QUOTED_END", "UNQUOTED"},
           NEW e, e = EndWord(Buffers)
    PROVE  /\ Sound(e) /\ Typed(e) /\ Kept(e.cat) = <<>> /\ Leftover(e.cat)
           /\ NoEnd(e.tok.tokens)
           /\ e.stale => matches # {} /\ Doubled
           /\ ~e.stale => ~stale /\ e.tok.tokens = CloseWord(Reached).tokens
<1>1. /\ Sound(Buffers) /\ Typed(Buffers)
  <2>1. Typed(Buffers)
    BY DEF TypeOk, Buffers, Typed, TypedTok
  <2>2. QED
    BY <2>1, BuffersSound
<1>2. Sound(e) /\ Typed(e)
  BY <1>1, EndWordSound, EndWordTyped
<1>3. /\ Kept(Buffers.cat) = Kept(catbuf) /\ Buffers.cat.len = catbuf.len
      /\ Leftover(Buffers.cat)
      /\ Buffers.cat.len # Len(Buffers.cat.str) => catbuf.len # Len(catbuf.str)
      /\ Buffers.tok = tokbuf /\ (Buffers.stale <=> stale)
  BY BuffersKeep DEF Following, Lengths
<1>4. PICK b : b = Buffers
  OBVIOUS
<1>5. /\ Kept(e.cat) = <<>> /\ Leftover(e.cat)
      /\ e.stale <=> (b.stale \/ b.cat.len # Len(b.cat.str))
      /\ ~e.stale => e.tok.tokens = b.tok.tokens \o Expansion(GlobRead(Kept(b.cat)).word)
      /\ NoEnd(b.tok.tokens) => NoEnd(e.tok.tokens)
  <2>1. Sound(b) /\ Typed(b) /\ Leftover(b.cat) /\ e = EndWord(b)
    BY <1>1, <1>3, <1>4
  <2>2. QED
    BY <2>1, EndWordReads
<1>6. ~(stale \/ catbuf.len # Len(catbuf.str)) \/ (matches # {} /\ Doubled)
  BY DEF Following, Lengths, Leftover, StaleWords
<1>7. e.stale => matches # {} /\ Doubled
  BY <1>3, <1>4, <1>5, <1>6
<1>8. ~e.stale => ~stale /\ e.tok.tokens = CloseWord(Reached).tokens
  <2>1. PICK r, v : r = Reached /\ v = CloseWord(r)
    OBVIOUS
  <2>2. Acc(r) /\ r.open /\ r.word = GlobRead(Kept(catbuf)).word
        /\ (~stale => r.tokens = tokbuf.tokens)
    BY <2>1 DEF Following, Simulates, Follows
  <2>3. v.tokens = r.tokens \o Expansion(r.word)
    BY <2>1, <2>2, Closes
  <2>4. QED
    BY <1>3, <1>4, <1>5, <2>1, <2>2, <2>3
<1>9. NoEnd(e.tok.tokens)
  BY <1>3, <1>4, <1>5 DEF Following, Simulates
<1>10. QED
  BY <1>2, <1>5, <1>7, <1>8, <1>9

\* Where the machine is between words, the rules have ended the one before.
LEMMA WordBefore ==
    ASSUME Inv, TypeOk, Following, ~escape, StateAfter = "DULL",
           NEW b, b = IF LeavesWord THEN EndWord(Buffers) ELSE Buffers
    PROVE  /\ Sound(b) /\ Typed(b) /\ Leftover(b.cat) /\ NoEnd(b.tok.tokens)
           /\ Kept(b.cat) \in Seq(Chars)
           /\ ~GlobRead(Kept(b.cat)).esc /\ GlobRead(Kept(b.cat)).word = <<>>
           /\ b.stale => matches # {} /\ Doubled
           /\ ~b.stale => ~stale /\ b.tok.tokens = CloseWord(Reached).tokens
<1>1. state \in {"DULL", "QUOTED_END", "UNQUOTED"}
  BY DEF StateAfter, Inv, Control
<1>2. CASE state = "DULL"
  <2>1. b = Buffers
    BY <1>2 DEF LeavesWord
  <2>2. Sound(Buffers) /\ Typed(Buffers)
    <3>1. Typed(Buffers)
      BY DEF TypeOk, Buffers, Typed, TypedTok
    <3>2. QED
      BY <3>1, BuffersSound
  <2>3. /\ Kept(b.cat) = Kept(catbuf) /\ Leftover(b.cat)
        /\ b.tok = tokbuf /\ (b.stale <=> stale)
    BY <2>1, BuffersKeep DEF Following, Lengths
  <2>4. PICK r, v : r = Reached /\ v = CloseWord(r)
    OBVIOUS
  <2>5. /\ Acc(r) /\ ~r.open /\ ~r.esc /\ r.word = GlobRead(Kept(catbuf)).word
        /\ (GlobRead(Kept(catbuf)).esc <=> r.esc)
        /\ (~stale => r.tokens = tokbuf.tokens) /\ NoEnd(tokbuf.tokens)
        /\ Kept(catbuf) \in Seq(Chars)
    BY <1>2, <2>4 DEF Following, Simulates, Follows
  <2>6. r.word = <<>>
    BY <2>5 DEF Acc
  <2>7. v.tokens = r.tokens
    BY <2>4, <2>5, Closes
  <2>8. b.stale => matches # {} /\ Doubled
    BY <2>3 DEF Following, StaleWords
  <2>9. QED
    BY <2>1, <2>2, <2>3, <2>4, <2>5, <2>6, <2>7, <2>8
<1>3. CASE state \in {"QUOTED_END", "UNQUOTED"}
  <2>1. b = EndWord(Buffers)
    BY <1>3 DEF LeavesWord
  <2>2. /\ Sound(b) /\ Typed(b) /\ Kept(b.cat) = <<>> /\ Leftover(b.cat)
        /\ NoEnd(b.tok.tokens)
        /\ b.stale => matches # {} /\ Doubled
        /\ ~b.stale => ~stale /\ b.tok.tokens = CloseWord(Reached).tokens
    BY <1>3, <2>1, WordDone
  <2>3. <<>> \in Seq(Chars)
    OBVIOUS
  <2>4. QED
    BY <2>2, <2>3, GlobReadEmpty
<1>4. QED
  BY <1>1, <1>2, <1>3

\* A token of another kind than a word.
LEMMA TokenAdded ==
    ASSUME NEW b, Sound(b), Typed(b), NEW type \in {"2_ANGLE_BRACKET_R", "END"} \cup Operators,
           NEW e, e = AppendToken(b, type)
    PROVE  /\ e.cat = b.cat /\ e.stale = b.stale
           /\ e.tok.tokens = Append(b.tok.tokens, OtherToken(type))
           /\ type # "END" /\ NoEnd(b.tok.tokens) => NoEnd(e.tok.tokens)
<1>1. e = [cat |-> b.cat, tok |-> AppendToTokbuf(b.tok, OtherToken(type)),
           stale |-> b.stale]
  BY DEF AppendToken, Sound
<1>2. e.cat = b.cat /\ e.stale = b.stale /\ e.tok = AppendToTokbuf(b.tok, OtherToken(type))
  BY <1>1
<1>3. e.tok.tokens = Append(b.tok.tokens, OtherToken(type))
  BY <1>2 DEF AppendToTokbuf
<1>4. OtherToken(type).type = type
  BY DEF OtherToken
<1>5. b.tok.tokens \in Seq(Tokens)
  BY DEF Typed, TypedTok
<1>6. QED
  BY <1>2, <1>3, <1>4, <1>5, NoEndAppends

\* What has been read where the next raw token separates words.
LEMMA SeparatorRead ==
    ASSUME Inv, Following, ~OpensQuote, ~escape, StateAfter = "DULL", cp <= Len(line),
           NEW u, u = Readings[RawLast(cp)]
    PROVE  /\ Acc(u) /\ ~u.skip /\ ~u.esc /\ ~u.open /\ u.quote = "none" /\ u.word = <<>>
           /\ Raw \in {"2_ANGLE_BRACKET_R", "WHITESPACE"} \cup Operators
           /\ u.tokens = IF Raw = "WHITESPACE" THEN CloseWord(Reached).tokens
                         ELSE Append(CloseWord(Reached).tokens, OtherToken(Raw))
<1>1. /\ Control /\ cp \in 1 .. Len(line) /\ line \in Seq(Chars) /\ cp \in Nat
  BY ReadsNext DEF Inv, Control
<1>2. Raw \in {"2_ANGLE_BRACKET_R", "WHITESPACE"} \cup Operators
  BY <1>1, DullToken, RawTypeType DEF Raw
<1>3. PICK r : r = Reached
  OBVIOUS
<1>4. Acc(r) /\ ~r.skip /\ ~r.esc /\ r.quote = "none"
  <2>1. state # "QUOTED"
    BY DEF StateAfter
  <2>2. QED
    BY <1>3, <2>1 DEF Following, Simulates, Follows
<1>5. CASE Raw = "2_ANGLE_BRACKET_R"
  <2>1. Two(cp) /\ RawLast(cp) = cp + 1 /\ cp + 1 \in 1 .. Len(line)
    <3>1. RawType(cp) = "2_ANGLE_BRACKET_R"
      BY <1>5 DEF Raw
    <3>2. "2_ANGLE_BRACKET_R" \notin Chars
      BY DEF Chars, Letters, Quotes, GlobChars, Operators
    <3>3. line[cp] \in Chars
      BY <1>1
    <3>4. QED
      BY <1>1, <3>1, <3>2, <3>3, RawTokens
  <2>2. u = ReadChar(ReadChar(r, cp), cp + 1)
    BY <1>1, <1>3, <2>1, ReadsNext
  <2>3. /\ Acc(u) /\ ~u.skip /\ ~u.esc /\ ~u.open
        /\ u.quote = "none" /\ u.word = <<>>
        /\ u.tokens = Append(CloseWord(r).tokens, OtherToken("2_ANGLE_BRACKET_R"))
    BY <1>1, <1>4, <2>1, <2>2, ReadTwo
  <2>4. QED
    BY <1>2, <1>3, <1>5, <2>3
<1>6. CASE Raw # "2_ANGLE_BRACKET_R"
  <2>1. RawLast(cp) = cp /\ line[cp] = Raw
    <3>1. RawType(cp) = Raw /\ Raw \notin {"TEXT", "2_ANGLE_BRACKET_R"}
      BY <1>2, <1>6 DEF Raw, Operators
    <3>2. QED
      BY <1>1, <3>1, RawTokens
  <2>2. u = ReadChar(r, cp)
    BY <1>1, <1>3, <2>1, ReadsNext
  <2>3. CASE Raw = "WHITESPACE"
    <3>1. line[cp] = "WHITESPACE"
      BY <2>1, <2>3
    <3>2. u = CloseWord(r)
      BY <1>1, <1>4, <2>2, <3>1, ReadWhitespace
    <3>3. /\ Acc(u) /\ u.skip = r.skip /\ u.esc = r.esc /\ ~u.open
          /\ u.quote = r.quote /\ u.word = <<>>
      BY <1>4, <3>2, Closes
    <3>4. QED
      BY <1>2, <1>3, <1>4, <2>3, <3>2, <3>3
  <2>4. CASE Raw \in Operators
    <3>1. u = Operator(r, Raw)
      <4>1. line[cp] \in Operators
        BY <2>1, <2>4
      <4>2. u = Operator(r, line[cp])
        BY <1>1, <1>4, <2>2, <4>1, ReadOperator
      <4>3. QED
        BY <2>1, <4>2
    <3>2. /\ Acc(u) /\ u.skip = r.skip /\ u.esc = r.esc /\ ~u.open
          /\ u.quote = r.quote /\ u.word = <<>>
          /\ u.tokens = Append(CloseWord(r).tokens, OtherToken(Raw))
      BY <1>4, <2>4, <3>1, Operates
    <3>3. Raw # "WHITESPACE"
      BY <2>4 DEF Operators
    <3>4. QED
      BY <1>2, <1>3, <1>4, <3>2, <3>3
  <2>5. QED
    BY <1>2, <1>6, <2>3, <2>4
<1>7. QED
  BY <1>5, <1>6

LEMMA WordsSeparate ==
    ASSUME Inv, TypeOk, Following, LexToken, cp <= Len(line), StateAfter = "DULL"
    PROVE  Following'
<1>1. /\ Control /\ ~escape /\ ~SplitsTwo /\ ~OpensQuote /\ Consume
  BY StateAfterType DEF Inv, SplitsTwo, LexToken
<1>2. PICK b : b = IF LeavesWord THEN EndWord(Buffers) ELSE Buffers
  OBVIOUS
<1>3. /\ Sound(b) /\ Typed(b) /\ Leftover(b.cat) /\ NoEnd(b.tok.tokens)
      /\ Kept(b.cat) \in Seq(Chars)
      /\ ~GlobRead(Kept(b.cat)).esc /\ GlobRead(Kept(b.cat)).word = <<>>
      /\ b.stale => matches # {} /\ Doubled
      /\ ~b.stale => ~stale /\ b.tok.tokens = CloseWord(Reached).tokens
  BY <1>1, <1>2, WordBefore
<1>4. PICK u : u = Readings[RawLast(cp)]
  OBVIOUS
<1>5. /\ Acc(u) /\ ~u.skip /\ ~u.esc /\ ~u.open /\ u.quote = "none" /\ u.word = <<>>
      /\ Raw \in {"2_ANGLE_BRACKET_R", "WHITESPACE"} \cup Operators
      /\ u.tokens = IF Raw = "WHITESPACE" THEN CloseWord(Reached).tokens
                    ELSE Append(CloseWord(Reached).tokens, OtherToken(Raw))
  BY <1>1, <1>4, SeparatorRead
<1>6. PICK e : e = After
  OBVIOUS
<1>7. /\ e.cat = b.cat /\ e.stale = b.stale /\ NoEnd(e.tok.tokens)
      /\ ~e.stale => e.tok.tokens = u.tokens
  <2>1. e = IF Raw = "WHITESPACE" THEN b ELSE AppendToken(b, Raw)
    BY <1>1, <1>2, <1>6 DEF After, Effect
  <2>2. CASE Raw = "WHITESPACE"
    BY <1>3, <1>5, <2>1, <2>2
  <2>3. CASE Raw # "WHITESPACE"
    <3>1. Raw \in {"2_ANGLE_BRACKET_R", "END"} \cup Operators /\ Raw # "END"
      BY <1>5, <2>3 DEF Operators
    <3>2. e = AppendToken(b, Raw)
      BY <2>1, <2>3
    <3>3. /\ e.cat = b.cat /\ e.stale = b.stale
          /\ e.tok.tokens = Append(b.tok.tokens, OtherToken(Raw))
          /\ NoEnd(e.tok.tokens)
      BY <1>3, <3>1, <3>2, TokenAdded
    <3>4. QED
      BY <1>3, <1>5, <2>3, <3>3
  <2>4. QED
    BY <2>2, <2>3
<1>8. /\ catbuf' = e.cat /\ tokbuf' = e.tok /\ stale' = e.stale
      /\ state' = "DULL" /\ escape' = escape
  BY <1>1, <1>6 DEF LexToken
<1>9. Reached' = u /\ line' = line /\ matches' = matches /\ (Doubled' <=> Doubled)
  BY <1>1, <1>4, Arrives
<1>10. Simulates'
  <2>1. Follows(u, Kept(b.cat))
    BY <1>3, <1>5 DEF Follows
  <2>2. Follows(Reached', Kept(catbuf'))
    BY <1>7, <1>8, <1>9, <2>1
  <2>3. QED
    BY <1>1, <1>5, <1>7, <1>8, <1>9, <2>2 DEF Simulates
<1>11. Lengths'
  BY <1>3, <1>7, <1>8, <1>9 DEF Lengths, Leftover
<1>12. StaleWords'
  BY <1>3, <1>7, <1>8, <1>9 DEF StaleWords
<1>13. QED
  BY <1>10, <1>11, <1>12 DEF Following

\* `2>` where the 2 was escaped: the word ends between the two characters.
LEMMA TwoSplits ==
    ASSUME Inv, TypeOk, Following, LexToken, cp <= Len(line), SplitsTwo
    PROVE  Following'
<1>1. /\ Control /\ escape /\ StateAfter = "UNQUOTED" /\ state = "UNQUOTED" /\ Consume
      /\ Raw = "2_ANGLE_BRACKET_R"
  BY DEF Inv, SplitsTwo, StateAfter, LexToken
<1>2. ~LeavesWord
  BY <1>1 DEF LeavesWord
<1>3. /\ Two(cp) /\ RawLast(cp) = cp + 1 /\ cp + 1 \in 1 .. Len(line)
      /\ cp \in 1 .. Len(line) /\ cp \in Nat /\ line \in Seq(Chars)
  <2>1. cp \in 1 .. Len(line) /\ cp \in Nat /\ line \in Seq(Chars)
    BY <1>1, ReadsNext DEF Control
  <2>2. RawType(cp) = "2_ANGLE_BRACKET_R"
    BY <1>1 DEF Raw
  <2>3. "2_ANGLE_BRACKET_R" \notin Chars
    BY DEF Chars, Letters, Quotes, GlobChars, Operators
  <2>4. line[cp] \in Chars
    BY <2>1
  <2>5. QED
    BY <2>1, <2>2, <2>3, <2>4, RawTokens
<1>4. PICK r, p, c, i : r = Reached /\ p = Kept(catbuf) /\ c = "2" /\ i = cp
  OBVIOUS
<1>5. Follows(r, p) /\ r.esc /\ r.quote = "none" /\ p \in Seq(Chars)
  BY <1>1, <1>4 DEF Following, Simulates, Follows
<1>6. c \in Chars /\ c # "BACKSLASH"
  BY <1>4 DEF Chars, Letters
<1>7. PICK x, q : x = ReadChar(r, i) /\ q = p \o <<c>>
  OBVIOUS
<1>8. /\ Follows(x, q) /\ x.quote = r.quote /\ x.tokens = r.tokens /\ x.open /\ ~x.esc
  <2>1. At(i, c) /\ InWord(r, i, c) /\ Extended(q, p, c) /\ i \in Nat
    BY <1>3, <1>4, <1>5, <1>6, <1>7, Joined DEF At, InWord, Extended, Two
  <2>2. /\ Follows(x, q) /\ x.quote = r.quote /\ x.tokens = r.tokens /\ x.open
        /\ x.esc <=> (c = "BACKSLASH" /\ ~r.esc)
    BY <1>5, <1>6, <1>7, <2>1, CharFollows
  <2>3. QED
    BY <1>6, <2>2
\* The rules read an operator after the 2.
<1>9. PICK u, v : u = Readings[RawLast(cp)] /\ v = CloseWord(x)
  OBVIOUS
<1>10. /\ Acc(u) /\ ~u.skip /\ ~u.esc /\ ~u.open /\ u.quote = "none" /\ u.word = <<>>
       /\ u.tokens = Append(v.tokens, OtherToken("ANGLE_BRACKET_R"))
       /\ v.tokens = r.tokens \o Expansion(GlobRead(q).word)
  <2>1. Acc(x) /\ ~x.skip /\ x.word = GlobRead(q).word
    BY <1>8 DEF Follows
  <2>2. PICK k \in Nat, type \in {"2_ANGLE_BRACKET_R"} \cup Operators :
            k = cp + 1 /\ type = "ANGLE_BRACKET_R"
    BY <1>3 DEF Operators
  <2>3. u = ReadChar(x, k)
    BY <1>1, <1>3, <1>4, <1>7, <1>9, <2>2, ReadsNext
  <2>4. line[k] = type /\ line[k] \in Operators
    BY <1>3, <2>2 DEF Two, Operators
  <2>5. u = Operator(x, line[k])
    BY <1>5, <1>8, <2>1, <2>3, <2>4, ReadOperator
  <2>6. u = Operator(x, type)
    BY <2>4, <2>5
  <2>7. /\ Acc(u) /\ u.skip = x.skip /\ u.esc = x.esc /\ ~u.open
        /\ u.quote = x.quote /\ u.word = <<>>
        /\ u.tokens = Append(CloseWord(x).tokens, OtherToken(type))
    BY <2>1, <2>6, Operates
  <2>8. v.tokens = x.tokens \o Expansion(x.word)
    BY <1>8, <1>9, <2>1, Closes
  <2>9. QED
    BY <1>5, <1>8, <1>9, <2>1, <2>2, <2>7, <2>8
\* So does lex.
<1>11. PICK a, e, d : a = AppendText(Buffers, <<c>>) /\ e = EndWord(a)
                      /\ d = AppendToken(e, "ANGLE_BRACKET_R")
  OBVIOUS
<1>12. /\ Sound(a) /\ Typed(a) /\ Kept(a.cat) = q /\ Leftover(a.cat)
       /\ a.cat.len = Len(a.cat.str) /\ a.tok = tokbuf /\ (a.stale <=> stale)
  <2>1. Sound(Buffers) /\ Typed(Buffers)
    <3>1. Typed(Buffers)
      BY DEF TypeOk, Buffers, Typed, TypedTok
    <3>2. QED
      BY <3>1, BuffersSound
  <2>2. /\ Kept(Buffers.cat) = p /\ Buffers.tok = tokbuf /\ (Buffers.stale <=> stale)
    BY <1>4, BuffersKeep DEF Following, Lengths
  <2>a. <<c>> \in Seq(Chars)
    BY <1>6
  <2>3. PICK text \in Seq(Chars) : text = <<c>>
    BY <2>a
  <2>4. a = AppendText(Buffers, text)
    BY <1>11, <2>3
  <2>5. Sound(a) /\ Typed(a)
    BY <2>1, <2>4, TextAppends, TextTyped
  <2>6. a.cat = AppendToCatbuf(Buffers.cat, text) /\ a.tok = Buffers.tok
        /\ a.stale = Buffers.stale
    BY <2>1, <2>4 DEF AppendText, Sound
  <2>7. Kept(a.cat) = Kept(Buffers.cat) \o text /\ a.cat.len = Len(a.cat.str)
    BY <2>1, <2>6, KeptText DEF Sound
  <2>8. QED
    BY <1>7, <2>2, <2>3, <2>5, <2>6, <2>7 DEF Leftover
<1>13. /\ Sound(e) /\ Typed(e) /\ Kept(e.cat) = <<>> /\ Leftover(e.cat)
       /\ e.stale <=> stale
       /\ ~e.stale => e.tok.tokens = tokbuf.tokens \o Expansion(GlobRead(q).word)
       /\ NoEnd(e.tok.tokens)
  <2>1. Sound(e) /\ Typed(e)
    BY <1>11, <1>12, EndWordSound, EndWordTyped
  <2>2. /\ Kept(e.cat) = <<>> /\ Leftover(e.cat)
        /\ e.stale <=> (a.stale \/ a.cat.len # Len(a.cat.str))
        /\ ~e.stale => e.tok.tokens = a.tok.tokens \o Expansion(GlobRead(Kept(a.cat)).word)
        /\ NoEnd(a.tok.tokens) => NoEnd(e.tok.tokens)
    BY <1>11, <1>12, EndWordReads
  <2>3. NoEnd(tokbuf.tokens)
    BY DEF Following, Simulates
  <2>4. QED
    BY <1>12, <2>1, <2>2, <2>3
<1>14. /\ d.cat = e.cat /\ d.stale = e.stale /\ NoEnd(d.tok.tokens)
       /\ d.tok.tokens = Append(e.tok.tokens, OtherToken("ANGLE_BRACKET_R"))
  <2>1. PICK type \in {"2_ANGLE_BRACKET_R", "END"} \cup Operators :
            type = "ANGLE_BRACKET_R" /\ type # "END"
    BY DEF Operators
  <2>2. d = AppendToken(e, type)
    BY <1>11, <2>1
  <2>3. /\ d.cat = e.cat /\ d.stale = e.stale
        /\ d.tok.tokens = Append(e.tok.tokens, OtherToken(type))
        /\ NoEnd(d.tok.tokens)
    BY <1>13, <2>1, <2>2, TokenAdded
  <2>4. QED
    BY <2>1, <2>3
<1>15. /\ catbuf' = d.cat /\ tokbuf' = d.tok /\ stale' = d.stale
       /\ state' = "DULL" /\ ~escape'
  <2>1. After = d
    BY <1>1, <1>2, <1>4, <1>11 DEF After, Effect
  <2>2. QED
    BY <1>1, <2>1 DEF LexToken
<1>16. Reached' = u /\ line' = line /\ matches' = matches /\ (Doubled' <=> Doubled)
  BY <1>1, <1>9, Arrives
<1>17. Simulates'
  <2>1. Follows(u, <<>>)
    <3>1. <<>> \in Seq(Chars)
      OBVIOUS
    <3>2. QED
      BY <1>10, <3>1, GlobReadEmpty DEF Follows
  <2>2. Follows(Reached', Kept(catbuf'))
    BY <1>13, <1>14, <1>15, <1>16, <2>1
  <2>3. ~stale' => Reached'.tokens = tokbuf'.tokens
    <3>1. ~stale => r.tokens = tokbuf.tokens
      BY <1>4 DEF Following, Simulates
    <3>2. QED
      BY <1>10, <1>13, <1>14, <1>15, <1>16, <3>1
  <2>4. QED
    BY <1>10, <1>14, <1>15, <1>16, <2>2, <2>3 DEF Simulates
<1>18. Lengths'
  BY <1>13, <1>14, <1>15, <1>16 DEF Lengths, Leftover
<1>19. StaleWords'
  BY <1>13, <1>14, <1>15, <1>16 DEF StaleWords, Following
<1>20. QED
  BY <1>17, <1>18, <1>19 DEF Following

-----------------------------------------------------------------------------
(* The end of the line. *)

\* What the tokens are then.
Finished ==
    /\ Reading.esc => NoEnd(tokbuf.tokens)
    /\ ~Reading.esc =>
         /\ Reading.quote = "none"
         /\ \E front \in Seq(Tokens) :
                NoEnd(front) /\ tokbuf.tokens = Append(front, OtherToken("END"))
         /\ ~stale => tokbuf.tokens = Append(CloseWord(Reading).tokens, OtherToken("END"))

LEMMA LineEnds ==
    ASSUME Inv, TypeOk, Following, LexToken, Raw = "END"
    PROVE  Finished' /\ StaleWords'
<1>1. /\ Control /\ Consume /\ ~OpensQuote /\ ~Unterminated
  BY DEF Inv, LexToken
<1>2. cp = Len(line) + 1 /\ Reached = Reading /\ RawText(cp) \in Seq(Chars)
  <2>1. cp = Len(line) + 1
    BY <1>1, RawTypeType DEF Control, Raw
  <2>2. (Len(line) + 1) - 1 = Len(line)
    BY <1>1 DEF Control
  <2>3. QED
    BY <1>1, <2>1, <2>2, RawTextType DEF Reached, Reading, Control
<1>3. /\ Reading' = Reading /\ CloseWord(Reading)' = CloseWord(Reading)
      /\ line' = line /\ matches' = matches /\ (Doubled' <=> Doubled)
  BY <1>1, ReadingSame, Arrives DEF Consume
<1>4. CASE escape
  <2>1. Reading.esc /\ StateAfter = state /\ state \in {"QUOTED", "UNQUOTED"} /\ ~SplitsTwo
    BY <1>1, <1>2, <1>4 DEF Following, Simulates, StateAfter, Control, SplitsTwo
  <2>2. PICK b : b = IF state = "UNQUOTED" THEN EndWord(Buffers) ELSE Buffers
    OBVIOUS
  <2>3. Sound(b) /\ NoEnd(b.tok.tokens) /\ (b.stale => matches # {} /\ Doubled)
    <3>1. CASE state = "UNQUOTED"
      BY <2>2, <3>1, WordDone
    <3>2. CASE state # "UNQUOTED"
      <4>1. Buffers.tok = tokbuf /\ (Buffers.stale <=> stale)
        BY BuffersKeep DEF Following, Lengths
      <4>2. QED
        BY <2>2, <3>2, <4>1, BuffersSound DEF Following, Simulates, StaleWords
    <3>3. QED
      BY <3>1, <3>2
  <2>4. After = AppendText(b, RawText(cp))
    <3>1. LeavesWord <=> state = "UNQUOTED"
      BY <2>1 DEF LeavesWord
    <3>2. QED
      BY <1>4, <2>1, <2>2, <3>1 DEF After, Effect
  <2>5. After.tok = b.tok /\ After.stale = b.stale
    BY <2>3, <2>4 DEF AppendText, Sound
  <2>6. tokbuf' = b.tok /\ stale' = b.stale
    BY <2>5 DEF LexToken
  <2>7. QED
    BY <1>3, <2>1, <2>3, <2>6 DEF Finished, StaleWords
<1>5. CASE ~escape
  <2>1. state # "QUOTED" /\ StateAfter = "DULL" /\ ~SplitsTwo
    BY <1>1, <1>5 DEF Unterminated, StateAfter, Markers, GlobChars, SplitsTwo
  <2>2. ~Reading.esc /\ Reading.quote = "none"
    BY <1>2, <1>5, <2>1 DEF Following, Simulates
  <2>3. PICK b : b = IF LeavesWord THEN EndWord(Buffers) ELSE Buffers
    OBVIOUS
  <2>4. /\ Sound(b) /\ Typed(b) /\ NoEnd(b.tok.tokens)
        /\ b.stale => matches # {} /\ Doubled
        /\ ~b.stale => b.tok.tokens = CloseWord(Reached).tokens
    BY <1>5, <2>1, <2>3, WordBefore
  <2>5. PICK e : e = After
    OBVIOUS
  <2>6. e = AppendToken(b, "END")
    BY <2>1, <2>3, <2>5 DEF After, Effect
  <2>7. e.stale = b.stale /\ e.tok.tokens = Append(b.tok.tokens, OtherToken("END"))
    BY <2>4, <2>6, TokenAdded
  <2>8. tokbuf' = e.tok /\ stale' = e.stale
    BY <2>5 DEF LexToken
  <2>9. b.tok.tokens \in Seq(Tokens)
    BY <2>4 DEF Typed, TypedTok
  <2>10. PICK v : v = CloseWord(Reading).tokens
    OBVIOUS
  <2>11. CloseWord(Reading)'.tokens = v /\ (~b.stale => b.tok.tokens = v)
    BY <1>2, <1>3, <2>4, <2>10
  <2>12. Finished'
    BY <1>3, <2>2, <2>4, <2>7, <2>8, <2>9, <2>11 DEF Finished
  <2>13. StaleWords'
    BY <1>3, <2>4, <2>7, <2>8 DEF StaleWords
  <2>14. QED
    BY <2>12, <2>13
<1>6. QED
  BY <1>4, <1>5

-----------------------------------------------------------------------------
(* The theorems about the words and the end of the line. *)

LexInv ==
    /\ result = "ONGOING" /\ ~finished => Following
    /\ finished /\ result \in {"ONGOING", "END"} => Finished
    /\ result = "END" => finished
    /\ result = "UNTERMINATED_QUOTE" => Reading.quote # "none" /\ ~Reading.esc
    /\ StaleWords

LEMMA InitLexInv == Init => LexInv
<1> SUFFICES ASSUME Init PROVE LexInv
  OBVIOUS
<1>1. Inv /\ Control
  BY InitInv DEF Inv
<1>2. /\ cp = 1 /\ ~finished /\ state = "DULL" /\ ~escape /\ ~stale
      /\ catbuf = NullBuf /\ tokbuf.tokens = <<>> /\ result = "ONGOING"
  BY DEF Init
<1>3. PICK r : r = Reached
  OBVIOUS
<1>4. r = StartReading
  <2>1. cp - 1 = 0
    BY <1>2
  <2>2. QED
    BY <1>1, <1>3, <2>1, ReadingSteps DEF Reached, Control
<1>5. /\ Acc(r) /\ ~r.skip /\ ~r.esc
      /\ r.quote = "none" /\ ~r.open
      /\ r.word = <<>> /\ r.tokens = <<>>
  BY <1>4, StartAcc
<1>6. Kept(catbuf) = <<>> /\ Leftover(catbuf)
  <2>1. catbuf.str = <<>> /\ catbuf.len = 0 /\ Len(<<>>) = 0 /\ SubSeq(<<>>, 1, 0) = <<>>
    BY <1>2 DEF NullBuf
  <2>2. QED
    BY <2>1 DEF Kept, Leftover
<1>7. Simulates
  <2>1. <<>> \in Seq(Chars)
    OBVIOUS
  <2>2. Follows(r, <<>>)
    BY <1>5, <2>1, GlobReadEmpty DEF Follows
  <2>3. NoEnd(tokbuf.tokens)
    BY <1>2 DEF NoEnd
  <2>4. QED
    BY <1>2, <1>3, <1>5, <1>6, <2>2, <2>3 DEF Simulates
<1>8. Following
  BY <1>2, <1>6, <1>7 DEF Following, Lengths, StaleWords
<1>9. QED
  BY <1>2, <1>8 DEF LexInv, Following

LEMMA NextLexInv == Inv /\ TypeOk /\ LexInv /\ [Next]_vars => LexInv'
<1> SUFFICES ASSUME Inv, TypeOk, LexInv, [Next]_vars PROVE LexInv'
  OBVIOUS
<1>1. Control
  BY DEF Inv
\* Where neither the place nor the words change, nothing does.
<1>2. ASSUME UNCHANGED <<line, finished, matches, tokbuf, stale>>
      PROVE  /\ StaleWords' /\ (Finished' <=> Finished) /\ Reading' = Reading
  <2>1. Reading' = Reading /\ CloseWord(Reading)' = CloseWord(Reading)
    BY <1>2, ReadingSame
  <2>2. PICK v : v = CloseWord(Reading).tokens
    OBVIOUS
  <2>3. CloseWord(Reading)'.tokens = v
    BY <2>1, <2>2
  <2>4. Finished' <=> Finished
    BY <1>2, <2>1, <2>2, <2>3 DEF Finished
  <2>5. StaleWords'
    BY <1>2 DEF LexInv, StaleWords, Doubled
  <2>6. QED
    BY <2>1, <2>4, <2>5
<1>3. CASE LexEnd
  <2>1. Finished' /\ StaleWords' /\ result' = "END" /\ finished'
    BY <1>2, <1>3 DEF LexEnd, LexInv
  <2>2. QED
    BY <2>1 DEF LexInv
<1>4. CASE UnterminatedQuote
  <2>1. /\ Following /\ ~escape /\ state = "QUOTED" /\ Raw = "END"
        /\ result' = "UNTERMINATED_QUOTE" /\ Consume /\ stale' = stale
    BY <1>4 DEF UnterminatedQuote, Unterminated, LexInv
  <2>2. cp = Len(line) + 1 /\ Reached = Reading
    <3>1. cp = Len(line) + 1
      BY <1>1, <2>1, RawTypeType DEF Control, Raw
    <3>2. (Len(line) + 1) - 1 = Len(line)
      BY <1>1 DEF Control
    <3>3. QED
      BY <3>1, <3>2 DEF Reached, Reading
  <2>3. Reading.quote # "none" /\ ~Reading.esc
    BY <2>1, <2>2 DEF Following, Simulates, Quotes
  <2>4. Reading' = Reading
    BY <2>1, ReadingSame DEF Consume
  <2>5. StaleWords'
    BY <1>1, <2>1, Arrives DEF Following, StaleWords
  <2>6. QED
    BY <2>1, <2>3, <2>4, <2>5 DEF LexInv
<1>5. CASE OpenQuote
  <2>1. Following'
    BY <1>5, QuoteOpens DEF OpenQuote, LexInv
  <2>2. result' = "ONGOING" /\ ~finished'
    BY <1>5 DEF OpenQuote, OpensQuote, Consume, Quotes
  <2>3. QED
    BY <2>1, <2>2 DEF LexInv, Following
<1>6. CASE LexToken
  <2>1. Following /\ Consume /\ result' = "ONGOING"
    BY <1>6 DEF LexToken, LexInv
  <2>2. CASE Raw = "END"
    <3>1. Finished' /\ StaleWords' /\ finished'
      BY <1>6, <2>1, <2>2, LineEnds DEF Consume
    <3>2. QED
      BY <2>1, <3>1 DEF LexInv
  <2>3. CASE Raw # "END"
    <3>1. cp <= Len(line)
      BY <1>1, <2>3, RawTypeType DEF Control, Raw
    <3>2. Following'
      <4>1. StateAfter \in {"DULL", "QUOTED", "QUOTED_END", "UNQUOTED"}
        BY <1>1, StateAfterType
      <4>2. CASE SplitsTwo
        BY <1>6, <2>1, <3>1, <4>2, TwoSplits
      <4>3. CASE ~SplitsTwo
        BY <1>6, <2>1, <3>1, <4>1, <4>3, WordGoesOn, QuoteCloses, WordsSeparate
      <4>4. QED
        BY <4>2, <4>3
    <3>3. ~finished'
      BY <2>1, <2>3 DEF Consume
    <3>4. QED
      BY <2>1, <3>2, <3>3 DEF LexInv, Following
  <2>4. QED
    BY <2>2, <2>3
<1>7. CASE MemoryError \/ GlobError
  <2>1. /\ UNCHANGED <<line, finished, matches, tokbuf, stale>>
        /\ result' \in {"MEMORY_ERROR", "UNDEFINED", "GLOB_ERROR"}
    BY <1>7 DEF MemoryError, GlobError
  <2>2. QED
    BY <1>2, <2>1 DEF LexInv
<1>8. CASE Done \/ UNCHANGED vars
  <2>1. UNCHANGED vars
    BY <1>8 DEF Done
  <2>2. Readings' = Readings
    BY <2>1, ReadingsSame DEF vars
  <2>3. Following <=> Following'
    <3>1. Reached' = Reached
      BY <2>1, <2>2 DEF Reached, vars
    <3>2. Simulates' <=> Simulates
      BY <2>1, <3>1 DEF Simulates, vars
    <3>3. (Lengths' <=> Lengths) /\ (StaleWords' <=> StaleWords)
      BY <2>1 DEF Lengths, StaleWords, Leftover, Doubled, vars
    <3>4. QED
      BY <3>2, <3>3 DEF Following
  <2>4. QED
    BY <1>2, <2>1, <2>3 DEF LexInv, vars
<1>9. QED
  BY <1>3, <1>4, <1>5, <1>6, <1>7, <1>8 DEF Next

\* Whatever the line, one token marks its end and is the last, unless the line ends in
\* a backslash, which lex takes for the start of an escape and so leaves none.
LEMMA LexInvEnds == TypeOk /\ LexInv => EndMarksLine
<1> SUFFICES ASSUME TypeOk, LexInv, result = "END", NEW i \in 1 .. Len(tokbuf.tokens) + 1
             PROVE  (i <= Len(tokbuf.tokens) /\ tokbuf.tokens[i].type = "END")
                      <=> (i = Len(tokbuf.tokens) /\ ~EndsInBackslash)
  BY DEF EndMarksLine
<1>1. Finished
  BY DEF LexInv
<1>2. PICK t \in Seq(Tokens) : t = tokbuf.tokens
  BY DEF TypeOk
<1>3. CASE Reading.esc
  BY <1>1, <1>2, <1>3 DEF Finished, NoEnd, EndsInBackslash
<1>4. CASE ~Reading.esc
  <2>1. PICK front \in Seq(Tokens) : NoEnd(front) /\ t = Append(front, OtherToken("END"))
    BY <1>1, <1>2, <1>4 DEF Finished
  <2>2. /\ Len(t) = Len(front) + 1 /\ t[Len(front) + 1] = OtherToken("END")
        /\ \A k \in 1 .. Len(front) : t[k] = front[k]
    BY <2>1
  <2>3. OtherToken("END").type = "END"
    BY DEF OtherToken
  <2>4. QED
    BY <1>2, <1>4, <2>1, <2>2, <2>3 DEF NoEnd, EndsInBackslash
<1>5. QED
  BY <1>3, <1>4

LEMMA LexInvWords == LexInv => WordsAsQuoted
<1> SUFFICES ASSUME LexInv PROVE WordsAsQuoted
  OBVIOUS
<1>1. result = "END" => Finished
  BY DEF LexInv
<1>2. stale => matches # {} /\ Doubled
  BY DEF LexInv, StaleWords
<1>3. result = "END" =>
          ~(Reading.quote # "none" /\ ~Reading.esc)
  BY <1>1 DEF Finished
<1>4. result = "UNTERMINATED_QUOTE" => Reading.quote # "none" /\ ~Reading.esc
  BY DEF LexInv
<1>5. result = "END" /\ ~stale /\ ~Reading.esc =>
          tokbuf.tokens = Append(CloseWord(Reading).tokens, OtherToken("END"))
  BY <1>1 DEF Finished
<1>6. QED
  BY <1>2, <1>3, <1>4, <1>5 DEF WordsAsQuoted, EndsInBackslash, Doubled

LEMMA LexInvHolds == Spec => [](Inv /\ TypeOk /\ LexInv)
BY InitInv, NextInv, InitTypeOk, NextTypeOk, InitLexInv, NextLexInv, PTL DEF Spec

\* The parser finds the end of every line: one end token, which is the last, or, where
\* a backslash at the end of the line has nothing to escape, none.
THEOREM EndMarked == Spec => []EndMarksLine
BY LexInvHolds, LexInvEnds, PTL

\* The two stages of the lexer split a line into the words that the rules of quoting
\* give, for every line and every answer of glob(), but for an empty word that is ended
\* in what is left of a matched one; and they report missing quotes when they are missing.
THEOREM WordsCorrect == Spec => []WordsAsQuoted
BY LexInvHolds, LexInvWords, PTL


=============================================================================
