------------------------------- MODULE Screen -------------------------------
(***************************************************************************)
(* The screen of the line editor (input.c): read_input keeps the column it *)
(* believes the cursor is in, to know when a line is full and when erasing *)
(* must go up a line.  It does not count it when text is printed, but asks *)
(* the terminal after every key, and the answer comes back among the keys. *)
(*                                                                         *)
(* The terminal is a line of cells of which every Width make a row.  What  *)
(* the shell prints takes effect at once, and a request puts the column of *)
(* that moment in flight: the terminal answers in order, and an answer is  *)
(* read before or after any key the user presses meanwhile.                *)
(***************************************************************************)
EXTENDS Integers, Sequences

CONSTANTS
    Width,          \* columns of the window
    ReportBytes,    \* length of an answer after its first byte
    MaxLen,         \* bound on the text the user types
    Recalled,       \* lengths of the lines of the history
    MaxFlight,      \* bound on the answers in flight when a key is pressed
    MaxKeys,        \* bound on the keys pressed
    MaxLines        \* bound on the lines read

ASSUME WidthAssumption == Width \in Nat /\ Width > 1
ASSUME BoundsAssumption ==
    /\ ReportBytes \in Nat /\ Recalled \subseteq Nat
    /\ {MaxLen, MaxFlight, MaxKeys, MaxLines} \subseteq Nat

VARIABLES
    pc,         \* "running" a line, "reading", or reading after an "escape"
    screen,     \* the terminal
    start,      \* the cell after the prompt
    cursorCol,  \* cursor_col
    len,        \* edit_buf_len
    inFlight,   \* answers on their way
    bytes,      \* bytes of an escape sequence left to read as text
    keys, lines,\* counters for the bounds
    inTouch     \* history variable: so far in this line every key found the column
                \*   right, and neither the prompt nor a recalled line ended in the
                \*   last column

vars == <<pc, screen, start, cursorCol, len, inFlight, bytes, keys, lines, inTouch>>

-----------------------------------------------------------------------------
(* The terminal: where the cursor is, whether it stands on the last column *)
(* with the next character going to the next row, and which cells are not  *)
(* blank.                                                                  *)

RowStart(s) == s.pos - (s.pos % Width)
Column(s) == (s.pos % Width) + 1
LastColumn(p) == p % Width = Width - 1

\* A character, or a space that blanks a cell.
Put(s, mark) ==
    LET cell == IF s.wrap THEN s.pos + 1 ELSE s.pos
    IN [pos |-> IF LastColumn(cell) THEN cell ELSE cell + 1,
        wrap |-> LastColumn(cell),
        cells |-> IF mark THEN s.cells \cup {cell} ELSE s.cells \ {cell}]

Moved(s, p) == [s EXCEPT !.pos = p, !.wrap = FALSE]
NewLine(s) == Moved(s, RowStart(s) + Width)
Left(s) == Moved(s, IF Column(s) = 1 THEN s.pos ELSE s.pos - 1)
Up(s) == Moved(s, s.pos - Width)
Right(s, n) == Moved(s, IF s.pos + n < RowStart(s) + Width THEN s.pos + n
                        ELSE RowStart(s) + Width - 1)

-----------------------------------------------------------------------------
(* What the editor prints.                                                 *)

\* A character; and, on what is believed to be the last column, a new line.
Inserted(s, col) == IF col = Width THEN NewLine(Put(s, TRUE)) ELSE Put(s, TRUE)

\* The last character is blanked, and the cursor left on it: up and far to the
\* right when the cursor is believed to be in the first column.
BugOverMargin(s) == Put(Right(Up(s), 1024), FALSE)
OverMargin(s) == Right(Put(Right(Up(s), 1024), FALSE), 1)
Erased(s, col) == IF col = 1 THEN OverMargin(s) ELSE Left(Put(Left(s), FALSE))

\* The column is a size_t; a number below 0 stands for the one it wraps to.
ColumnErased(col) == IF col = 1 THEN Width ELSE col - 1

\* n characters are blanked one by one with no answer in between.
AllErased(s, col, n) ==
    LET e[k \in 0 .. n] ==
            IF k = 0 THEN [screen |-> s, col |-> col]
            ELSE LET before == e[k - 1]
                 IN [screen |-> Erased(before.screen, before.col),
                     col |-> ColumnErased(before.col)]
    IN e[n]

\* A line of the history is printed as it is.
Printed(s, n) ==
    LET p[k \in 0 .. n] == IF k = 0 THEN s ELSE Put(p[k - 1], TRUE)
    IN p[n]

-----------------------------------------------------------------------------
\* The screen from the row on in which the prompt ends.
Blank(p, wrap) == [pos |-> p, wrap |-> wrap, cells |-> {}]

\* The shell has not read a line.
Init ==
    /\ pc = "running"
    /\ screen = Blank(0, FALSE) /\ start = 0
    /\ cursorCol = 0 /\ len = 0
    /\ inFlight = <<>> /\ bytes = 0 /\ keys = 0 /\ lines = 0
    /\ inTouch = TRUE

\* request_cursor_pos: the answer tells the column of the cursor as it will be.
BugRequest == inFlight' = Append(inFlight, Column(screen))
Request == inFlight' = Append(inFlight, Column(screen'))

\* read_input begins after the prompt, wherever that ends.  Entering raw mode
\* discards the answers that have arrived; those on their way are still to come.
FirstColumn == 0
StartReading(p, wrap, dropped) ==
    /\ pc = "running" /\ lines < MaxLines
    /\ wrap => LastColumn(p)
    /\ pc' = "reading" /\ lines' = lines + 1
    /\ screen' = Blank(p, wrap)
    /\ start' = IF wrap THEN p + 1 ELSE p
    /\ cursorCol' = FirstColumn /\ len' = 0
    /\ inFlight' = Append(SubSeq(inFlight, dropped + 1, Len(inFlight)), Column(screen'))
    /\ inTouch' = ~wrap
    /\ UNCHANGED <<bytes, keys>>

\* The next byte is one the user typed: while a sequence is being read as text its
\* bytes come first.
Press ==
    /\ pc \in {"reading", "escape"} /\ bytes = 0
    /\ keys < MaxKeys /\ keys' = keys + 1
    /\ Len(inFlight) < MaxFlight
    /\ UNCHANGED <<bytes, lines>>

InTouch == inTouch /\ cursorCol = Column(screen)

\* insert_char; the column is left for the answer to set.
Insert ==
    /\ screen' = Inserted(screen, cursorCol)
    /\ len' = len + 1
    /\ pc' = "reading"
    /\ inTouch' = InTouch
    /\ Request
    /\ UNCHANGED <<start, cursorCol>>

Character == Press /\ len < MaxLen /\ Insert

\* handle_backspace.
Backspace ==
    /\ Press /\ len > 0
    /\ screen' = Erased(screen, cursorCol)
    /\ cursorCol' = ColumnErased(cursorCol)
    /\ len' = len - 1
    /\ pc' = "reading"
    /\ inTouch' = InTouch
    /\ Request
    /\ UNCHANGED start

\* A key that prints nothing: backspace on an empty line, Up and Down past the ends
\* of the history, other control codes and sequences; Enter after Escape, too.
Ignored ==
    /\ Press
    /\ pc' = "reading"
    /\ UNCHANGED <<screen, start, cursorCol, len, inTouch>>
    /\ Request

\* handle_up and handle_down: the text is blanked and another printed.
Recall(n) ==
    /\ Press /\ pc = "reading"
    /\ LET blank == AllErased(screen, cursorCol, len)
       IN /\ screen' = Printed(blank.screen, n)
          /\ cursorCol' = blank.col
    /\ len' = n
    /\ inTouch' = (InTouch /\ ~screen'.wrap)
    /\ Request
    /\ UNCHANGED <<pc, start>>

\* Escape: the byte after it is waited for, and is what counts.
Escape ==
    /\ Press /\ pc = "reading"
    /\ pc' = "escape"
    /\ UNCHANGED <<screen, start, cursorCol, len, inFlight, inTouch>>

\* An arrow key after Escape: its own escape is the ignored second byte, and the
\* other two are text.
EscapedArrow ==
    /\ pc = "escape" /\ bytes = 0
    /\ keys < MaxKeys /\ keys' = keys + 1
    /\ Len(inFlight) < MaxFlight
    /\ pc' = "reading" /\ bytes' = 2
    /\ UNCHANGED <<screen, start, cursorCol, len, lines, inTouch>>
    /\ Request

\* The same with an answer of the terminal.
EscapedReport ==
    /\ pc = "escape" /\ bytes = 0 /\ inFlight # <<>>
    /\ pc' = "reading" /\ bytes' = ReportBytes
    /\ inFlight' = Append(Tail(inFlight), Column(screen))
    /\ UNCHANGED <<screen, start, cursorCol, len, keys, lines, inTouch>>

ReadByte ==
    /\ pc = "reading" /\ bytes > 0
    /\ Insert
    /\ bytes' = bytes - 1
    /\ UNCHANGED <<keys, lines>>

\* handle_cpr: no request follows, or there would be one for ever.
BugAfterReport == Append(Tail(inFlight), Column(screen))
AfterReport == Tail(inFlight)
Report ==
    /\ pc = "reading" /\ bytes = 0 /\ inFlight # <<>>
    /\ cursorCol' = Head(inFlight)
    /\ inFlight' = AfterReport
    /\ UNCHANGED <<pc, screen, start, len, bytes, keys, lines, inTouch>>

\* terminate_input and destroy_input_context; the line prints on rows of its own, and
\* the last answers may still be on their way.
Enter ==
    /\ Press /\ pc = "reading"
    /\ pc' = "running"
    /\ screen' = Blank(0, FALSE) /\ start' = 0
    /\ cursorCol' = FirstColumn /\ len' = 0 /\ inTouch' = TRUE
    /\ UNCHANGED inFlight

-----------------------------------------------------------------------------
Key == \/ Character \/ Backspace \/ Ignored \/ Escape \/ EscapedArrow \/ Enter
       \/ \E n \in Recalled : Recall(n)
Reader == Report \/ EscapedReport \/ ReadByte
Reads == \E p \in 0 .. Width - 1, wrap \in BOOLEAN, dropped \in 0 .. Len(inFlight) :
            StartReading(p, wrap, dropped)

Next == Key \/ Reader \/ Reads

Spec == Init /\ [][Next]_vars

\* A byte that has arrived is read: read_input waits for nothing else.
FairSpec == Spec /\ WF_vars(Reader)

-----------------------------------------------------------------------------
(* Properties. *)

\* Once every answer has been read the column is the terminal's: whatever was typed
\* while answers were on their way, and though those of an earlier line may come
\* first (read_input, handle_cpr).
ColumnAgrees ==
    pc # "running" /\ inFlight = <<>> => cursorCol = Column(screen)

\* As long as each key is pressed after the answer to the one before, and neither the
\* prompt nor a line of the history has ended in the last column, the screen shows the
\* text after the prompt, over any number of rows, and the cursor stands after it
\* (insert_char, handle_backspace, handle_up, handle_down).
ShowsText ==
    pc # "running" /\ inTouch =>
        /\ screen.cells = start .. (start + len - 1)
        /\ screen.pos = start + len /\ ~screen.wrap

\* Requests and answers end when the user stops typing (read_input makes none for
\* an answer).
ExchangeEnds == <>[](pc = "running" \/ inFlight = <<>>)

=============================================================================
