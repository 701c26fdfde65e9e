---------------------------- MODULE ScreenProofs ----------------------------
(***************************************************************************)
(* What the line editor believes and shows, for any number of keys and     *)
(* answers in any order: the column is the cursor's, for every window, and *)
(* the screen has the text, for every window of at most 1025 columns.      *)
(***************************************************************************)
EXTENDS Screen, SequenceTheorems, WellFoundedInduction, TLAPS

\* The last answer in flight tells the column the cursor has now: nothing is printed
\* after the last request.  What the answers before it say does not matter.
LastIsCurrent ==
    pc # "running" =>
        IF inFlight = <<>> THEN cursorCol = Column(screen)
        ELSE inFlight[Len(inFlight)] = Column(screen)

IInv ==
    /\ \E S : inFlight \in Seq(S)
    /\ pc \in {"running", "reading", "escape"}
    /\ LastIsCurrent

\* A request puts the column in the last place.
LEMMA AppendLast ==
    ASSUME NEW q, \E S : q \in Seq(S), NEW col
    PROVE  /\ \E S : Append(q, col) \in Seq(S)
           /\ Append(q, col) # <<>>
           /\ Append(q, col)[Len(Append(q, col))] = col
<1>1. PICK S : q \in Seq(S)
  OBVIOUS
<1>2. q \in Seq(S \cup {col}) /\ col \in S \cup {col}
  BY <1>1
<1>3. QED
  BY <1>2

\* Reading an answer leaves the last one in the last place, if it was not that.
LEMMA TailLast ==
    ASSUME NEW q, \E S : q \in Seq(S), q # <<>>
    PROVE  /\ \E S : Tail(q) \in Seq(S)
           /\ Tail(q) # <<>> => Tail(q)[Len(Tail(q))] = q[Len(q)]
           /\ Tail(q) = <<>> => Head(q) = q[Len(q)]
<1>1. PICK S : q \in Seq(S)
  OBVIOUS
<1>2. Tail(q) \in Seq(S) /\ Len(Tail(q)) = Len(q) - 1 /\ Len(q) \in Nat \ {0}
  BY <1>1
<1>3. \A i \in 1 .. Len(Tail(q)) : Tail(q)[i] = q[i + 1]
  BY <1>1
<1>4. Tail(q) # <<>> => Len(Tail(q)) \in 1 .. Len(Tail(q))
  BY <1>2
<1>5. Tail(q) = <<>> => Len(q) = 1
  BY <1>2
<1>6. Head(q) = q[1]
  BY <1>1
<1>7. QED
  BY <1>2, <1>3, <1>4, <1>5, <1>6

LEMMA InitIInv == Init => IInv
  BY DEF Init, IInv, LastIsCurrent

\* After a key or a byte of text the answer to its request is the last one in flight.
LEMMA RequestIInv ==
    ASSUME IInv, Request, pc' \in {"running", "reading", "escape"}
    PROVE  IInv'
  BY AppendLast DEF IInv, Request, LastIsCurrent, Column

LEMMA StepIInv == IInv /\ [Next]_vars => IInv'
<1> SUFFICES ASSUME IInv, [Next]_vars
             PROVE  IInv'
  OBVIOUS
<1>1. CASE Character \/ Backspace \/ Ignored \/ EscapedArrow \/ ReadByte
         \/ \E n \in Recalled : Recall(n)
  <2>1. Request /\ pc' \in {"running", "reading", "escape"}
    BY <1>1 DEF Character, Insert, Backspace, Ignored, EscapedArrow, ReadByte, Recall,
                IInv, Press
  <2>2. QED
    BY <2>1, RequestIInv
<1>2. CASE Escape
  BY <1>2 DEF Escape, Press, IInv, LastIsCurrent, Column
<1>3. CASE EscapedReport
  <2>1. \E S : Tail(inFlight) \in Seq(S)
    BY <1>3, TailLast DEF EscapedReport, IInv
  <2>2. QED
    BY <1>3, <2>1, AppendLast DEF EscapedReport, IInv, LastIsCurrent, Column
<1>4. CASE Report
  <2>1. /\ \E S : Tail(inFlight) \in Seq(S)
        /\ Tail(inFlight) # <<>> =>
             Tail(inFlight)[Len(Tail(inFlight))] = inFlight[Len(inFlight)]
        /\ Tail(inFlight) = <<>> => Head(inFlight) = inFlight[Len(inFlight)]
    BY <1>4, TailLast DEF Report, IInv
  <2>2. QED
    BY <1>4, <2>1 DEF Report, AfterReport, IInv, LastIsCurrent, Column
<1>5. CASE Enter
  BY <1>5 DEF Enter, Press, IInv, LastIsCurrent
<1>6. CASE Reads
  <2>1. PICK p \in 0 .. Width - 1, wrap \in BOOLEAN, dropped \in 0 .. Len(inFlight) :
          StartReading(p, wrap, dropped)
    BY <1>6 DEF Reads
  <2>2. PICK S : inFlight \in Seq(S)
    BY DEF IInv
  <2>3. SubSeq(inFlight, dropped + 1, Len(inFlight)) \in Seq(S)
    BY <2>2, SubSeqProperties
  <2>4. QED
    BY <2>1, <2>3, AppendLast DEF StartReading, IInv, LastIsCurrent, Column
<1>7. CASE UNCHANGED vars
  BY <1>7 DEF vars, IInv, LastIsCurrent, Column
<1>8. QED
  BY <1>1, <1>2, <1>3, <1>4, <1>5, <1>6, <1>7 DEF Next, Key, Reader

\* Once every answer has been read the column is the terminal's (read_input and
\* handle_cpr), however keys and answers were interleaved.
THEOREM ColumnCorrect == Spec => []ColumnAgrees
<1>1. IInv => ColumnAgrees
  BY DEF IInv, LastIsCurrent, ColumnAgrees
<1>2. QED
  BY <1>1, InitIInv, StepIInv, PTL DEF Spec

-----------------------------------------------------------------------------
(* Rows and columns. *)

LEMMA ColumnIsMod ==
    ASSUME NEW p \in Nat
    PROVE  p % Width \in 0 .. Width - 1 /\ p - (p % Width) \in Nat
<1>1. p % Width \in 0 .. Width - 1
  BY WidthAssumption
<1>2. p = (p \div Width) * Width + (p % Width) /\ p \div Width \in Nat
  BY WidthAssumption
<1>3. (p \div Width) * Width \in Nat
  BY <1>2, WidthAssumption
<1>4. QED
  BY <1>1, <1>2, <1>3

\* The cell after the last one of a row is the first one of the next.
LEMMA NextCell ==
    ASSUME NEW p \in Nat
    PROVE  (p + 1) % Width = IF p % Width = Width - 1 THEN 0 ELSE (p % Width) + 1
<1>1. PICK q \in Nat, r \in 0 .. Width - 1 : p = q * Width + r /\ p % Width = r
  <2>1. p = (p \div Width) * Width + (p % Width)
    BY WidthAssumption
  <2>2. p \div Width \in Nat /\ p % Width \in 0 .. Width - 1
    BY WidthAssumption
  <2>3. QED
    BY <2>1, <2>2
<1>2. \A k \in Nat : \A x \in 0 .. Width - 1 : (k * Width + x) % Width = x
  BY WidthAssumption
<1>3. CASE r = Width - 1
  <2>1. p + 1 = (q + 1) * Width + 0
    BY <1>1, <1>3, WidthAssumption
  <2>2. q + 1 \in Nat /\ 0 \in 0 .. Width - 1
    BY WidthAssumption
  <2>3. (p + 1) % Width = 0
    BY <1>2, <2>1, <2>2
  <2>4. QED
    BY <1>1, <1>3, <2>3
<1>4. CASE r # Width - 1
  <2>1. p + 1 = q * Width + (r + 1) /\ r + 1 \in 0 .. Width - 1
    BY <1>1, <1>4, WidthAssumption
  <2>2. (p + 1) % Width = r + 1
    BY <1>2, <2>1
  <2>3. QED
    BY <1>1, <1>4, <2>2
<1>5. QED
  BY <1>3, <1>4

\* Above the first cell of a row, but for the first row, is another first cell.
LEMMA CellAbove ==
    ASSUME NEW p \in Nat, p > 0, p % Width = 0
    PROVE  p - Width \in Nat /\ (p - Width) % Width = 0 /\ (p - 1) % Width = Width - 1
<1>1. PICK q \in Nat : p = q * Width
  <2>1. p = (p \div Width) * Width + (p % Width) /\ p \div Width \in Nat
    BY WidthAssumption
  <2>2. QED
    BY <2>1, WidthAssumption
<1>2. q > 0
  BY <1>1, WidthAssumption
<1>3. PICK k \in Nat : q = k + 1
  BY <1>2
<1>4. p = k * Width + Width /\ k * Width \in Nat
  BY <1>1, <1>3, WidthAssumption
<1>5. \A j \in Nat : \A x \in 0 .. Width - 1 : (j * Width + x) % Width = x
  BY WidthAssumption
<1>6. (k * Width + 0) % Width = 0 /\ (k * Width + (Width - 1)) % Width = Width - 1
  <2>1. 0 \in 0 .. Width - 1 /\ Width - 1 \in 0 .. Width - 1
    BY WidthAssumption
  <2>2. QED
    BY <1>5, <2>1
<1>7. PICK m \in Nat : m = k * Width
  BY <1>4
<1>8. p - Width = m + 0 /\ p - 1 = m + (Width - 1) /\ p - Width \in Nat
  BY <1>4, <1>7, WidthAssumption
<1>9. QED
  BY <1>6, <1>7, <1>8

-----------------------------------------------------------------------------
(* What the screen shows. *)

\* The cursor is at a position, and these cells are not blank; or the cursor
\* stands there past the margin.
Looks(s, p, cells) ==
    /\ DOMAIN s = {"pos", "wrap", "cells"}
    /\ s.pos = p /\ s.wrap = FALSE /\ s.cells = cells
PastMargin(s, p, cells) ==
    /\ DOMAIN s = {"pos", "wrap", "cells"}
    /\ s.pos = p /\ s.wrap = TRUE /\ s.cells = cells

\* The text after the prompt and the cursor after the text.
Shown(s, from, n) == Looks(s, from + n, from .. (from + n - 1))

LEMMA MovedTo ==
    ASSUME NEW s, NEW p, NEW cells, Looks(s, p, cells) \/ PastMargin(s, p, cells), NEW q
    PROVE  Looks(Moved(s, q), q, cells)
BY DEF Moved, Looks, PastMargin

LEMMA LooksRecord ==
    ASSUME NEW p, NEW cells
    PROVE  Looks([pos |-> p, wrap |-> FALSE, cells |-> cells], p, cells)
BY DEF Looks

LEMMA PastMarginRecord ==
    ASSUME NEW p, NEW cells
    PROVE  PastMargin([pos |-> p, wrap |-> TRUE, cells |-> cells], p, cells)
BY DEF PastMargin

\* Where a character goes, and where the cursor is then.
LEMMA Marked ==
    ASSUME NEW s, NEW p, NEW cells, NEW cell,
           \/ Looks(s, p, cells) /\ cell = p
           \/ PastMargin(s, p, cells) /\ cell = p + 1,
           NEW u, u = Put(s, TRUE)
    PROVE  /\ cell % Width = Width - 1 => PastMargin(u, cell, cells \cup {cell})
           /\ cell % Width # Width - 1 => Looks(u, cell + 1, cells \cup {cell})
<1>1. cell = (IF s.wrap THEN s.pos + 1 ELSE s.pos) /\ s.cells = cells
  BY DEF Looks, PastMargin
<1>2. u = [pos |-> IF LastColumn(cell) THEN cell ELSE cell + 1,
           wrap |-> LastColumn(cell), cells |-> cells \cup {cell}]
  BY <1>1, Zenon DEF Put
<1>3. CASE cell % Width = Width - 1
  <2>1. u = [pos |-> cell, wrap |-> TRUE, cells |-> cells \cup {cell}]
    BY <1>2, <1>3, Zenon DEF LastColumn
  <2>2. PastMargin(u, cell, cells \cup {cell})
    BY <2>1, PastMarginRecord, Zenon
  <2>3. QED
    BY <1>3, <2>2
<1>4. CASE cell % Width # Width - 1
  <2>1. u = [pos |-> cell + 1, wrap |-> FALSE, cells |-> cells \cup {cell}]
    BY <1>2, <1>4, Zenon DEF LastColumn
  <2>2. Looks(u, cell + 1, cells \cup {cell})
    BY <2>1, LooksRecord, Zenon
  <2>3. QED
    BY <1>4, <2>2
<1>5. QED
  BY <1>3, <1>4

LEMMA Blanked ==
    ASSUME NEW s, NEW p, NEW cells, Looks(s, p, cells), NEW u, u = Put(s, FALSE)
    PROVE  /\ p % Width = Width - 1 => PastMargin(u, p, cells \ {p})
           /\ p % Width # Width - 1 => Looks(u, p + 1, cells \ {p})
<1>1. p = (IF s.wrap THEN s.pos + 1 ELSE s.pos) /\ s.cells = cells
  BY DEF Looks
<1>2. u = [pos |-> IF LastColumn(p) THEN p ELSE p + 1,
           wrap |-> LastColumn(p), cells |-> cells \ {p}]
  BY <1>1, Zenon DEF Put
<1>3. CASE p % Width = Width - 1
  <2>1. u = [pos |-> p, wrap |-> TRUE, cells |-> cells \ {p}]
    BY <1>2, <1>3, Zenon DEF LastColumn
  <2>2. PastMargin(u, p, cells \ {p})
    BY <2>1, PastMarginRecord, Zenon
  <2>3. QED
    BY <1>3, <2>2
<1>4. CASE p % Width # Width - 1
  <2>1. u = [pos |-> p + 1, wrap |-> FALSE, cells |-> cells \ {p}]
    BY <1>2, <1>4, Zenon DEF LastColumn
  <2>2. Looks(u, p + 1, cells \ {p})
    BY <2>1, LooksRecord, Zenon
  <2>3. QED
    BY <1>4, <2>2
<1>5. QED
  BY <1>3, <1>4

LEMMA CharacterShows ==
    ASSUME NEW from \in Nat, NEW n \in Nat, NEW s, Shown(s, from, n)
    PROVE  Shown(Inserted(s, Column(s)), from, n + 1)
<1>1. PICK p \in Nat : p = from + n
  OBVIOUS
<1>2. PICK before, after : before = from .. (p - 1) /\ after = from .. p
  OBVIOUS
<1>3. after = before \cup {p}
  BY <1>1, <1>2
<1>4. Looks(s, p, before)
  BY <1>1, <1>2 DEF Shown
<1>5. Column(s) = (p % Width) + 1 /\ p % Width \in 0 .. Width - 1
  BY <1>4, ColumnIsMod DEF Column, Looks
<1>6. Looks(Inserted(s, Column(s)), p + 1, after)
  <2>a. PICK u : u = Put(s, TRUE)
    OBVIOUS
  <2>b. Inserted(s, Column(s)) = IF Column(s) = Width THEN NewLine(u) ELSE u
    BY <2>a, Zenon DEF Inserted
  <2>1. /\ p % Width = Width - 1 => PastMargin(u, p, after)
        /\ p % Width # Width - 1 => Looks(u, p + 1, after)
    BY <1>3, <1>4, <2>a, Marked
  <2>2. CASE p % Width = Width - 1
    <3>1. Inserted(s, Column(s)) = NewLine(u)
      BY <1>5, <2>b, <2>2, WidthAssumption
    <3>2. RowStart(u) + Width = p + 1
      BY <1>1, <2>1, <2>2, WidthAssumption DEF RowStart, PastMargin
    <3>3. QED
      BY <2>1, <2>2, <3>1, <3>2, MovedTo DEF NewLine
  <2>3. CASE p % Width # Width - 1
    <3>1. Inserted(s, Column(s)) = u
      BY <1>5, <2>b, <2>3, WidthAssumption
    <3>2. QED
      BY <2>1, <2>3, <3>1
  <2>4. QED
    BY <2>2, <2>3
<1>7. p + 1 = from + (n + 1) /\ p = from + (n + 1) - 1
  BY <1>1
<1>8. QED
  BY <1>2, <1>6, <1>7 DEF Shown

\* The last column of the row above, which is at most 1024 away from the first.
LEMMA EraseShows ==
    ASSUME NEW from \in Nat, NEW n \in Nat, n > 0, NEW s, Shown(s, from, n),
           Width <= 1025
    PROVE  /\ Shown(Erased(s, Column(s)), from, n - 1)
           /\ ColumnErased(Column(s)) = Column(Erased(s, Column(s)))
<1>1. PICK p \in Nat : p = from + n
  OBVIOUS
<1>2. PICK before, after : before = from .. (p - 1) /\ after = from .. (p - 2)
  OBVIOUS
<1>3. p > 0 /\ after = before \ {p - 1}
  BY <1>1, <1>2
<1>4. Looks(s, p, before)
  BY <1>1, <1>2 DEF Shown
<1>5. Column(s) = (p % Width) + 1 /\ p % Width \in 0 .. Width - 1
  BY <1>4, ColumnIsMod DEF Column, Looks
<1>6. p - 1 \in Nat
  BY <1>3
<1>7. CASE p % Width = 0
  <2>1. p - Width \in Nat /\ (p - Width) % Width = 0 /\ (p - 1) % Width = Width - 1
    BY <1>3, <1>7, CellAbove
  <2>2. PICK u : u = Up(s)
    OBVIOUS
  <2>3. Looks(u, p - Width, before)
    <3>1. u = Moved(s, p - Width)
      BY <1>4, <2>2 DEF Up, Looks
    <3>2. QED
      BY <1>4, <3>1, MovedTo
  <2>4. PICK v : v = Right(u, 1024)
    OBVIOUS
  <2>5. Looks(v, p - 1, before)
    <3>1. u.pos = p - Width /\ RowStart(u) = p - Width
      BY <2>1, <2>3, WidthAssumption DEF RowStart, Looks
    <3>2. (IF u.pos + 1024 < RowStart(u) + Width THEN u.pos + 1024
           ELSE RowStart(u) + Width - 1) = p - 1
      BY <3>1, WidthAssumption
    <3>3. v = Moved(u, p - 1)
      BY <2>4, <3>2 DEF Right
    <3>4. QED
      BY <2>3, <3>3, MovedTo
  <2>6. PICK x : x = Put(v, FALSE)
    OBVIOUS
  <2>7. PastMargin(x, p - 1, after)
    BY <1>3, <2>1, <2>5, <2>6, Blanked
  <2>8. Looks(Right(x, 1), p - 1, after)
    <3>1. x.pos = p - 1 /\ RowStart(x) = (p - 1) - (Width - 1)
      BY <2>1, <2>7 DEF RowStart, PastMargin
    <3>2. (IF x.pos + 1 < RowStart(x) + Width THEN x.pos + 1
           ELSE RowStart(x) + Width - 1) = p - 1
      BY <3>1, WidthAssumption
    <3>3. Right(x, 1) = Moved(x, p - 1)
      BY <3>2 DEF Right
    <3>4. QED
      BY <2>7, <3>3, MovedTo
  <2>9. Column(s) = 1 /\ Erased(s, Column(s)) = Right(x, 1)
    <3>1. Column(s) = 1
      BY <1>5, <1>7
    <3>2. Erased(s, 1) = OverMargin(s)
      BY DEF Erased
    <3>3. OverMargin(s) = Right(x, 1)
      <4>1. OverMargin(s) = Right(Put(Right(Up(s), 1024), FALSE), 1)
        BY Zenon DEF OverMargin
      <4>2. x = Put(Right(Up(s), 1024), FALSE)
        BY <2>2, <2>4, <2>6
      <4>3. QED
        BY <4>1, <4>2
    <3>4. QED
      BY <3>1, <3>2, <3>3, Zenon
  <2>10. ColumnErased(Column(s)) = Column(Erased(s, Column(s)))
    BY <2>1, <2>8, <2>9, WidthAssumption DEF ColumnErased, Column, Looks
  <2>11. QED
    <3>1. p - 1 = from + (n - 1) /\ p - 2 = from + (n - 1) - 1
      BY <1>1
    <3>2. QED
      BY <1>2, <2>8, <2>9, <2>10, <3>1 DEF Shown
<1>8. CASE p % Width # 0
  <2>1. (p - 1) % Width = (p % Width) - 1
    <3>1. p % Width = IF (p - 1) % Width = Width - 1 THEN 0 ELSE ((p - 1) % Width) + 1
      <4>1. PICK x \in Nat : x = p - 1 /\ x + 1 = p
        BY <1>6
      <4>2. QED
        BY <4>1, NextCell
    <3>2. (p - 1) % Width \in 0 .. Width - 1
      BY <1>6, ColumnIsMod
    <3>3. QED
      BY <1>8, <3>1, <3>2, WidthAssumption
  <2>2. (p - 1) % Width # Width - 1
    BY <1>5, <2>1, WidthAssumption
  <2>3. Column(s) # 1
    BY <1>5, <1>8
  <2>4. PICK u : u = Left(s)
    OBVIOUS
  <2>5. Looks(u, p - 1, before)
    <3>1. u = Moved(s, p - 1)
      BY <1>4, <2>3, <2>4 DEF Left, Looks
    <3>2. QED
      BY <1>4, <3>1, MovedTo
  <2>6. PICK v : v = Put(u, FALSE)
    OBVIOUS
  <2>7. Looks(v, p, after)
    <3>1. Looks(v, (p - 1) + 1, after)
      BY <1>3, <2>2, <2>5, <2>6, Blanked
    <3>2. QED
      BY <3>1
  <2>8. Looks(Left(v), p - 1, after)
    <3>1. Left(v) = Moved(v, p - 1)
      BY <1>5, <1>8, <2>7 DEF Left, Column, Looks
    <3>2. QED
      BY <2>7, <3>1, MovedTo
  <2>9. Erased(s, Column(s)) = Left(v)
    BY <2>3, <2>4, <2>6, Zenon DEF Erased
  <2>10. ColumnErased(Column(s)) = Column(Erased(s, Column(s)))
    BY <1>5, <2>1, <2>3, <2>8, <2>9 DEF ColumnErased, Column, Looks
  <2>11. QED
    <3>1. p - 1 = from + (n - 1) /\ p - 2 = from + (n - 1) - 1
      BY <1>1
    <3>2. QED
      BY <1>2, <2>8, <2>9, <2>10, <3>1 DEF Shown
<1>9. QED
  BY <1>7, <1>8

-----------------------------------------------------------------------------
(* A line of the history in place of the text. *)

LEMMA SmallestNat ==
    ASSUME NEW T, T \subseteq Nat, T # {}
    PROVE  \E x \in T : \A y \in T : x <= y
<1> DEFINE R == {ss \in Nat \X Nat : ss[1] < ss[2]}
<1>1. \E x \in T : \A y \in T : ~(<<y, x>> \in R)
  <2> HIDE DEF R
  <2>1. IsWellFoundedOn(R, Nat)
    BY NatLessThanWellFounded, Zenon DEF R, OpToRel
  <2>2. QED
    BY <2>1, WFMin
<1>2. ASSUME NEW x \in T, NEW y \in T, ~(<<y, x>> \in R) PROVE x <= y
  <2>1. x \in Nat /\ y \in Nat
    OBVIOUS
  <2>2. ~(y < x)
    BY <1>2, <2>1
  <2>3. QED
    BY <2>1, <2>2
<1>3. QED
  BY <1>1, <1>2

\* The screen and the believed column after each of n characters is blanked.
OneErased(b) == [screen |-> Erased(b.screen, b.col), col |-> ColumnErased(b.col)]
EraseRun(g, first, n) ==
    g = [k \in 0 .. n |-> IF k = 0 THEN first ELSE OneErased(g[k - 1])]

LEMMA EraseRunExists ==
    ASSUME NEW first, NEW n \in Nat
    PROVE  \E g : EraseRun(g, first, n)
<1> DEFINE T == {m \in Nat : ~\E g : EraseRun(g, first, m)}
<1>1. SUFFICES ASSUME T # {} PROVE FALSE
  BY <1>1
<1>2. PICK m \in T : \A y \in T : m <= y
  BY <1>1, SmallestNat
<1>3. CASE m = 0
  <2>1. EraseRun([k \in 0 .. 0 |-> first], first, 0)
    BY DEF EraseRun
  <2>2. QED
    BY <1>2, <1>3, <2>1
<1>4. CASE m # 0
  <2>1. m - 1 \in Nat /\ m - 1 \notin T
    BY <1>2, <1>4
  <2>2. PICK g : EraseRun(g, first, m - 1)
    BY <2>1
  <2> DEFINE h == [k \in 0 .. m |-> IF k = m THEN OneErased(g[m - 1]) ELSE g[k]]
  <2>3. \A k \in 0 .. m - 1 : h[k] = g[k]
    BY <2>1
  <2>4. \A k \in 0 .. m : h[k] = IF k = 0 THEN first ELSE OneErased(h[k - 1])
    <3>1. \A k \in 0 .. m - 1 : g[k] = IF k = 0 THEN first ELSE OneErased(g[k - 1])
      BY <2>2 DEF EraseRun
    <3>2. QED
      BY <1>4, <2>1, <2>3, <3>1
  <2>5. EraseRun(h, first, m)
    <3> HIDE DEF h
    <3>1. h = [k \in 0 .. m |-> h[k]]
      BY DEF h
    <3>2. QED
      BY <2>4, <3>1 DEF EraseRun
  <2>6. QED
    BY <1>2, <2>5
<1>5. QED
  BY <1>3, <1>4

LEMMA AllErasedRun ==
    ASSUME NEW s, NEW col, NEW n \in Nat
    PROVE  \E g : /\ g[0] = [screen |-> s, col |-> col]
                  /\ \A k \in 1 .. n : g[k] = OneErased(g[k - 1])
                  /\ AllErased(s, col, n) = g[n]
<1> DEFINE first == [screen |-> s, col |-> col]
           f == CHOOSE g : EraseRun(g, first, n)
<1>1. EraseRun(f, first, n)
  <2> HIDE DEF first
  <2>1. QED
    BY EraseRunExists
<1>2. AllErased(s, col, n) = f[n]
  BY DEF AllErased, EraseRun, OneErased
<1> HIDE DEF f, first
<1>3. /\ f[0] = first
      /\ \A k \in 1 .. n : f[k] = OneErased(f[k - 1])
  BY <1>1 DEF EraseRun
<1>4. QED
  BY <1>2, <1>3 DEF first

\* Blanking as many characters as the text has leaves an empty text, and the column
\* is right although no answer was read.
LEMMA AllErasedShows ==
    ASSUME NEW from \in Nat, NEW n \in Nat, NEW s, Shown(s, from, n), Width <= 1025,
           NEW e, e = AllErased(s, Column(s), n)
    PROVE  Shown(e.screen, from, 0) /\ e.col = Column(e.screen)
<1>1. PICK c : c = Column(s)
  OBVIOUS
<1>2. PICK g : /\ g[0] = [screen |-> s, col |-> c]
               /\ \A k \in 1 .. n : g[k] = OneErased(g[k - 1])
               /\ AllErased(s, c, n) = g[n]
  BY AllErasedRun
<1> DEFINE Good(k) == Shown(g[k].screen, from, n - k) /\ g[k].col = Column(g[k].screen)
           T == {k \in 0 .. n : ~Good(k)}
<1>3. T = {}
  <2>1. SUFFICES ASSUME T # {} PROVE FALSE
    OBVIOUS
  <2>2. T \subseteq Nat
    OBVIOUS
  <2>3. PICK k \in T : \A y \in T : k <= y
    <3> HIDE DEF T
    <3>1. QED
      BY <2>1, <2>2, SmallestNat
  <2>4. k \in 0 .. n /\ ~Good(k)
    BY <2>3
  <2>5. CASE k = 0
    <3>1. g[0].screen = s /\ g[0].col = c
      BY <1>2
    <3>2. n - 0 = n
      OBVIOUS
    <3>3. Good(0)
      BY <1>1, <3>1, <3>2
    <3>4. QED
      BY <2>4, <2>5, <3>3
  <2>6. CASE k # 0
    <3>1. k - 1 \in 0 .. n /\ k - 1 \notin T /\ k \in 1 .. n
      BY <2>3, <2>4, <2>6
    <3>2. Good(k - 1)
      BY <3>1
    <3>a. PICK u : u = g[k - 1].screen
      OBVIOUS
    <3>b. PICK m \in Nat : m = n - (k - 1) /\ m > 0 /\ m - 1 = n - k
      BY <3>1
    <3>3. u = g[k - 1].screen /\ m = n - (k - 1) /\ m > 0 /\ m - 1 = n - k
      BY <3>a, <3>b
    <3>4. Shown(u, from, m) /\ g[k - 1].col = Column(u)
      BY <3>2, <3>3
    <3>5. g[k] = OneErased(g[k - 1])
      BY <1>2, <3>1
    <3>6. g[k] = [screen |-> Erased(u, Column(u)), col |-> ColumnErased(Column(u))]
      BY <3>3, <3>4, <3>5, Zenon DEF OneErased
    <3>7. /\ Shown(Erased(u, Column(u)), from, m - 1)
          /\ ColumnErased(Column(u)) = Column(Erased(u, Column(u)))
      BY <3>3, <3>4, EraseShows
    <3>8. g[k].screen = Erased(u, Column(u)) /\ g[k].col = ColumnErased(Column(u))
      BY <3>6
    <3>9. Shown(g[k].screen, from, m - 1) /\ g[k].col = Column(g[k].screen)
      BY <3>7, <3>8, Zenon
    <3>10. QED
      BY <2>4, <3>3, <3>9
  <2>7. QED
    BY <2>5, <2>6
<1>4. Good(n)
  BY <1>3
<1>5. n - n = 0 /\ e = g[n]
  BY <1>1, <1>2
<1> HIDE DEF T
<1>6. QED
  BY <1>4, <1>5

Marking(s) == Put(s, TRUE)
PutRun(g, s, n) == g = [k \in 0 .. n |-> IF k = 0 THEN s ELSE Marking(g[k - 1])]

LEMMA PutRunExists ==
    ASSUME NEW s, NEW n \in Nat
    PROVE  \E g : PutRun(g, s, n)
<1> DEFINE T == {m \in Nat : ~\E g : PutRun(g, s, m)}
<1>1. SUFFICES ASSUME T # {} PROVE FALSE
  BY <1>1
<1>2. PICK m \in T : \A y \in T : m <= y
  BY <1>1, SmallestNat
<1>3. CASE m = 0
  <2>1. PutRun([k \in 0 .. 0 |-> s], s, 0)
    BY DEF PutRun
  <2>2. QED
    BY <1>2, <1>3, <2>1
<1>4. CASE m # 0
  <2>1. m - 1 \in Nat /\ m - 1 \notin T
    BY <1>2, <1>4
  <2>2. PICK g : PutRun(g, s, m - 1)
    BY <2>1
  <2> DEFINE h == [k \in 0 .. m |-> IF k = m THEN Marking(g[m - 1]) ELSE g[k]]
  <2>3. \A k \in 0 .. m - 1 : h[k] = g[k]
    BY <2>1
  <2>4. \A k \in 0 .. m : h[k] = IF k = 0 THEN s ELSE Marking(h[k - 1])
    <3>1. \A k \in 0 .. m - 1 : g[k] = IF k = 0 THEN s ELSE Marking(g[k - 1])
      BY <2>2 DEF PutRun
    <3>2. QED
      BY <1>4, <2>1, <2>3, <3>1
  <2>5. PutRun(h, s, m)
    <3> HIDE DEF h
    <3>1. h = [k \in 0 .. m |-> h[k]]
      BY DEF h
    <3>2. QED
      BY <2>4, <3>1 DEF PutRun
  <2>6. QED
    BY <1>2, <2>5
<1>5. QED
  BY <1>3, <1>4

LEMMA PrintedRun ==
    ASSUME NEW s, NEW n \in Nat
    PROVE  \E g : /\ g[0] = s
                  /\ \A k \in 1 .. n : g[k] = Marking(g[k - 1])
                  /\ Printed(s, n) = g[n]
<1> DEFINE f == CHOOSE g : PutRun(g, s, n)
<1>1. PutRun(f, s, n)
  BY PutRunExists
<1>2. Printed(s, n) = f[n]
  BY DEF Printed, PutRun, Marking
<1> HIDE DEF f
<1>3. \A k \in 0 .. n : f[k] = IF k = 0 THEN s ELSE Marking(f[k - 1])
  BY <1>1 DEF PutRun
<1>4. f[0] = s
  <2>1. 0 \in 0 .. n
    OBVIOUS
  <2>2. QED
    BY <1>3, <2>1
<1>5. ASSUME NEW k \in 1 .. n PROVE f[k] = Marking(f[k - 1])
  <2>1. k \in 0 .. n /\ k # 0
    OBVIOUS
  <2>2. QED
    BY <1>3, <2>1
<1>6. QED
  BY <1>2, <1>4, <1>5, Zenon

\* The text from a cell on, after which the cursor may stand past the margin.
Trail(u, from, k) ==
    \/ Shown(u, from, k)
    \/ /\ (from + k) % Width = 0
       /\ PastMargin(u, from + k - 1, from .. (from + k - 1))

LEMMA TrailGrows ==
    ASSUME NEW from \in Nat, NEW k \in Nat, NEW s, Trail(s, from, k),
           NEW u, u = Put(s, TRUE)
    PROVE  Trail(u, from, k + 1)
<1>1. PICK p \in Nat : p = from + k
  OBVIOUS
<1>2. PICK before, after : before = from .. (p - 1) /\ after = from .. p
  OBVIOUS
<1>3. after = before \cup {p}
  BY <1>1, <1>2
<1>4. Looks(s, p, before) \/ PastMargin(s, p - 1, before)
  BY <1>1, <1>2 DEF Trail, Shown
<1>5. /\ p % Width = Width - 1 => PastMargin(u, p, after)
      /\ p % Width # Width - 1 => Looks(u, p + 1, after)
  <2>1. PICK q : q = p - 1 /\ p = q + 1
    BY <1>1
  <2>2. \/ Looks(s, p, before) /\ p = p
        \/ PastMargin(s, q, before) /\ p = q + 1
    BY <1>4, <2>1
  <2>3. CASE Looks(s, p, before)
    BY <1>3, <2>3, Marked
  <2>4. CASE PastMargin(s, q, before)
    BY <1>3, <2>1, <2>4, Marked
  <2>5. QED
    BY <2>2, <2>3, <2>4
<1>6. p % Width = Width - 1 => (p + 1) % Width = 0
  BY NextCell
<1>7. from + (k + 1) = p + 1 /\ from + (k + 1) - 1 = p
  BY <1>1
<1>8. QED
  BY <1>2, <1>5, <1>6, <1>7 DEF Trail, Shown

\* A line of the history is printed in full, wherever the margin cuts it.
LEMMA PrintedTrail ==
    ASSUME NEW from \in Nat, NEW n \in Nat, NEW s, Shown(s, from, 0)
    PROVE  Trail(Printed(s, n), from, n)
<1>1. PICK g : /\ g[0] = s
               /\ \A k \in 1 .. n : g[k] = Marking(g[k - 1])
               /\ Printed(s, n) = g[n]
  BY PrintedRun
<1> DEFINE T == {k \in 0 .. n : ~Trail(g[k], from, k)}
<1>2. T = {}
  <2>1. SUFFICES ASSUME T # {} PROVE FALSE
    OBVIOUS
  <2>2. T \subseteq Nat
    OBVIOUS
  <2>3. PICK k \in T : \A y \in T : k <= y
    <3> HIDE DEF T
    <3>1. QED
      BY <2>1, <2>2, SmallestNat
  <2>4. k \in 0 .. n /\ ~Trail(g[k], from, k)
    BY <2>3
  <2>5. CASE k = 0
    BY <1>1, <2>4, <2>5 DEF Trail
  <2>6. CASE k # 0
    <3>1. PICK m \in Nat : k = m + 1 /\ k - 1 = m /\ m \in 0 .. n /\ k \in 1 .. n
      BY <2>4, <2>6
    <3>2. m \notin T
      BY <2>3, <3>1
    <3>3. Trail(g[m], from, m) /\ g[k] = Marking(g[m])
      BY <1>1, <3>1, <3>2
    <3>4. Trail(g[k], from, m + 1)
      BY <3>3, TrailGrows, Zenon DEF Marking
    <3>5. QED
      BY <2>4, <3>1, <3>4
  <2>7. QED
    BY <2>5, <2>6
<1>3. QED
  BY <1>1, <1>2

-----------------------------------------------------------------------------
(* The screen shows the text. *)

\* The text is on the screen while the user and the shell are in touch.
ShowsInv ==
    /\ start \in Nat /\ len \in Nat
    /\ pc # "running" /\ inTouch => Shown(screen, start, len)

LEMMA InitShows == Init => ShowsInv
BY DEF Init, ShowsInv

LEMMA InsertShows ==
    ASSUME ShowsInv, Insert, pc # "running"
    PROVE  ShowsInv'
<1>1. /\ start' = start /\ len' = len + 1 /\ screen' = Inserted(screen, cursorCol)
      /\ start \in Nat /\ len \in Nat
  BY DEF Insert, ShowsInv
<1>2. ASSUME inTouch' PROVE Shown(screen', start', len')
  <2>1. inTouch /\ cursorCol = Column(screen)
    BY <1>2 DEF Insert, InTouch
  <2>2. Shown(screen, start, len)
    BY <2>1 DEF ShowsInv
  <2>3. Shown(Inserted(screen, Column(screen)), start, len + 1)
    BY <1>1, <2>2, CharacterShows
  <2>4. QED
    BY <1>1, <2>1, <2>3
<1>3. len + 1 \in Nat
  BY <1>1
<1>4. QED
  BY <1>1, <1>2, <1>3 DEF ShowsInv

LEMMA BackspaceShows ==
    ASSUME ShowsInv, Backspace, Width <= 1025
    PROVE  ShowsInv'
<1>1. /\ start' = start /\ len' = len - 1 /\ screen' = Erased(screen, cursorCol)
      /\ start \in Nat /\ len \in Nat /\ len > 0 /\ pc # "running"
  BY DEF Backspace, Press, ShowsInv
<1>2. ASSUME inTouch' PROVE Shown(screen', start', len')
  <2>1. inTouch /\ cursorCol = Column(screen)
    BY <1>2 DEF Backspace, InTouch
  <2>2. Shown(screen, start, len)
    BY <1>1, <2>1 DEF ShowsInv
  <2>3. Shown(Erased(screen, Column(screen)), start, len - 1)
    BY <1>1, <2>2, EraseShows
  <2>4. QED
    BY <1>1, <2>1, <2>3
<1>3. len - 1 \in Nat
  BY <1>1
<1>4. QED
  BY <1>1, <1>2, <1>3 DEF ShowsInv

LEMMA RecallShows ==
    ASSUME ShowsInv, NEW n \in Recalled, Recall(n), Width <= 1025
    PROVE  ShowsInv'
<1>1. PICK e : e = AllErased(screen, cursorCol, len)
  OBVIOUS
<1>2. /\ start' = start /\ len' = n /\ screen' = Printed(e.screen, n) /\ n \in Nat
      /\ start \in Nat /\ len \in Nat /\ pc # "running" /\ pc' = pc
  BY <1>1, BoundsAssumption DEF Recall, Press, ShowsInv
<1>3. ASSUME inTouch' PROVE Shown(screen', start', len')
  <2>1. inTouch /\ cursorCol = Column(screen) /\ ~screen'.wrap
    BY <1>3 DEF Recall, InTouch
  <2>2. Shown(screen, start, len)
    BY <1>2, <2>1 DEF ShowsInv
  <2>3. Shown(e.screen, start, 0)
    BY <1>1, <1>2, <2>1, <2>2, AllErasedShows
  <2>4. Trail(screen', start, n)
    <3>1. PICK s : s = e.screen
      OBVIOUS
    <3>2. QED
      BY <1>2, <2>3, <3>1, PrintedTrail
  <2>5. QED
    BY <1>2, <2>1, <2>4 DEF Trail, PastMargin
<1>4. QED
  BY <1>2, <1>3 DEF ShowsInv

LEMMA StepShows ==
    ASSUME ShowsInv, [Next]_vars, Width <= 1025
    PROVE  ShowsInv'
<1>1. CASE Character
  BY <1>1, InsertShows DEF Character, Press
<1>2. CASE ReadByte
  BY <1>2, InsertShows DEF ReadByte
<1>3. CASE Backspace
  BY <1>3, BackspaceShows
<1>4. CASE \E n \in Recalled : Recall(n)
  BY <1>4, RecallShows
<1>5. CASE Ignored \/ Escape \/ EscapedArrow \/ EscapedReport \/ Report
  <2>1. /\ UNCHANGED <<screen, start, len, inTouch>>
        /\ pc # "running"
    BY <1>5 DEF Ignored, Press, Escape, EscapedArrow, EscapedReport, Report
  <2>2. QED
    BY <2>1 DEF ShowsInv
<1>6. CASE Enter
  BY <1>6 DEF Enter, ShowsInv
<1>7. CASE Reads
  <2>1. PICK p \in 0 .. Width - 1, wrap \in BOOLEAN, dropped \in 0 .. Len(inFlight) :
          StartReading(p, wrap, dropped)
    BY <1>7 DEF Reads
  <2>2. p \in Nat /\ p + 1 \in Nat
    BY <2>1, WidthAssumption
  <2>3. start' \in Nat /\ len' = 0
    BY <2>1, <2>2 DEF StartReading
  <2>4. ASSUME inTouch' PROVE Shown(screen', start', len')
    <3>1. wrap = FALSE
      BY <2>1, <2>4 DEF StartReading
    <3>2. screen' = [pos |-> p, wrap |-> FALSE, cells |-> {}] /\ start' = p
      BY <2>1, <3>1 DEF StartReading, Blank
    <3>3. p .. (p + 0 - 1) = {} /\ p + 0 = p
      BY <2>2
    <3>4. Looks(screen', p, {})
      BY <3>2, LooksRecord, Zenon
    <3>5. QED
      BY <2>3, <3>2, <3>3, <3>4 DEF Shown
  <2>5. QED
    BY <2>3, <2>4 DEF ShowsInv
<1>8. CASE UNCHANGED vars
  BY <1>8 DEF vars, ShowsInv
<1>9. QED
  BY <1>1, <1>2, <1>3, <1>4, <1>5, <1>6, <1>7, <1>8 DEF Next, Key, Reader

\* As long as the user and the shell are in touch the screen shows the text, over any
\* number of rows (insert_char, handle_backspace, handle_up and handle_down), if the
\* window is no wider than the 1024 columns by which the cursor is moved to the margin
\* when a character is erased there, and one more.
THEOREM TextShown ==
    ASSUME Width <= 1025
    PROVE  Spec => []ShowsText
<1>1. ShowsInv => ShowsText
  BY DEF ShowsInv, ShowsText, Shown, Looks
<1>2. ShowsInv /\ [Next]_vars => ShowsInv'
  BY StepShows
<1>3. QED
  BY <1>1, <1>2, InitShows, PTL DEF Spec

=============================================================================
