---------------------------- MODULE EditorProofs ----------------------------
(***************************************************************************)
(* Theorems about the line editor: for every alphabet, every first         *)
(* capacity and every length of text and history, the edit buffer always   *)
(* holds its text and null byte, the assertion of handle_down never fires, *)
(* and the new line comes back as it was left, unless a failed allocation  *)
(* of handle_up has freed a buffer that is still used.                     *)
(***************************************************************************)
EXTENDS Editor, TLAPS

\* Every handler moves the cursor with the end of the text.
CursorAtEnd == pc = "reading" => cursor = Len(buf)

\* The lines that Down can still show fit into the buffer: handle_up made room
\* for each of them, and the buffer never shrinks.
LinesBelowFit ==
    pc = "reading" /\ Intact /\ idx < Len(history) =>
        /\ Len(saved) + 1 <= capacity
        /\ \A i \in 1 .. Len(history) : i > idx => Len(history[i]) + 1 <= capacity

\* The new line is in the edit buffer, or else put aside.
DraftKept ==
    pc = "reading" /\ Intact =>
        IF idx = Len(history) THEN buf = draft ELSE saved = draft

-----------------------------------------------------------------------------
(* Facts about the capacities and the text. *)

\* After the growth at the head of the loop there is room for a character more.
LEMMA GrownEnough ==
    ASSUME TypeOk, TextFits, Intact, pc = "reading"
    PROVE  /\ Grown \in Nat \ {0}
           /\ Grown >= capacity
           /\ Len(buf) + 1 < Grown
<1>1. Len(buf) \in Nat /\ capacity \in Nat \ {0}
  BY DEF TypeOk, Text
<1>2. Len(buf) < capacity
  BY DEF TextFits
<1>3. QED
  BY <1>1, <1>2 DEF Grown, NeedsGrowth

\* An allocation of handle_up leaves room for the line and its null byte.
LEMMA EnoughFits ==
    ASSUME NEW cap \in Nat, NEW len \in Nat
    PROVE  /\ Enough(cap, len) \in Nat \ {0}
           /\ Enough(cap, len) >= cap
           /\ len + 1 <= Enough(cap, len)
BY DEF Enough

\* A line of the history is a text.
LEMMA LineIsText ==
    ASSUME TypeOk, NEW i \in 1 .. Len(history)
    PROVE  history[i] \in Text /\ Len(history[i]) \in Nat
BY DEF TypeOk, Text

\* Running a line leaves a history.
LEMMA HistoryAfterType ==
    ASSUME TypeOk, NEW h \in HistoryAfter(buf)
    PROVE  h \in Seq(Text)
<1>1. buf \in Text /\ history \in Seq(Text)
  BY DEF TypeOk
<1>2. \A l \in {buf} \cup {history[i] : i \in 1 .. Len(history)} : l \in Text
  BY <1>1, LineIsText
<1>3. \A l \in Text : Append(history, l) \in Seq(Text)
  BY <1>1
<1>4. QED
  BY <1>1, <1>2, <1>3 DEF HistoryAfter

\* Backspace takes one character off, or nothing.
LEMMA BackspaceShortens ==
    ASSUME TypeOk, CursorAtEnd, Backspace
    PROVE  /\ buf' \in Text /\ Len(buf') \in Nat /\ Len(buf') <= Len(buf)
           /\ cursor' = Len(buf')
<1>1. Len(buf) \in Nat /\ cursor = Len(buf) /\ buf \in Text
  BY DEF Backspace, TypeOk, CursorAtEnd, Text
<1>2. CASE buf = <<>>
  BY <1>1, <1>2 DEF Backspace, NothingToErase
<1>3. CASE buf # <<>>
  <2>1. Len(buf) >= 1
    BY <1>1, <1>3 DEF Text
  <2>2. /\ SubSeq(buf, 1, Len(buf) - 1) \in Text
        /\ Len(SubSeq(buf, 1, Len(buf) - 1)) = Len(buf) - 1
    BY <1>1, <2>1 DEF Text
  <2>3. buf' = SubSeq(buf, 1, Len(buf) - 1) /\ cursor' = cursor - 1
    BY <1>3, Zenon DEF Backspace, NothingToErase
  <2>4. QED
    BY <1>1, <2>1, <2>2, <2>3
<1>4. QED
  BY <1>2, <1>3

\* What handle_up puts aside is a text in a buffer.
LEMMA SavedType ==
    ASSUME TypeOk,
           IF LeavesNewLine
             THEN saved' = buf /\ savedCap' = Enough(savedCap, Len(buf))
             ELSE UNCHANGED <<saved, savedCap>>
    PROVE  saved' \in Text /\ savedCap' \in Nat
<1>1. Len(buf) \in Nat /\ savedCap \in Nat
  BY DEF TypeOk, Text
<1>2. QED
  BY <1>1, EnoughFits DEF TypeOk

\* While a line is read, a freed buffer stays freed.
LEMMA IntactBefore ==
    ASSUME [Next]_vars, Intact', pc = "reading"
    PROVE  Intact
<1>1. CASE UNCHANGED vars
  BY <1>1 DEF vars, bufVars, savedVars, Intact
<1>2. CASE Enter \/ GrowthFails \/ \E c \in Chars : Insert(c)
  BY <1>2 DEF Enter, GrowthFails, Insert, bufVars, savedVars, Intact
<1>3. CASE Backspace \/ IgnoreKey \/ Up \/ Down
  BY <1>3 DEF Backspace, IgnoreKey, Up, Down, savedVars, Intact
<1>4. CASE UpSaveFails \/ UpLoadFails
  <2>1. ~bufFreed' /\ ~savedFreed'
    BY Zenon DEF Intact
  <2>2. CASE UpSaveFails
    <3>1. bufFreed' = bufFreed
      BY <2>2 DEF UpSaveFails
    <3>2. savedFreed' = (savedFreed \/ savedCap > 0)
      BY <2>2 DEF UpSaveFails
    <3>3. ~bufFreed
      BY <3>1, <2>1, Zenon
    <3>4. ~savedFreed
      BY <3>2, <2>1, Zenon
    <3>5. QED
      BY <3>3, <3>4 DEF Intact
  <2>3. CASE UpLoadFails
    BY <2>1, <2>3 DEF UpLoadFails
  <2>4. QED
    BY <1>4, <2>2, <2>3
<1>5. CASE StartReading \/ Drain \/ RawModeFails \/ StartFails
  BY <1>5 DEF StartReading, Drain, RawModeFails, StartFails
<1>6. QED
  BY <1>1, <1>2, <1>3, <1>4, <1>5 DEF Next, Key, Failure

\* The line handle_down is about to show fits.
LEMMA DownLineFits ==
    ASSUME TypeOk, LinesBelowFit, Intact, pc = "reading", idx < Len(history)
    PROVE  Len(DownLine) \in Nat /\ Len(DownLine) + 1 <= capacity
<1>1. idx \in Nat /\ Len(history) \in Nat
  BY DEF TypeOk
<1>2. CASE idx + 1 = Len(history)
  BY <1>2 DEF DownLine, LinesBelowFit, TypeOk, Text
<1>3. CASE idx + 1 # Len(history)
  <2>1. idx + 2 \in 1 .. Len(history) /\ idx + 2 > idx
    BY <1>1, <1>3
  <2>2. QED
    BY <1>3, <2>1, LineIsText DEF DownLine, LinesBelowFit
<1>4. QED
  BY <1>2, <1>3

-----------------------------------------------------------------------------
(* Types.  They hold whatever fails. *)

TypeInv == TypeOk /\ CursorAtEnd

LEMMA GrownType == ASSUME TypeOk PROVE Grown \in Nat \ {0}
BY DEF TypeOk, Grown

LEMMA InitType == Init => TypeInv
<1>1. Len(<<>>) = 0 /\ <<>> \in Text /\ <<>> \in Seq(Text)
  BY DEF Text
<1>2. SUFFICES ASSUME Init PROVE TypeInv
  OBVIOUS
<1>3. /\ history \in Seq(Text) /\ buf \in Text /\ saved \in Text /\ draft \in Text
      /\ cursor = Len(buf) /\ Len(history) = 0
  BY <1>1, <1>2, Zenon DEF Init
<1>4. /\ idx \in 0 .. Len(history) /\ savedCap \in Nat /\ cursor \in Nat
      /\ capacity \in Nat \ {0}
  BY <1>2, <1>3, CapacityAssumption DEF Init
<1>5. QED
  BY <1>2, <1>3, <1>4, Zenon DEF Init, TypeInv, TypeOk, CursorAtEnd

LEMMA StepType == TypeInv /\ [Next]_vars => TypeInv'
<1> SUFFICES ASSUME TypeInv, [Next]_vars PROVE TypeInv'
  OBVIOUS
<1> USE DEF TypeInv
<1>1. CASE StartReading
  <2>1. InitCapacity \in Nat \ {0} /\ <<>> \in Text /\ Len(<<>>) = 0
    BY CapacityAssumption DEF Text
  <2>2. history' = history /\ idx' = Len(history) /\ idx' \in 0 .. Len(history')
    BY <1>1 DEF StartReading, TypeOk
  <2>3. /\ buf' = <<>> /\ saved' = <<>> /\ draft' = <<>>
        /\ cursor' = 0 /\ cursor' \in Nat /\ savedCap' \in Nat
        /\ capacity' \in Nat \ {0}
    BY <1>1, <2>1 DEF StartReading
  <2>4. QED
    BY <1>1, <2>1, <2>2, <2>3, Zenon DEF StartReading, TypeOk, CursorAtEnd
<1>2. CASE StartFails \/ RawModeFails \/ Drain \/ GrowthFails
  BY <1>2 DEF StartFails, RawModeFails, Drain, GrowthFails, TypeOk, CursorAtEnd,
              bufVars, savedVars
<1>3. CASE Enter
  <2>1. history' \in Seq(Text)
    BY <1>3, HistoryAfterType DEF Enter
  <2>2. Len(history') >= Len(history) /\ Len(history') \in Nat /\ Len(history) \in Nat
    BY <1>3, <2>1 DEF Enter, HistoryAfter, TypeOk
  <2>3. idx' \in 0 .. Len(history')
    BY <1>3, <2>2 DEF Enter, TypeOk
  <2>4. QED
    BY <1>3, <2>1, <2>3 DEF Enter, TypeOk, CursorAtEnd, bufVars, savedVars
<1>4. CASE \E c \in Chars : Insert(c)
  <2>1. PICK c \in Chars : Insert(c)
    BY <1>4
  <2>2. buf' \in Text /\ Len(buf') = Len(buf) + 1 /\ Len(buf) \in Nat
    BY <2>1 DEF Insert, TypeOk, Text
  <2>3. cursor' = Len(buf') /\ cursor' \in Nat
    BY <2>1, <2>2 DEF Insert, CursorAtEnd
  <2>4. draft' \in Text
    BY <2>1, <2>2 DEF Insert, TypeOk
  <2>5. QED
    BY <2>1, <2>2, <2>3, <2>4, GrownType DEF Insert, TypeOk, CursorAtEnd, savedVars
<1>5. CASE Backspace
  <2>1. Len(buf) \in Nat /\ cursor = Len(buf) /\ buf \in Text
    BY <1>5 DEF Backspace, TypeOk, CursorAtEnd, Text
  <2>2. buf' \in Text /\ cursor' = Len(buf') /\ cursor' \in Nat
    BY <1>5, <2>1, BackspaceShortens DEF Backspace
  <2>3. draft' \in Text
    BY <1>5, <2>2 DEF Backspace, TypeOk
  <2>4. QED
    BY <1>5, <2>2, <2>3, GrownType DEF Backspace, TypeOk, CursorAtEnd, savedVars
<1>6. CASE IgnoreKey
  BY <1>6, GrownType DEF IgnoreKey, TypeOk, CursorAtEnd, savedVars
<1>7. CASE Up
  <2>1. idx \in 1 .. Len(history) /\ Len(history) \in Nat
    BY <1>7 DEF Up, TypeOk
  <2>2. history[idx] \in Text /\ Len(history[idx]) \in Nat
    BY <2>1, LineIsText
  <2>3. capacity' \in Nat \ {0}
    BY <1>7, <2>2, GrownType, EnoughFits DEF Up
  <2>4. saved' \in Text /\ savedCap' \in Nat
    BY <1>7, SavedType DEF Up
  <2>5. QED
    BY <1>7, <2>1, <2>2, <2>3, <2>4 DEF Up, TypeOk, CursorAtEnd
<1>8. CASE UpSaveFails
  BY <1>8, GrownType DEF UpSaveFails, TypeOk, CursorAtEnd
<1>9. CASE UpLoadFails
  <2>1. idx \in 1 .. Len(history) /\ Len(history) \in Nat
    BY <1>9 DEF UpLoadFails, TypeOk
  <2>2. saved' \in Text /\ savedCap' \in Nat
    BY <1>9, SavedType DEF UpLoadFails
  <2>3. buf' \in Text /\ Len(buf') = 0 /\ cursor' = 0
    BY <1>9 DEF UpLoadFails, Text
  <2>4. QED
    BY <1>9, <2>1, <2>2, <2>3, GrownType DEF UpLoadFails, TypeOk, CursorAtEnd
<1>10. CASE Down
  <2>1. Len(history) \in Nat /\ idx \in Nat /\ idx < Len(history)
    BY <1>10 DEF Down, TypeOk
  <2>2. DownLine \in Text /\ Len(DownLine) \in Nat
    BY <2>1, LineIsText DEF DownLine, TypeOk, Text
  <2>3. QED
    BY <1>10, <2>1, <2>2, GrownType DEF Down, TypeOk, CursorAtEnd, savedVars
<1>11. CASE UNCHANGED vars
  BY <1>11 DEF vars, bufVars, savedVars, TypeOk, CursorAtEnd
<1>12. QED
  BY <1>1, <1>2, <1>3, <1>4, <1>5, <1>6, <1>7, <1>8, <1>9, <1>10, <1>11
  DEF Next, Key, Failure

\* Every variable keeps its type, whichever allocations fail.
THEOREM TypeCorrect == Spec => []TypeOk
<1>1. TypeInv => TypeOk
  BY DEF TypeInv
<1>2. QED
  BY InitType, StepType, <1>1, PTL DEF Spec

-----------------------------------------------------------------------------
(* The buffer.  The lines below the index fit because each was shown in this *)
(* very buffer; that is what makes the absence of an allocation in           *)
(* handle_down right, and a handle_up that fails half way breaks it.         *)

BufferInv == TextFits /\ LinesBelowFit

LEMMA StepBuffer ==
    ASSUME TypeOk, CursorAtEnd, BufferInv, [Next]_vars
    PROVE  BufferInv'
<1> USE DEF BufferInv
<1> SUFFICES ASSUME Intact' PROVE BufferInv'
  BY DEF TextFits, LinesBelowFit
<1>a. /\ Len(buf) \in Nat /\ capacity \in Nat \ {0}
      /\ Len(history) \in Nat /\ idx \in Nat
      /\ pc = "reading" => Intact
  BY IntactBefore DEF TypeOk, Text
<1>b. Len(saved) \in Nat /\ \A i \in 1 .. Len(history) : Len(history[i]) \in Nat
  BY LineIsText DEF TypeOk, Text
<1>1. CASE StartReading
  BY <1>1, <1>a, CapacityAssumption DEF StartReading, TextFits, LinesBelowFit
<1>2. CASE StartFails \/ RawModeFails \/ Drain \/ GrowthFails \/ Enter
  BY <1>2 DEF StartFails, RawModeFails, Drain, GrowthFails, Enter, TextFits, LinesBelowFit
<1>3. CASE \E c \in Chars : Insert(c)
  <2>1. PICK c \in Chars : Insert(c)
    BY <1>3
  <2>2. Len(buf') = Len(buf) + 1
    BY <2>1 DEF Insert, TypeOk, Text
  <2>3. capacity' = Grown /\ cursor' = Len(buf')
    BY <2>1, <2>2 DEF Insert, CursorAtEnd
  <2>4. TextFits'
    BY <2>1, <2>2, <2>3, <1>a, GrownEnough DEF Insert, TextFits
  <2>5. LinesBelowFit'
    BY <2>1, <2>3, <1>a, <1>b, GrownEnough DEF Insert, LinesBelowFit, savedVars
  <2>6. QED
    BY <2>4, <2>5
<1>4. CASE Backspace
  <2>1. Len(buf') \in Nat /\ Len(buf') <= Len(buf) /\ cursor' = Len(buf')
    BY <1>4, BackspaceShortens DEF CursorAtEnd, Backspace
  <2>2. TextFits'
    BY <1>4, <2>1, <1>a, GrownEnough DEF Backspace, TextFits
  <2>3. LinesBelowFit'
    BY <1>4, <1>a, <1>b, GrownEnough DEF Backspace, LinesBelowFit, savedVars
  <2>4. QED
    BY <2>2, <2>3
<1>5. CASE IgnoreKey
  <2>1. TextFits'
    BY <1>5, <1>a, GrownEnough DEF IgnoreKey, TextFits
  <2>2. LinesBelowFit'
    BY <1>5, <1>a, <1>b, GrownEnough DEF IgnoreKey, LinesBelowFit, savedVars
  <2>3. QED
    BY <2>1, <2>2
<1>6. CASE Up
  <2>1. idx \in 1 .. Len(history)
    BY <1>6, <1>a DEF Up, TypeOk
  <2> DEFINE len == Len(history[idx])
  <2>2. len \in Nat
    BY <2>1, <1>b
  <2>3. /\ capacity' \in Nat /\ capacity' >= Grown /\ len + 1 <= capacity'
        /\ capacity' >= capacity /\ Len(buf) + 1 < capacity'
    <3>1. Grown \in Nat /\ Grown >= capacity /\ Len(buf) + 1 < Grown
      BY <1>6, <1>a, GrownEnough DEF Up
    <3>2. capacity' = Enough(Grown, len)
      BY <1>6 DEF Up
    <3>3. /\ Enough(Grown, len) \in Nat /\ Enough(Grown, len) >= Grown
          /\ len + 1 <= Enough(Grown, len)
      BY <3>1, <2>2, EnoughFits
    <3> HIDE DEF len
    <3>4. QED
      BY <3>1, <3>2, <3>3, <1>a, <2>2
  <2>4. TextFits'
    BY <1>6, <2>2, <2>3 DEF Up, TextFits
  <2>5. Len(saved') + 1 <= capacity'
    <3>1. CASE LeavesNewLine
      BY <1>6, <3>1, <2>3, <1>a DEF Up
    <3>2. CASE ~LeavesNewLine
      BY <1>6, <3>2, <2>1, <2>3, <1>a, <1>b DEF Up, LeavesNewLine, LinesBelowFit
    <3>3. QED
      BY <3>1, <3>2
  <2>6. ASSUME NEW i \in 1 .. Len(history), i > idx - 1
        PROVE  Len(history[i]) + 1 <= capacity'
    <3>1. CASE i = idx
      BY <3>1, <2>3
    <3>2. CASE i > idx
      BY <3>2, <1>6, <2>1, <2>3, <1>a, <1>b DEF Up, LinesBelowFit
    <3>3. QED
      BY <2>1, <2>6, <3>1, <3>2
  <2>7. LinesBelowFit'
    BY <1>6, <2>5, <2>6, <1>a DEF Up, LinesBelowFit
  <2>8. QED
    BY <2>4, <2>7
<1>7. CASE UpSaveFails \/ UpLoadFails
  <2>1. UpSaveFails
    BY <1>7 DEF UpLoadFails, Intact
  <2>2. TextFits'
    BY <2>1, <1>a, GrownEnough DEF UpSaveFails, TextFits
  <2>3. LinesBelowFit'
    BY <2>1, <1>a, <1>b, GrownEnough DEF UpSaveFails, LinesBelowFit
  <2>4. QED
    BY <2>2, <2>3
<1>8. CASE Down
  <2>1. Len(DownLine) \in Nat /\ Len(DownLine) + 1 <= capacity
    BY <1>8, <1>a, <1>b, DownLineFits DEF Down
  <2>2. capacity' >= capacity /\ capacity' \in Nat
    BY <1>8, <1>a, GrownEnough DEF Down
  <2>3. TextFits'
    BY <1>8, <2>1, <2>2, <1>a DEF Down, TextFits
  <2>4. LinesBelowFit'
    BY <1>8, <2>2, <1>a, <1>b DEF Down, LinesBelowFit, savedVars
  <2>5. QED
    BY <2>3, <2>4
<1>9. CASE UNCHANGED vars
  BY <1>9 DEF vars, bufVars, savedVars, TextFits, LinesBelowFit, Intact
<1>10. QED
  BY <1>1, <1>2, <1>3, <1>4, <1>5, <1>6, <1>7, <1>8, <1>9 DEF Next, Key, Failure

LEMMA InitInv == Init => CursorAtEnd /\ BufferInv
BY DEF Init, CursorAtEnd, BufferInv, TextFits, LinesBelowFit

\* The text and its null byte are inside the edit buffer.
THEOREM TextCorrect ==
    Spec => []TextFits
<1>1. Init => TypeInv /\ BufferInv
  BY InitType, InitInv
<1>2. TypeInv /\ BufferInv /\ [Next]_vars => (TypeInv /\ BufferInv)'
  BY StepType, StepBuffer DEF TypeInv
<1>3. BufferInv => TextFits
  BY DEF BufferInv
<1>4. QED
  BY <1>1, <1>2, <1>3, PTL DEF Spec

\* The assertion of handle_down holds.
THEOREM DownCorrect ==
    Spec => []DownFits
<1>1. Init => TypeInv /\ BufferInv
  BY InitType, InitInv
<1>2. TypeInv /\ BufferInv /\ [Next]_vars => (TypeInv /\ BufferInv)'
  BY StepType, StepBuffer DEF TypeInv
<1>3. TypeInv /\ BufferInv => DownFits
  BY DownLineFits DEF TypeInv, BufferInv, DownFits
<1>4. QED
  BY <1>1, <1>2, <1>3, PTL DEF Spec

-----------------------------------------------------------------------------
(* The new line. *)

LEMMA StepDraft ==
    ASSUME TypeOk, DraftKept, [Next]_vars
    PROVE  DraftKept'
<1> SUFFICES ASSUME Intact' PROVE DraftKept'
  BY DEF DraftKept
<1>a. /\ Len(history) \in Nat /\ idx \in 0 .. Len(history)
      /\ pc = "reading" => Intact
  BY IntactBefore DEF TypeOk
<1>1. CASE StartReading
  BY <1>1 DEF StartReading, DraftKept
<1>2. CASE StartFails \/ RawModeFails \/ Drain \/ GrowthFails \/ Enter
  BY <1>2 DEF StartFails, RawModeFails, Drain, GrowthFails, Enter, DraftKept
<1>3. CASE (\E c \in Chars : Insert(c)) \/ Backspace \/ IgnoreKey
  BY <1>3, <1>a DEF Insert, Backspace, IgnoreKey, DraftKept, savedVars
<1>4. CASE Up
  <2>1. idx' # Len(history') /\ pc = "reading" /\ draft' = draft
    BY <1>4, <1>a DEF Up
  <2>2. CASE LeavesNewLine
    BY <1>4, <1>a, <2>1, <2>2, Zenon DEF Up, LeavesNewLine, DraftKept
  <2>3. CASE ~LeavesNewLine
    BY <1>4, <1>a, <2>1, <2>3, Zenon DEF Up, LeavesNewLine, DraftKept
  <2>4. QED
    BY <2>2, <2>3
<1>5. CASE UpSaveFails \/ UpLoadFails
  BY <1>5, <1>a DEF UpSaveFails, UpLoadFails, DraftKept, Intact
<1>6. CASE Down
  BY <1>6, <1>a DEF Down, DownLine, DraftKept, savedVars
<1>7. CASE UNCHANGED vars
  BY <1>7 DEF vars, bufVars, savedVars, DraftKept, Intact
<1>8. QED
  BY <1>1, <1>2, <1>3, <1>4, <1>5, <1>6, <1>7 DEF Next, Key, Failure

\* Coming back down to the new line shows it as it was left.
THEOREM DraftCorrect ==
    Spec => []DraftRestored
<1>1. Init => TypeInv /\ DraftKept
  BY InitType DEF Init, DraftKept
<1>2. TypeInv /\ DraftKept /\ [Next]_vars => (TypeInv /\ DraftKept)'
  BY StepType, StepDraft DEF TypeInv
<1>3. DraftKept => DraftRestored
  BY DEF DraftKept, DraftRestored
<1>4. QED
  BY <1>1, <1>2, <1>3, PTL DEF Spec
=============================================================================
