------------------------------ MODULE Editor ------------------------------
(***************************************************************************)
(* The line editor (input.c) and the part of the main loop (shell.c) that  *)
(* calls it.                                                               *)
(*                                                                         *)
(* read_input puts the terminal into non-canonical mode, edits a line in a *)
(* buffer that grows by doubling, lets Up and Down walk through the        *)
(* history, keeping the new line aside, and gives the terminal back at     *)
(* Enter.  What is modelled is the buffers with their capacities, the      *)
(* history index and the terminal's mode; what is drawn on the screen, and *)
(* where the cursor is on it, is the subject of Screen.                    *)
(*                                                                         *)
(* One action is one iteration of read_input's loop: a key, with the       *)
(* growth of the buffer that precedes it.                                  *)
(***************************************************************************)
EXTENDS Naturals, Sequences

CONSTANTS
    Chars,          \* what can be typed
    InitCapacity,   \* new_edit_buf_capacity of read_input (64)
    MaxLen,         \* bound on the length of the text typed
    MaxHistory,     \* bound on the length of the history
    AllocFails      \* may malloc and realloc fail?

ASSUME CapacityAssumption == InitCapacity \in Nat \ {0}
ASSUME EditorBounds == MaxLen \in Nat /\ MaxHistory \in Nat
ASSUME AllocAssumption == AllocFails \in BOOLEAN

VARIABLES
    pc,         \* "prompt", "reading", or "drain" after a failed read_input
    history,    \* ctx->history, shared with the rest of the shell
    buf,        \* edit_buf, up to edit_buf_len
    capacity,   \* edit_buf_capacity
    cursor,     \* edit_buf_cursor
    bufFreed,   \* edit_buf has been freed although it is still in use
    saved,      \* new_cmdline, up to new_cmdline_len
    savedCap,   \* new_cmdline_capacity
    savedFreed, \* new_cmdline has been freed although it is still in use
    idx,        \* history_idx
    mode,       \* mode of the terminal
    origMode,   \* orig_termios
    draft       \* history variable: the new line as the user last left it

bufVars == <<buf, capacity, cursor, bufFreed>>
savedVars == <<saved, savedCap, savedFreed>>
vars == <<pc, history, bufVars, savedVars, idx, mode, origMode, draft>>

Text == Seq(Chars)

Init ==
    /\ pc = "prompt" /\ history = <<>>
    /\ buf = <<>> /\ capacity = InitCapacity /\ cursor = 0 /\ bufFreed = FALSE
    /\ saved = <<>> /\ savedCap = 0 /\ savedFreed = FALSE
    /\ idx = 0 /\ mode = "canonical" /\ origMode = "canonical"
    /\ draft = <<>>

-----------------------------------------------------------------------------
(* Entering and leaving read_input. *)

\* enable_raw_mode, init_input_context and the first allocation.
StartReading ==
    /\ pc = "prompt"
    /\ origMode' = mode /\ mode' = "raw"
    /\ pc' = "reading"
    /\ buf' = <<>> /\ capacity' = InitCapacity /\ cursor' = 0
    /\ bufFreed' = FALSE
    /\ saved' = <<>> /\ savedCap' = 0 /\ savedFreed' = FALSE
    /\ idx' = Len(history)
    /\ draft' = <<>>
    /\ UNCHANGED history

\* The first malloc fails: read_input returns -1 with the terminal as it is.
StartFails ==
    /\ pc = "prompt" /\ AllocFails
    /\ origMode' = mode /\ mode' = "raw"
    /\ pc' = "drain"
    /\ UNCHANGED <<history, bufVars, savedVars, idx, draft>>

\* tcgetattr or tcsetattr fails: enable_raw_mode returns false.
RawModeFails ==
    /\ pc = "prompt"
    /\ pc' = "drain"
    /\ UNCHANGED <<history, bufVars, savedVars, idx, mode, origMode, draft>>

\* The main loop consumes input up to the end of the line.
Drain ==
    /\ pc = "drain"
    /\ pc' = "prompt"
    /\ UNCHANGED <<history, bufVars, savedVars, idx, mode, origMode, draft>>

\* What run() does to the history with a line: nothing, adds the line, or, for
\* a line that repeats a command, adds that command.
HistoryAfter(line) ==
    {history} \cup
    (IF Len(history) < MaxHistory
       THEN {Append(history, l) :
                l \in {line} \cup {history[i] : i \in 1 .. Len(history)}}
       ELSE {})

\* Enter: terminate_input and restore_term_mode, whose failure only prints; the line
\* is run.
Enter ==
    /\ pc = "reading"
    /\ mode' \in {origMode, mode}
    /\ pc' = "prompt"
    /\ history' \in HistoryAfter(buf)
    /\ UNCHANGED <<bufVars, savedVars, idx, origMode, draft>>

-----------------------------------------------------------------------------
(* The loop. *)

\* The buffer is grown at the head of the loop so that a character and the null
\* byte fit.
NeedsGrowth == Len(buf) + 1 >= capacity
BugGrown == IF Len(buf) > capacity THEN capacity * 2 ELSE capacity
Grown == IF NeedsGrowth THEN capacity * 2 ELSE capacity

\* realloc fails there: read_input goes to err, which frees the buffers, leaves
\* the terminal as it is, and returns -1.
GrowthFails ==
    /\ pc = "reading" /\ NeedsGrowth /\ AllocFails
    /\ pc' = "drain"
    /\ UNCHANGED <<history, bufVars, savedVars, idx, mode, origMode, draft>>

\* insert_char.  The end of the input is a character as well, which getchar gives
\* over and over (input.c:222).
Insert(c) ==
    /\ pc = "reading" /\ Len(buf) < MaxLen
    /\ buf' = Append(buf, c) /\ capacity' = Grown /\ cursor' = cursor + 1
    /\ draft' = IF idx = Len(history) THEN buf' ELSE draft
    /\ UNCHANGED <<pc, history, bufFreed, savedVars, idx, mode, origMode>>

\* handle_backspace returns early on an empty buffer.
BugNothingToErase == FALSE
NothingToErase == buf = <<>>

\* handle_backspace.
Backspace ==
    /\ pc = "reading"
    /\ IF NothingToErase THEN UNCHANGED <<buf, cursor>>
       ELSE /\ buf' = SubSeq(buf, 1, Len(buf) - 1)
            /\ cursor' = cursor - 1
    /\ capacity' = Grown
    /\ draft' = IF idx = Len(history) THEN buf' ELSE draft
    /\ UNCHANGED <<pc, history, bufFreed, savedVars, idx, mode, origMode>>

\* A control character or sequence that changes no text: other C0 codes, cursor
\* reports, unknown sequences, Up at the oldest entry, Down at the new line.
IgnoreKey ==
    /\ pc = "reading"
    /\ capacity' = Grown
    /\ UNCHANGED <<pc, history, buf, cursor, bufFreed, savedVars, idx, mode>>
    /\ UNCHANGED <<origMode, draft>>

\* handle_up saves the new line only when it moves away from it.
BugLeavesNewLine == TRUE
LeavesNewLine == idx = Len(history)

\* The capacity an allocation of handle_up asks for, when the old one is short.
BugEnough(cap, len) == cap
Enough(cap, len) == IF cap < len + 1 THEN (len + 1) * 2 ELSE cap

\* handle_up: the new line is put aside, the text is erased and replaced by the
\* previous entry of the history.
Up ==
    /\ pc = "reading" /\ idx > 0
    /\ IF LeavesNewLine
         THEN saved' = buf /\ savedCap' = Enough(savedCap, Len(buf))
         ELSE UNCHANGED <<saved, savedCap>>
    /\ idx' = idx - 1
    /\ buf' = history[idx]
    /\ cursor' = Len(buf')
    /\ capacity' = Enough(Grown, Len(buf'))
    /\ UNCHANGED <<pc, history, bufFreed, savedFreed, mode, origMode, draft>>

\* handle_up: the realloc for the new line fails.  The old block is freed, false
\* is returned, and handle_csi ignores it: editing goes on.
UpSaveFails ==
    /\ pc = "reading" /\ idx > 0 /\ AllocFails
    /\ LeavesNewLine /\ savedCap < Len(buf) + 1
    /\ savedFreed' = (savedFreed \/ savedCap > 0)
    /\ capacity' = Grown
    /\ UNCHANGED <<pc, history, buf, cursor, bufFreed, saved, savedCap, idx>>
    /\ UNCHANGED <<mode, origMode, draft>>

\* handle_up: the realloc for the text fails, after the text was erased and the
\* index moved.  edit_buf is freed and kept.
UpLoadFails ==
    /\ pc = "reading" /\ idx > 0 /\ AllocFails
    /\ Grown < Len(history[idx]) + 1
    /\ IF LeavesNewLine
         THEN saved' = buf /\ savedCap' = Enough(savedCap, Len(buf))
         ELSE UNCHANGED <<saved, savedCap>>
    /\ idx' = idx - 1
    /\ buf' = <<>> /\ cursor' = 0
    /\ capacity' = Grown
    /\ bufFreed' = TRUE
    /\ UNCHANGED <<pc, history, savedFreed, mode, origMode, draft>>

\* The line handle_down shows.
DownLine == IF idx + 1 = Len(history) THEN saved ELSE history[idx + 2]

\* handle_down: no allocation, an assertion that the line fits instead.
Down ==
    /\ pc = "reading" /\ idx < Len(history)
    /\ idx' = idx + 1
    /\ buf' = DownLine
    /\ cursor' = Len(buf')
    /\ capacity' = Grown
    /\ UNCHANGED <<pc, history, bufFreed, savedVars, mode, origMode, draft>>

-----------------------------------------------------------------------------
Key == \/ Backspace \/ IgnoreKey \/ Up \/ Down \/ Enter
       \/ \E c \in Chars : Insert(c)
Failure == RawModeFails \/ StartFails \/ GrowthFails \/ UpSaveFails \/ UpLoadFails
Next == StartReading \/ Drain \/ Key \/ Failure

Spec == Init /\ [][Next]_vars

-----------------------------------------------------------------------------
(* Properties. *)

\* Every variable has its type.
TypeOk ==
    /\ pc \in {"prompt", "reading", "drain"}
    /\ history \in Seq(Text) /\ buf \in Text /\ saved \in Text /\ draft \in Text
    /\ capacity \in Nat \ {0} /\ savedCap \in Nat /\ cursor \in Nat
    /\ idx \in 0 .. Len(history)
    /\ bufFreed \in BOOLEAN /\ savedFreed \in BOOLEAN
    /\ mode \in {"canonical", "raw"} /\ origMode \in {"canonical", "raw"}

\* The three properties that follow are about a line in which no allocation of
\* handle_up has failed after freeing a buffer that goes on being used.
Intact == ~bufFreed /\ ~savedFreed

\* The text and its null byte are inside the buffer, and the two counters that
\* every handler keeps side by side agree.
TextFits ==
    pc = "reading" /\ Intact => Len(buf) < capacity /\ cursor = Len(buf)

\* The assertion of handle_down (input.c:514): the line it is about to show fits
\* into the buffer, though it allocates nothing, because every line below the
\* index was once shown or typed in this buffer.
DownFits ==
    pc = "reading" /\ Intact /\ idx < Len(history) => Len(DownLine) + 1 <= capacity

\* Coming back down to the new line shows it as the user left it, whatever was
\* done to the entries of the history meanwhile (report.typ:1235).
DraftRestored ==
    pc = "reading" /\ Intact /\ idx = Len(history) => buf = draft
=============================================================================
