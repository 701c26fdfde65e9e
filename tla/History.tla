------------------------------ MODULE History ------------------------------
(***************************************************************************)
(* The command history (shell.c) and the runner of a line (run.c: run,     *)
(* run_ast and run_cmd_line).                                              *)
(*                                                                         *)
(* A line is lexed and parsed each time it is run, and what it then means  *)
(* depends on the files: "!1*" is a parse error while 1* matches two files *)
(* and the repetition of line 1 while it matches only the file 1.  The     *)
(* state of the files is dir, and Meaning gives what a line means in it:   *)
(* nothing, an error of the lexer or the parser ("bad"), a line of jobs,   *)
(* or a repetition with its query.  run calls itself, through              *)
(* run_cmd_line, on the line that a repetition finds; nothing is left to   *)
(* do after that call, so that one line and the depth stand for the stack. *)
(***************************************************************************)
EXTENDS Integers, Sequences

CONSTANTS
    Texts,          \* the lines that can be typed
    Dirs,           \* the states of the files
    Meaning,        \* Meaning[d][t]: what line t means when the files are in state d
    Begins,         \* Begins[q]: the lines that begin with the query q
    Word,           \* 2^64: one more than the greatest size_t
    NotFound,       \* NULL
    InitCapacity,   \* first capacity of the history (4)
    AllocFails,     \* may strdup and realloc fail?
    MaxHistory      \* bound on the length of the history

Queries == DOMAIN Begins
Meanings ==
    {[kind |-> k] : k \in {"empty", "bad", "jobs"}}
    \cup [kind : {"number"}, query : 0 .. Word - 1]
    \cup [kind : {"prefix"}, query : Queries]

ASSUME MeaningAssumption == Meaning \in [Dirs -> [Texts -> Meanings]]
ASSUME BeginsAssumption == \A q \in Queries : Begins[q] \subseteq Texts
ASSUME NumbersAssumption ==
    /\ Word \in Nat \ {0} /\ MaxHistory \in Nat /\ MaxHistory < Word
    /\ InitCapacity \in Nat \ {0}
ASSUME AllocAssumption == AllocFails \in BOOLEAN

ASSUME NotFoundAssumption == NotFound \notin Texts

VARIABLES
    dir,        \* the state of the files
    history,    \* ctx->history
    capacity,   \* ctx->history_capacity
    line,       \* the line that run runs, or NotFound at the prompt
    depth,      \* the calls of run that are active (see MaxDepth)
    executed,   \* history variable: the line whose jobs were run for this prompt
    entries     \* history variable: the entries when the line was read

vars == <<dir, history, capacity, line, depth, executed, entries>>

\* Bound: beyond the fourth call the depth alternates between 3 and 4, so that a
\* call is a step and not a stutter.
MaxDepth == 4
Deeper == IF depth < MaxDepth THEN depth + 1 ELSE MaxDepth - 1

Init ==
    /\ dir \in Dirs /\ history = <<>> /\ capacity = 0
    /\ line = NotFound /\ depth = 0 /\ executed = NotFound /\ entries = 0

-----------------------------------------------------------------------------
(* shell.c. *)

BugGrown == IF Len(history) > capacity THEN capacity * 2 ELSE capacity
Grown ==
    IF Len(history) # capacity THEN capacity
    ELSE IF capacity = 0 THEN InitCapacity ELSE capacity * 2

\* add_line_to_history, whose result its callers ignore.
Record(l) ==
    \/ history' = Append(history, l) /\ capacity' = Grown
    \/ AllocFails /\ UNCHANGED <<history, capacity>>

\* get_command_by_index; the index is unsigned and counts from 0.
BugByNumber(n) ==
    LET idx == n % Word
    IN  IF idx >= Len(history) THEN NotFound ELSE history[idx + 1]
ByNumber(n) ==
    LET idx == (n - 1) % Word
    IN  IF idx >= Len(history) THEN NotFound ELSE history[idx + 1]

\* get_command_by_prefix: the newest entry that begins with the query.
Newest(S) == CHOOSE i \in S : \A j \in S : j <= i
ByPrefix(q) ==
    LET matches == {i \in 1 .. Len(history) : history[i] \in Begins[q]}
    IN  IF matches = {} THEN NotFound ELSE history[Newest(matches)]

-----------------------------------------------------------------------------
(* run.c. *)

Here == Meaning[dir][line]

\* The main loop reads a line and calls run.  Other programs may have changed
\* the files meanwhile.
ReadLine ==
    /\ line = NotFound /\ Len(history) < MaxHistory
    /\ line' \in Texts /\ depth' = 1
    /\ dir' \in Dirs
    /\ executed' = NotFound /\ entries' = Len(history)
    /\ UNCHANGED <<history, capacity>>

\* run returns, and with it every call below it.
Return == line' = NotFound /\ depth' = 0 /\ UNCHANGED entries

\* An empty line, or no memory for the tokens.
RunNothing ==
    /\ line # NotFound /\ (Here.kind = "empty" \/ AllocFails)
    /\ Return
    /\ UNCHANGED <<dir, history, capacity, executed>>

\* The lexer or the parser fails, the parser also for want of memory: the line
\* is recorded whatever it was.
RunBad ==
    /\ line # NotFound
    /\ Here.kind = "bad" \/ (Here.kind = "jobs" /\ AllocFails)
    /\ Record(line) /\ Return
    /\ UNCHANGED <<dir, executed>>

\* What run_cmd_line records of a line of jobs, before it runs them.
BugKept == executed
Kept == line

RunJobs ==
    /\ line # NotFound /\ Here.kind = "jobs"
    /\ Record(Kept) /\ Return
    /\ executed' = line
    /\ dir' \in Dirs

\* The line a repetition finds.
Found == IF Here.kind = "number" THEN ByNumber(Here.query) ELSE ByPrefix(Here.query)
IsRepeat == Here.kind \in {"number", "prefix"}

\* "error: no such command in history".  The line is not recorded.
RepeatNothing ==
    /\ line # NotFound /\ IsRepeat /\ Found = NotFound
    /\ Return
    /\ UNCHANGED <<dir, history, capacity, executed>>

\* The line that run is called on.
BugRepeated == line
Repeated == Found

\* run_cmd_line does not record the line of the repetition.
BugRecordRepeat == Record(line)
RecordRepeat == UNCHANGED <<history, capacity>>

\* The line found is lexed anew, by when the files may have changed.
Repeat ==
    /\ line # NotFound /\ IsRepeat /\ Found # NotFound
    /\ line' = Repeated
    /\ depth' = Deeper
    /\ RecordRepeat
    /\ dir' \in Dirs
    /\ UNCHANGED <<executed, entries>>

\* The bound on the history is reached: no more lines are read.
Full == line = NotFound /\ Len(history) >= MaxHistory /\ UNCHANGED vars

Run == RunNothing \/ RunBad \/ RunJobs \/ RepeatNothing \/ Repeat
Next == ReadLine \/ Run \/ Full
Spec == Init /\ [][Next]_vars

\* The shell does not stop in the middle of a line.
FairSpec == Spec /\ WF_vars(Run)

-----------------------------------------------------------------------------
(* Properties. *)

\* Every variable has its type, and the history is inside its array, though it
\* only grows when it is full (shell.c:115).
TypeOk ==
    /\ dir \in Dirs /\ history \in Seq(Texts)
    /\ capacity \in Nat /\ Len(history) <= capacity
    /\ line \in Texts \cup {NotFound} /\ executed \in Texts \cup {NotFound}
    /\ depth \in 0 .. MaxDepth /\ (depth = 0 <=> line = NotFound)
    /\ entries \in Nat

\* A repetition never finds another repetition: run calls itself once at most,
\* because the line of a repetition is not recorded.
RecursionBounded == depth <= 2

\* A line that is read is done with, and the prompt comes back
\* (report.typ:318-329: the command found "is re-executed").
RunReturns == (line # NotFound) ~> (line = NotFound)

\* Back at the prompt, one line has added one entry at most, and a line that ran
\* is the newest entry, or none when it could not be added: after a repetition
\* that is the command found, not the line typed (report.typ:322).
NewestIsExecuted ==
    line = NotFound =>
        /\ Len(history) \in {entries, entries + 1}
        /\ executed # NotFound =>
              \/ AllocFails /\ Len(history) = entries
              \/ Len(history) = entries + 1 /\ history[Len(history)] = executed

\* '!' and a number finds the entry that the history built-in shows with that
\* number, and nothing for 0 or past the end (report.typ:319).
NumberExact ==
    \A n \in 0 .. Word - 1 :
        ByNumber(n) = IF n \in 1 .. Len(history) THEN history[n] ELSE NotFound
=============================================================================
