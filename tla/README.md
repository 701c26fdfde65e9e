# A verification development for acush

`acush` is an interactive Unix shell in C (`src/src/`, 3 900 lines with headers):
a line editor with history, a two-stage lexer, a recursive-descent parser, and a
runner with pipelines, redirections, background and sequential jobs, job control
and five built-in commands. This directory holds TLA+ models of its core, the TLC
configurations that check them on small instances, and TLAPS proofs of what
matters most for every instance. `PROJECT.json` is the index: it says which lines
of the code each definition stands for.

In what follows `run.c:380` is line 380 of `src/src/run.c`.

## 1. Inventory

### Components, their state and their operations

| component | code | state it keeps | operations |
|---|---|---|---|
| main loop | `shell.c:48-91` | `should_exit`, `exit_code` | prompt, read a line, drain the input after a failed read, `run`, leave |
| signal set-up | `shell.c:178-219` | dispositions, the SIGCHLD handler | ignore SIGINT/SIGQUIT/SIGTSTP, reset them in children, reap in `handle_sigchld` |
| line editor | `input.c` | terminal mode, edit buffer with length, capacity and cursor, saved new line, history index | insert, backspace, Up, Down, Enter |
| screen of the line editor | `input.c` | cursor column, window width; the terminal's screen and its answers on their way | what each key prints; requests for the cursor's position and their answers |
| history | `shell.c:113-164` | array of lines, count, capacity | append, find by number, find by prefix |
| line runner | `run.c:160-252` | the C stack (it calls itself) | lex, parse, repeat a line of the history, run its jobs |
| raw lexer, lexer | `raw_lex.c`, `lex.c` | position; state, escape flag, start quote, concatenation buffer, tokens | next raw token; next step of the word machine, `glob()` expansion |
| parser | `parse.c` | token index, arrays being built | `parse`, `parse_cmd_line`, `parse_job`, `parse_cmd`, `parse_simple_cmd`, `destroy_*` |
| job control | `run.c:254-450, 549-707` | locals `pids_count`, `pgid`, `wait_successes`; SIGCHLD mask; the terminal's foreground group; children and their groups | run a job, fork, `setpgid`, `tcsetpgrp`, `waitid` |
| pipes and redirections | `run.c:297-365, 452-547, 582-650, 698-703` | `pipes[]`, `pipes_len`, descriptor tables of the shell and of every child | `pipe`, `dup2`, `open`, `close` in shell and child |
| built-in commands | `builtins.c` | working directory, `PWD`, `OLDPWD`, prompt, exit code | `exit`, `history`, `prompt`, `pwd`, `cd` |

### How they interact

The main loop calls the editor, which reads the history (`sh_ctx->history`), and
hands the line to the runner. The runner lexes and parses it into a tree whose
words are pointers into the lexer's tokens, records the line in the history, and
runs the jobs one after another; a line `!query` makes it call itself on a line of
the history. A job is a pipeline: the commands are forked, share the shell's
descriptors and signal state at the moment of the fork, and live beside the shell
from then on. The kernel calls back: SIGCHLD interrupts the shell wherever it is
not blocked, the terminal stops background groups that touch it, a write to a pipe
without readers kills the writer.

### What is hard

* **Interleaving**: the shell, its children, the SIGCHLD handler, and the user at
  the terminal act between any two system calls. A child can exec, read the
  terminal or end before the parent's `setpgid` or `tcsetpgrp`.
* **Merged and blocked signals**: SIGCHLD is one pending bit.
* **Partial failure**: `pipe()` and `fork()` fail in the middle of a pipeline,
  allocations fail in the middle of a key, an error in the middle of a line must
  release what came before it.
* **Reuse of names**: the kernel hands out the lowest free descriptor, so that a
  number closed twice may close something else.
* **Long legal sequences**: Up, Down and edits in any order; assertions that hold
  because of everything that came before (`input.c:514`).
* **Late answers**: the terminal answers a request for the cursor's position some
  keys later, and the answer is input like any other.
* **Buffers that are used again**: `catbuf` keeps the text of the word before when
  only its length is reset (`lex.c:532`).
* **Recursion over data that changes**: the meaning of a line of the history
  depends on the files that exist when it is run.

`PROJECT.json` lists the hazards one by one, at the line where they bite, with the
property that covers each or the reason why none does yet.

### What makes each component correct

* *Job control*: the shell goes on only when a foreground job has ended; it has
  the terminal when it does; it never waits for what cannot end; no zombies; exit
  ends the shell, and only a foreground exit does.
* *Descriptors*: every child has the right streams and nothing else; the shell is
  left with its own three; pipelines end.
* *Editor*: text stays in its buffer; the new line comes back; the terminal comes
  back; errors are reported.
* *History and runner*: an entry per line, the right one; searches exact;
  repetition terminates.
* *Parser*: decides the grammar, loses nothing, stays inside its arrays, frees
  what it allocates.
* *Raw lexer and lexer*: a line becomes the words that the rules of quoting give;
  what is quoted is never a pattern; the buffers hold what is written to them; the
  parser gets an end token.
* *Built-ins*: `PWD` and `OLDPWD` name the directories they should, after any number
  of failures and whatever other processes rename; the shell exits with the number
  asked for.
* *Screen*: the column the editor believes in is the cursor's; the screen shows the
  text; the exchange with the terminal ends.

## 2. Modules

| module | models | checked by |
|---|---|---|
| `JobControl` | job control, main loop, SIGCHLD handler; children, kernel and terminal as environment | `MCJobControl` |
| `JobContract` | what job control promises, without groups, signals and waits | through `JobControl!KeepsContract` |
| `PipeFds` | descriptors of jobs in the shell and their children | `MCPipeFds` |
| `Editor` | the line editor | `MCEditor` |
| `Parser` | the parser | `MCParser` |
| `History` | history and line runner | `MCHistory` |
| `Lexer` | raw lexer and lexer | `MCLexer` |
| `Builtins` | `cd`, `exit`, `prompt`, among other processes that move directories | `MCBuiltins` |
| `Screen` | what the line editor prints and believes about the cursor; the terminal | `MCScreen` |
| `JobControlProofs`, `PipeFdsProofs`, `EditorProofs`, `ParserProofs`, `HistoryProofs`, `LexerProofs`, `BuiltinsProofs`, `ScreenProofs` | the theorems | TLAPS |

Definitions named `Bug...` are mutations a plausible slip would make of the
definition below them; they are used by no specification, only to see that each
property can fail.

### JobControl

`pc` is the shell's place in `main` / `run_cmd_line` / `run_job_desc`; one action
per system call another process can observe (`Fork`, `SetPgid`, `GiveTerminal`,
`WaitChild`, `ReclaimTerminal`). `pidsCount`, `pgid`, `waitSuccesses` are the
locals of `run_job_desc`; `blocked` is its `sigprocmask`, `pending` the one bit of
a pending SIGCHLD, `inHandler` a handler that has interrupted the shell (which
then does nothing else). `st`, `pgrp`, `execd`, `unreported` are the kernel's view
of the children. `setpgid` fails as POSIX says: after exec, or when the group to
join is gone. A stopped child is returned by `waitid` once (`unreported`) and
counts towards `wait_successes`, as in the code. When `pgid` is no group,
`tcsetpgrp` may fail (POSIX) or succeed (Linux).
`serial`, `owner`, `everStopped` and `stops` are history variables.

The environment is parameterised, so that a run can say under what conditions a
property holds: `ExecRace` (a child may exec before the parent's `setpgid`),
`Stops` (which stop signals reach children).

`JobContract` is the promise: while a foreground job has a living process, the
terminal does not come back to the shell and the shell does not go on. Processes
start beside the shell and join the job; a stop signal detaches the whole job.
`JobControl!Contract` is the refinement mapping: `fg` are the living processes of
the foreground job that are in a group of their own, and none once a stop signal
has reached one of them; `bg` are all others. It holds in the general environment,
with the race and with stops. What it does not say is that every process of the
job joins: that is `ForegroundJobFinished`, which the race breaks.

### PipeFds

Jobs one after another, every descriptor. A table maps numbers to what they refer to; `open` and
`pipe` take the lowest free number; `close` and `dup2` of a number that is not open
fail and are ignored, as in the code. `Spawn` gives the child a copy of the shell's
table; `ChildTable` is everything the child does to it before its program starts.
A program is what decides its end: a filter ends with its input, an endless one
when its output is refused, any other by itself; a builtin in the shell writes
nothing (`exit`, or `cd` with a path), a line, or more than a pipe holds.

`NextJob` starts the next job with what the one before has left open in the shell,
once its children are gone; the ends are then called `Leaked`, since no process
uses those pipes any more. It is taken only when something was left open or `exit` was
accepted: otherwise the next job is like the first. `before` is a history variable,
the shell's table when the job began. `shouldExit` is the flag that `exit` sets; the
loop of `run_job_desc` looks at it after each command and is then left, the later jobs
of the line start nevertheless and are left after their first command.

Three things go wrong in this code and are named, so that the properties can say
that nothing else does.

* `NumberReused`: a builtin closes its write end when it is done, `pipe()` hands the
  number out again, and the next `spawn` or `run_builtin_fg` closes it once more
  (`run.c:467, 701`): `pwd | cat | cat` loses a pipe and `pwd | pwd | cat` kills the shell
  by SIGPIPE. The pipes of a job take turns with two pairs of numbers, and only a builtin
  that writes to the lower pair, at an odd position, with two commands after it, is
  harmed: `ls | pwd | cat | cat` works, `cat | ls | pwd | cat | cat` does not.
* `ForkFailed`: the clean-up at `run.c:358` closes the last pipe created, and only when not
  all were, so that after a failed `fork` a pipe on one side of the command, or on both,
  stays open in the shell.
* `CutShort`: the loop is left before the last command because of `exit`. All pipes were
  created, which the same clean-up takes for the normal end: `exit | cat` keeps its pipe.

`ChildStreams`, `ShellSurvives`, `ShellKeepsNoFd` and `SoundJobEnds` hold
of everything else.

### Editor

One action per iteration of `read_input`'s loop, the growth at the head of the loop
included. `buf`/`capacity`/`cursor` are the edit buffer, `saved`/`savedCap` the new
line put aside, `bufFreed`/`savedFreed` say that an error path has freed a buffer
that stays in use. `draft` is a history variable: the new line as the user last
left it. `TextFits`, `DownFits` and `DraftRestored` speak of a line while it is
`Intact`, that is, until such a free. `StartFails` and `GrowthFails` leave `mode`
raw (and so does a failing `restore_term_mode` in `Enter`), and the next `StartReading` saves that as `origMode`: after one failed
allocation the terminal stays raw for good, in spite of `report.typ:403`. The history is what `run()` may make of it: unchanged, or with the line
or an old entry appended.

### Parser

The four parsing functions call each other without recursion, so they are a state
machine with one action per loop iteration. Tokens are types, words are positions,
memory is the set of `argv` arrays that are allocated. The lexer makes no end token
for a line that ends in a backslash (`lex.c:237-282`); `"NONE"` after the last token
stands for `token_idx >= token_count`. The reference definition is
`InGrammar`, the report's grammar with the repeated redirections it allows, and
`TreeWords`, the words of the tree in order.

`parse_cmd` takes any token for the file of a redirection (`parse.c:401`), so that
`ls > ; ls` is accepted, against `report.typ:1443`; `DecidesGrammar`, `NothingDropped`
and `NothingLeaks` are about the lines in which redirections name words
(`TargetsAreWords`). An error after the first command of a pipeline leaks the
commands before it (`parse.c:315`, `ls | ;`); `NothingLeaks` says that this is all
that leaks.

### History

A line means something only relative to the state of the files (`dir`), because
words are expanded before they are parsed: `Meaning[dir][line]` is nothing, an
error, jobs, or a repetition with its query. The files may change between two lines and
between a repetition and the line it repeats, which `run` lexes and expands anew. `run` calls itself in tail position,
so a line and a depth stand for the stack. Beyond the fourth call the
depth alternates between 3 and 4: a recursion without end is a cycle of steps. `ByNumber` is the unsigned arithmetic of
`run.c:219` modulo `Word`.

### Lexer

Both stages in one module: `raw_lex` has no state but its place in the line, so it
is three functions of the place (`RawType`, `RawLast`, `RawText`), and an action is
one call of `lex`, which takes one raw token. A character is named by the raw token
it makes; letters and `2` make text, and `2` before `>` the token `2>`. `state`,
`escape` and `startQuote` are `lex`'s word machine. `catbuf` is a C string and,
beside it, the length that `lex` keeps: they differ after a match, when `end_word`
resets the length and keeps the buffer. `stale` is a history variable that records
that a word has been ended in such a buffer. `MemoryError` and `GlobError` are the
failing calls; a failing `raw_lex` makes `lex` destroy a token that was never
written (`lex.c:326`), which is the outcome `UNDEFINED`.

`glob()` is external: a pattern means a word some of whose characters are active
(`GlobWord`, what is read after each character), and `matches` says whether words with and without active characters
are names of files, a pattern of two. What comes after an error, the freeing of the tokens,
is not modelled.

`WordsAsQuoted` compares the tokens with `Reading`, the rules of quoting of
`report.typ:201-207` as a recursive function `Readings` of the number of characters read, which knows no raw tokens, no
patterns and no buffers. It excepts two kinds of lines, and says that nothing else
differs: an empty quoted word after a match is expanded to the word before it
(`stale`; `lex.c:530` says "can be reused"), and a line that ends in a backslash,
which gets no end token (`EndMarksLine`) and is never reported as unterminated.

### Builtins

`cd` is one action per call another process can come between: `getcwd`, `chdir`,
`pwd` for `cd -`, `getcwd` again, `setenv`. The kernel knows the working directory
as a directory, the environment knows it as a path; `Move` is another process that
renames or removes a directory. `"."` stands for every relative path that leads back
to the working directory; a symbolic link or another relative path differs in nothing
`cd` looks at. `setenv` twice is one action that can fail half-way (`SetEnvFails`).
`ToInt` is the conversion from `long` to `int`, `Strtol` the saturation.
`prev`, `from`, `moved`, `movedNow`, `inStep` and `asked` are
history variables: where the shell was, what moved since, and whether a `cd` has
failed after its `chdir`. After such a failure the shell is in the new directory with
a `PWD` that does not name it, against `report.typ:249-253`, until the next `cd` that
succeeds; `inStep` excepts that time. The next success ends it: `OldpwdNamesPrevious` says
that `OLDPWD` is then the directory the shell really left, which `PWD` did not name,
after any number of late failures. A `cd` that fails before its `chdir` disturbs neither
variable, since `inStep` does not except it. A directory that was removed cannot
be left: `cd` asks for its path first (`builtins.c:217`).

### Screen

The terminal is a line of cells of which every `Width` make a row; `screen` is where
the cursor is, whether it waits on the last column for the next character, and which
cells are not blank. `inFlight` are the answers on their way, as the columns the
terminal saw; `bytes` are the bytes of a sequence that Escape has turned into text.
One action per key, and `Report` for an answer; what is printed takes effect at once.
Entering raw mode may discard answers that have arrived (`tcsetattr` with `TCSAFLUSH`),
so that `StartReading` drops any number of them, and the prompt may end anywhere.
An arrow key is atomic but after Escape. `inTouch` is a history variable: so far
in this line every key has met the right column, and neither the prompt nor a recalled
line ended in the last column. Without it `ShowsText` does not hold: a key that
overtakes an answer, and a key after a recalled line that fills a row, break the
display for the rest of the line. A window that changes its size, scrolling at the top,
and characters of several bytes are left out.

## 3. Runs

Passing runs:

| run | bounds | shows |
|---|---|---|
| `job_control` | 2 lines of at most 2 jobs, 3 processes, 1 stop signal, exec race, failing fork and pipe | `TypeOk`, `ShellOwnsTerminal`, `ReapedByWait`, `GroupOutlivesLeader`, `UnfinishedOnlyIf`, and the refinement of `JobContract` (`KeepsContract`), under every interleaving |
| `job_control_live` | 1 line, 3 processes, 2 Ctrl-Z, exec race | `ZombiesReaped`, `WaitsOnlyForRunning`, `ExitHonoured` |
| `fds` | every foreground pipeline of 1 to 4 commands over a copying program, one that ignores its input and a builtin, and other jobs, some of five commands, with redirections, long output, and `exit` and `cd` in several places; up to 2 further jobs after a leak or an `exit`; descriptors 0..8; `pipe()` and `fork()` fail | `ShellKeepsNoFd`, `ChildStreams`, `ShellSurvives`, `SoundJobEnds` |
| `editor` | 1 character, text of 5, capacity 2 growing to 8 and beyond, 2 entries, failing allocations | `TypeOk`, `TextFits`, `DownFits`, `DraftRestored` |
| `parser` | all lines of up to 5 tokens over 6 types, and of up to 7 over two sets of 3, with and without the end token; failing allocations | `TypeOk`, `ArraysFit`, `DecidesGrammar`, `NothingDropped`, `NothingLeaks` |
| `history` | 8 lines, 4 entries, 2 states of the files, failing allocations | `TypeOk`, `NumberExact`, `RecursionBounded`, `NewestIsExecuted`, `RunReturns` |
| `lexer` | all lines of up to 3 characters of 8 kinds, of up to 5 or 6 of three or four kinds; buffers that grow from 2; failing allocations and `glob()`; files that match patterns, plain words, both, none | `TypeOk`, `BuffersFit`, `AssertionsHold`, `WordsAsQuoted`, `EndMarksLine` |
| `builtins` | 3 directories, 3 paths, 2 moves by other processes, failures; `int` of 2 bits and `long` of 3 | `TypeOk`, `PwdNamesCwd`, `OldpwdNamesPrevious`, `DashGoesBack`, `ExitExact` |
| `screen` | 2 lines, 6 keys, rows of 3 columns, texts of 5, 3 recalled lines, 3 answers in flight | `ColumnAgrees`, `ShowsText`, `ExchangeEnds` |

One character is enough for `editor`: no handler looks at what is typed, and texts
of different lengths differ.

Why the bounds are enough. Three processes are a pipeline of two and a background
process, or a pipeline of two and the job that follows it, or a pipeline of three.
Two lines let the state one line leaves behind (mask, terminal, background
children) meet the next. One stop signal stops a whole group or one process that
reads; the run with two also passes, and takes two minutes. Four commands make
three pipes, so that a number freed by the first is handed out again by the third.
Two jobs that leak leave the third without a descriptor for its pipes.
The array capacities are scaled from 64 and 4 to 2, so that growth happens twice
within the bounds; the theorems hold for every capacity. Seven tokens hold four
jobs or four commands. Lines of three characters of all kinds meet every pair of
states of the word machine with every raw token; the longer lines, of fewer kinds, hold
two words with an empty one after a match (`* ""`), escapes inside and between quotes,
and an escaped `2>`. Three directories are the one left, the one entered and one renamed
to the path of another; two moves let a path change hands while `cd` runs. Six keys over rows of three columns fill two
rows, erase over the margin, and leave three keys unanswered.

Violation runs: each checks one property that a document or a comment of the
repository states, and fails (see `findings`).

| run | what happens |
|---|---|
| `job_control_race` | the child execs before `setpgid`, stays in the shell's group, and the shell does not wait for it |
| `fds_builtin` | `pwd \| cat \| cat`: the write end is closed twice and the number has been reused |
| `history_glob` | a repetition recorded as a parse error later repeats itself for ever |

`fds_builtin` and `history_glob` were also seen in the built program, as was the
death of the shell by `pwd | pwd | cat`.

Met while modelling, in the models, and without a run of their own, because a
property names them as its exception:

* a foreground job that reads the terminal before the shell hands it over is stopped
  by SIGTTIN, and the stop ends the wait (`UnfinishedOnlyIf`);
* `exit; ls` runs `ls` before the shell leaves (`run.c:249` does not look at
  `should_exit`), although `run.c:352` says that processing should stop;
* `history | cat` blocks once the history is longer than a pipe holds (`Blocked`);
* `exit | cat` leaves its pipe open in the shell (`CutShort`); `exit; yes | ls` starts
  `yes`, keeps the read end of its pipe, so that `yes` is never refused, and waits for it for ever;
* `cat | ls | pwd | cat | cat` loses a stream although the builtin is in the middle
  (`NumberReused`);
* erasing back over the margin moves the cursor right by 1024 columns at most
  (`input.c:334`), so that in a window of more than 1025 columns it does not reach the last
  one; `TextShown` assumes a narrower window;
* a failed `fork` leaves pipes open (`ForkFailed`), an error in a pipeline leaks
  its commands (`NothingLeaks`), and a failed allocation leaves the terminal raw;
* a failed `realloc` in Up is ignored after the buffer was freed (`TextFits`, for an
  `Intact` line); `input.h:47` promises the number of bytes read, but
  `read_input` has reset the length by the time it returns it;
* `echo hi > ;` is accepted and does nothing (`TargetsAreWords`), against
  `report.typ:1443`; seen in the built program;
* `echo * ""` gives `echo` the files twice (`stale`), and a line that ends in
  a backslash has no end token (`EndMarksLine`);
* a `cd` that fails after its `chdir` leaves `PWD` behind, against
  `report.typ:249-253` (`inStep`), and a removed
  working directory cannot be left;
* Escape eats the key after it, Enter included, and turns an answer of the terminal into
  text (`EscapedReport`); a recalled line that ends in the last column breaks
  the display (`inTouch`).

### Fairness

`JobControl!FairSpec` is weak fairness of the shell's steps, and of the handler's:
a process that can run does run, and nothing is assumed of the user or of the
children, which need not end. The liveness properties therefore except a wait for
a job that never ends. Stop signals are bounded (`MaxStops`).
`PipeFds!FairSpec` adds weak fairness for a child's set-up and for the end of a
program that has nothing left to do. `History!FairSpec` is weak fairness of `run`:
the shell does not stop in the middle of a line. `Screen!FairSpec` is weak fairness of
reading what has arrived (`Reader`): `read_input` waits for nothing else; keys need not
come. The editor, the parser, the lexer and the built-ins have no liveness property: the
one waits for the user, the others are loops over a line, or straight calls.

`WaitsOnlyForRunning` supposes that every process of the job is in its group; with
`ExecRace` and Ctrl-Z a member outside the group makes the count unreachable, and
the wait hangs on members whose stop was already reported.

`CHECK_DEADLOCK FALSE` is set in `MCScreen.cfg` only: when the user has pressed the last
key of the bound, the editor waits for another for ever.

## 4. Proofs

All theorems are about the specifications as they are, for every value of the
constants that meets the named `ASSUME`s. What a theorem's own `ASSUME` adds is
said below.

* `JobControlProofs`: `TypeCorrect`, `TerminalCorrect`, `WaitCorrect`,
  `GroupCorrect`, `UnfinishedCorrect`, in every environment, and, assuming no exec race
  and no stop signals, `ForegroundCorrect`. The invariants behind them say where
  `blocked` holds (inside `run_job_desc`, so that the handler does not run there), that
  process ids beyond `nextPid` were never used and have no state, that the processes of
  the current job are those with its serial number, and that what is reaped of the
  current job was reaped by its `waitid` and is counted. `WInv` adds that a process of
  the job is in the job's group or still in the shell's (`GroupInv`), that a group
  holds processes of one job (`OwnGroupInv`), that `pidsCount` is the number of the
  job's processes, and that `waitSuccesses` is the number of the reaped ones as long as
  none was stopped (`CountInv`): when the wait is over by its count, all have been reaped,
  and when it is over by `ECHILD`, those in the group have. The orderly case adds that
  `setpgid` never fails (`JoinInv`).
  `ContractCorrect` says that `JobControl` implements `JobContract`
  in every environment. Each step of the shell maps to a step of the contract or to a
  stutter; `TakeBack` and `FinishForeground` need that no joined process lives, which is
  `DoneInv`, and a stop signal that reaches the job maps to `Detach`.
* `PipeFdsProofs`: for any jobs, any number of descriptors, any failures and any order of
  the children's steps, `NoFdKept` from `KeepInvariant`: at every step of the loop the shell
  holds what it held before, the pipe it has just made and the end the next command will
  read, and no more (`HoldsPipes`); no end of a pipe has been lost before the close
  that is due (`OldKept`), and a close of a number that has been handed out again takes
  an end of the job's own pipes, never one that was there before. And `StreamsConnected` and `NoSigpipe` from `PlacesInvariant`:
  unless `NumberReused`, the ends of the pipes in the shell (`ShellPlaces`), and in each
  child until its program starts (`ChildPlaces`), are at the numbers in `pipe_fds`. This needs to know
  which numbers `pipe()` returns: all pipes at odd places get the numbers of the first, and those at
  even places lie above them (`Pairs`). A write end that is closed twice is then in the
  upper pair, where nothing has been created in between, or there is no pipe left to
  create. `KeepInvariant` makes no such exception: also in the jobs that lose a stream the shell
  keeps nothing.
* `EditorProofs`: `TypeCorrect`, `TextCorrect`, `DownCorrect`, `DraftCorrect`, with
  failing allocations. `DownFits` is not inductive: the
  invariant adds that every line below the index fits (`LinesBelowFit`), because
  the editor came down from there; for the new line itself it is the saved
  text that fits, since it was in this buffer when it was put aside. A buffer that
  was freed stays so until the next line (`IntactBefore`), so that each step starts
  from an intact one.
  `DraftRestored` needs that the saved line is the draft while the index is in the
  history.
* `ParserProofs`: `TypeCorrect`, which says that the index never leaves the
  tokens, from the fact that the token array ends and that nothing before its end
  is an end; `ArraysCorrect`, from the room for one more that each growth restores.
  The other three are for the lines in which redirections name words, as the
  properties say, of any length and with failing allocations. `GrammarCorrect`:
  `GrammarInv` says for each of the parser's loops what the tokens around the index may be
  (`GrammarAt`), and that those behind it follow each other as the grammar allows, so that an
  end accepts the line and an error is a place where the grammar is broken.
  `TreeCorrect`: the words before the index are those of the finished jobs, the
  finished commands and the command being parsed, in this order (`TreeInv`).
  `MemoryCorrect`: what is allocated is what one of these owns (`MemoryInv`, `HeldIsOwned`), until an
  error in a pipeline forgets its commands.
* `HistoryProofs`: `TypeCorrect`; `NumberCorrect`, that the wrapping
  subtraction finds the entry or nothing; `RecursionCorrect`, that run calls itself
  once at most if no query is a pattern, because then no line of the history is a
  repetition; `NewestCorrect`, for every meaning of the lines and every failure, because
  nothing is recorded before `run` returns (`NothingRecordedYet`).
  `TypeCorrect` includes that the array has room for every entry.
  `ByPrefix` takes the greatest of a set of matches, which exists by
  well-founded induction over the naturals.
* `LexerProofs`: `TypesCorrect`, `BuffersCorrect` and `AssertionsCorrect`, for every line,
  every first capacity and every failure. The invariant `Inv` says of each buffer
  that its length is at most that of its string, which has room for its null byte
  (`SoundCat`), that a buffer with no capacity is empty, and in which states of the
  machine a raw token can be escaped (`Control`). Each helper that writes to a buffer
  has a lemma that keeps it sound, and `lex` is their composition.
  `EndMarked` and `WordsCorrect` are a simulation: at each call of `lex` the machine and
  the rules of quoting are at the same place of the line (`Simulates`), with the same
  tokens, the same quote open, and in `catbuf` a text that `glob()` will read as the word the
  rules have read so far, and what the machine will do next is what the rules do next
  (`Follows`); at the end of the line both close the last word (`Finished`). An empty
  word after a match can only come from two equal quotes side by side (`StaleWords`).
  The recursive functions (`GlobRead`, `Unescaped`, `Readings`) are unfolded one character
  at a time; what must be known of all lengths is shown by taking the least
  length at which it fails. `SimInv` was also checked by TLC on the run `lexer`.
* `BuiltinsProofs`: `TypeCorrect`; `ExitCorrect`, from the facts that the saturation
  and the conversion are the identity inside `int` and that `InRange` refuses what
  is outside (for every width of `int` below that of `long`); and, by one invariant `CdInv`, `PwdCorrect`,
  `OldpwdCorrect` and `DashCorrect`, for any number of directories and
  moves. `CdInv` adds that no two directories have one path, and what a `cd` on
  its way knows at each call: its first path is that of the directory it came from and
  its second that of the one it is in, unless these have moved since.
* `ScreenProofs`: `ColumnCorrect`, for every window, number of keys and answers. What is
  inductive is that the *last* of the answers on their way is the column of the cursor
  now (`LastIsCurrent`), and that with none on its way the column is right. `TextShown`, that
  the cells that are not blank are those of the prompt and the text while the line is in touch, is
  kept by every key (`ShowsInv`), from lemmas about what each sequence of prints and movements
  does to the cells and the cursor. A recalled line is printed by
  induction over its characters. It assumes a window of at most 1025 columns,
  because the code moves the cursor by 1024 to reach the right margin (`input.c:334`);
  in a wider one `ShowsText` is false.

Every invariant and every action property of a passing run is proved. Only model-checked
are the temporal properties that need fairness (out of TLAPS's reach): `ZombiesReaped`,
`WaitsOnlyForRunning`, `ExitHonoured`, `SoundJobEnds`, `RunReturns` and `ExchangeEnds`; and what the
violation runs show. Induction over data is done without the library's induction theorems:
by a least counterexample over the naturals, as above.

## 5. Not modelled

* stdio buffers that a fork duplicates; wording of messages; `errno` in the handler.
* Reuse of process ids, and process groups of other sessions.
* A child that is left in the shell's own group by the race and reads the
  terminal there, or the shell itself being stopped.
* A window that changes its size, scrolling, characters of
  several bytes.
* What `glob()` matches beyond whether it does; freeing the lexer's tokens.
* What `history` and `pwd` print (`PipeFds` has when their output blocks or
  kills the shell), and the wording of `prompt` (its text is a value).
* `display_ast`, which prints the tree in debug builds and changes nothing; build files.

## 6. Plan

1. Done: job control and its contract; descriptors; editor and its screen; lexer; parser;
   history and runner; built-ins; the theorems above.
2. Proofs that are left: measures that decrease in the loops of the parser and the lexer
   (with them a line is parsed in as many steps as it has tokens), and for `run` in
   `History`, from which liveness follows outside TLAPS.
3. A module that composes history and runner with job control (exit inside a
   repeated line).
