------------------------------ MODULE PipeFds ------------------------------
(***************************************************************************)
(* File descriptors of a job (run_job_desc, run_builtin_fg and spawn of    *)
(* run.c).                                                                 *)
(*                                                                         *)
(* The shell creates the pipe between two commands, lets the child of the  *)
(* left and then the child of the right command inherit both ends, and     *)
(* closes its own copies after the right one has been forked.  Descriptors *)
(* are small integers and the kernel hands out the lowest free one, so     *)
(* that a number closed twice may by then name something else: the tables  *)
(* map numbers to what they refer to.                                      *)
(*                                                                         *)
(* Jobs follow each other, with what an earlier one has left open in the   *)
(* shell.  The children of a job are known by the position of their        *)
(* command; groups, signals other than SIGPIPE, and the wait statuses are  *)
(* the subject of JobControl.                                              *)
(***************************************************************************)
EXTENDS Naturals, Sequences, FiniteSetsExt

CONSTANTS
    RunnableJobs,   \* the jobs that may be run first
    LaterJobs,      \* the jobs that may follow
    MaxJobs,        \* bound on the jobs that are run
    MaxFd,          \* the last descriptor number of a process
    Failures        \* which of the calls "pipe" and "fork" may fail

Fds == 0 .. MaxFd

\* A command is what runs and its redirections, in order.  Of an external
\* program it matters when it must end: a filter when its input does, an endless
\* one only when its output is refused, any other by itself.  Of a builtin, what it writes:
\* nothing ("exit", "cd"), a line ("pwd"), or more than a pipe holds ("history").
Externals == {"filter", "endless", "other"}
Silent    == {"exit", "cd"}
Builtins  == Silent \cup {"pwd", "history"}
Streams == {0, 1, 2}
StdFds  == [s \in Streams |-> s]
Redirections == [stream : Streams, opens : BOOLEAN]
Commands == [prog : Externals \cup Builtins, redirs : Seq(Redirections)]

ASSUME JobsAssumption ==
    \A j \in RunnableJobs \cup LaterJobs :
        j.type \in {"FG", "BG"} /\ j.cmds \in Seq(Commands) /\ j.cmds # <<>>
ASSUME LimitsAssumption == MaxFd \in Nat /\ MaxFd > 2 /\ MaxJobs \in Nat
ASSUME FailuresAssumption == Failures \subseteq {"pipe", "fork"}

VARIABLES
    job,        \* the job
    pc,         \* the next step of the shell
    idx,        \* idx of the pipeline loop, from 1
    pipes,      \* pipes: the two descriptors of each pipe created
    pipesLen,   \* pipes_len
    fds,        \* fds.in, fds.out and fds.err of the builtin being run
    shell,      \* descriptor table of the shell
    stage,      \* life of the child of each command
    table,      \* descriptor table of the child of each command
    jobs,       \* how many jobs have been run, for the bound
    shouldExit, \* ctx->should_exit: an exit has been accepted
    before      \* history variable: the shell's table when the job began

lineVars == <<jobs, shouldExit, before>>
vars == <<job, pc, idx, pipes, pipesLen, fds, shell, stage, table, lineVars>>

-----------------------------------------------------------------------------
(* Descriptor tables. *)

None == <<"none", 0>>
Tty  == <<"tty", 0>>
File == <<"file", 0>>
ReadEnd(i)  == <<"r", i>>
WriteEnd(i) == <<"w", i>>
Leaked == <<"leaked", 0>>

StdTable == [fd \in Fds |-> IF fd <= 2 THEN Tty ELSE None]

Free(t) == {fd \in Fds : t[fd] = None}

\* close(): a number that is not open is left alone (EBADF, ignored).
Close(t, fd) == [t EXCEPT ![fd] = None]
CloseBoth(t, p) == Close(Close(t, p.r), p.w)

\* dup2(): EBADF when the source is not open; the code goes on.
Dup2(t, from, to) == IF t[from] = None THEN t ELSE [t EXCEPT ![to] = t[from]]

\* open() takes the lowest free number.
Lowest(t) == Min(Free(t))

-----------------------------------------------------------------------------
N == Len(job.cmds)
Cmd == job.cmds[idx]
LastCmd == idx = N
Fg == job.type = "FG"

\* run_cmd: a builtin of a foreground job runs in the shell.
InShell(i) == Fg /\ job.cmds[i].prog \in Builtins

\* pipe_desc of the command at position i.
RedirectStdin(i)  == i > 1
RedirectStdout(i) == i < N

Positions == 1 .. N
Live == {c \in Positions : stage[c] \in {"setup", "run"}}
ShellHolds(o) == \E fd \in Fds : shell[fd] = o
Held(o) == (pc # "killed" /\ ShellHolds(o))
           \/ \E c \in Live : \E fd \in Fds : table[c][fd] = o
HeldByChild(o) == \E c \in Live : \E fd \in Fds : table[c][fd] = o

\* Writing to a descriptor raises SIGPIPE when nobody can read from the pipe.
Refused(o) == o[1] = "w" /\ ~Held(ReadEnd(o[2]))

Init ==
    /\ job \in RunnableJobs
    /\ pc = "pipe" /\ idx = 1 /\ pipes = <<>> /\ pipesLen = 0
    /\ fds = StdFds
    /\ shell = StdTable
    /\ stage = [c \in Positions |-> "none"]
    /\ table = [c \in Positions |-> StdTable]
    /\ jobs = 1 /\ shouldExit = FALSE /\ before = StdTable

-----------------------------------------------------------------------------
(* The loop of run_job_desc. *)

\* The cleanup after the loop: the last pipe is closed when the loop was left
\* before all pipes were created.
CleanedUp(t) ==
    IF pipesLen > 0 /\ pipesLen < N - 1 THEN CloseBoth(t, pipes[pipesLen]) ELSE t

\* The loop is left, normally or by break.
LeaveLoop(t) == /\ pc' = "wait"
                /\ shell' = CleanedUp(t)
                /\ UNCHANGED idx

\* A command has run: the loop goes on, unless exit has been called, by this
\* command or in a job before this one.
CommandDone(t, exiting) ==
    IF LastCmd \/ exiting THEN LeaveLoop(t)
    ELSE pc' = "pipe" /\ idx' = idx + 1 /\ shell' = t

\* A new pipe for every command but the last.
MakePipe ==
    /\ pc = "pipe" /\ ~LastCmd /\ Cardinality(Free(shell)) >= 2
    /\ LET r == Lowest(shell)
           w == Lowest([shell EXCEPT ![r] = ReadEnd(idx)])
       IN  /\ pipes' = Append(pipes, [r |-> r, w |-> w])
           /\ shell' = [shell EXCEPT ![r] = ReadEnd(idx), ![w] = WriteEnd(idx)]
    /\ pipesLen' = pipesLen + 1
    /\ pc' = "cmd"
    /\ UNCHANGED <<job, idx, fds, stage, table, lineVars>>

MakeNoPipe ==
    /\ pc = "pipe" /\ LastCmd
    /\ pc' = "cmd"
    /\ UNCHANGED <<job, idx, pipes, pipesLen, fds, shell, stage, table,
                   lineVars>>

PipeFails ==
    /\ pc = "pipe" /\ ~LastCmd
    /\ "pipe" \in Failures \/ Cardinality(Free(shell)) < 2
    /\ LeaveLoop(shell)
    /\ UNCHANGED <<job, pipes, pipesLen, fds, stage, table, lineVars>>

-----------------------------------------------------------------------------
(* run_builtin_fg. *)

\* A redirection of a builtin, on the shell's table and the builtin's three
\* descriptors: the file, if it opens, replaces the descriptor of its stream,
\* which is closed unless it is the standard one.
RedirectBuiltin(acc, redir) ==
    IF ~redir.opens \/ Free(acc.t) = {} THEN acc
    ELSE LET new == Lowest(acc.t)
             old == acc.fds[redir.stream]
             t   == [acc.t EXCEPT ![new] = File]
         IN  [t   |-> IF old # redir.stream THEN Close(t, old) ELSE t,
              fds |-> [acc.fds EXCEPT ![redir.stream] = new]]

\* All of them, in order.
RedirectedBuiltin(start, redirs) ==
    LET f[k \in 0 .. Len(redirs)] ==
            IF k = 0 THEN start ELSE RedirectBuiltin(f[k - 1], redirs[k])
    IN  f[Len(redirs)]

\* What it closes first: the write end of the pipe to its left.  The read end of
\* the pipe to its right must stay, for the next command to inherit.
BugBuiltinEntry(t) ==
    LET t1 == IF RedirectStdin(idx) THEN Close(t, pipes[idx - 1].w) ELSE t
    IN  IF RedirectStdout(idx) THEN Close(t1, pipes[idx].r) ELSE t1
BuiltinEntry(t) ==
    IF RedirectStdin(idx) THEN Close(t, pipes[idx - 1].w) ELSE t

\* The streams of the builtin before its redirections.
PipedFds == [s \in Streams |->
               IF s = 0 /\ RedirectStdin(idx) THEN pipes[idx - 1].r
               ELSE IF s = 1 /\ RedirectStdout(idx) THEN pipes[idx].w
               ELSE s]

\* run_builtin_fg up to the call of run_builtin.
StartBuiltin ==
    /\ pc = "cmd" /\ InShell(idx)
    /\ LET start == [t |-> BuiltinEntry(shell), fds |-> PipedFds]
           res   == RedirectedBuiltin(start, Cmd.redirs)
       IN  shell' = res.t /\ fds' = res.fds
    /\ pc' = "builtin"
    /\ UNCHANGED <<job, idx, pipes, pipesLen, stage, table, lineVars>>

\* run_builtin can write its output: it fits, or somebody reads the pipe.  Only
\* children read: the shell holds the read end but is the one that writes.
OutputFits ==
    \/ Cmd.prog # "history" \/ shell[fds[1]][1] # "w"
    \/ HeldByChild(ReadEnd(shell[fds[1]][2]))

\* Otherwise the shell waits for itself: the reader is not forked yet.
Blocked == pc = "builtin" /\ ~OutputFits

\* What the shell's table is when run_builtin_fg returns: every descriptor that
\* is not the standard one is closed.
BuiltinClosed ==
    [fd \in Fds |-> IF \E s \in Streams : fds[s] # s /\ fds[s] = fd
                     THEN None ELSE shell[fd]]

\* run_builtin returns.
FinishBuiltin ==
    /\ pc = "builtin" /\ OutputFits
    /\ Cmd.prog \in Silent \/ ~Refused(shell[fds[1]])
    /\ shouldExit' = (shouldExit \/ Cmd.prog = "exit")
    /\ CommandDone(BuiltinClosed, shouldExit')
    /\ fds' = StdFds
    /\ UNCHANGED <<job, pipes, pipesLen, stage, table, jobs, before>>

\* The builtin writes to a pipe without readers: the shell does not ignore
\* SIGPIPE and is killed.
ShellSigpipe ==
    /\ pc = "builtin" /\ Cmd.prog \notin Silent /\ Refused(shell[fds[1]])
    /\ pc' = "killed"
    /\ UNCHANGED <<job, idx, pipes, pipesLen, fds, shell, stage, table,
                   lineVars>>

-----------------------------------------------------------------------------
(* spawn. *)

\* The parent's part: after the child of the right-hand command exists both
\* ends of the pipe to its left are closed.
BugParentCloses(t, i) ==
    IF RedirectStdin(i) THEN Close(t, pipes[i - 1].r) ELSE t
ParentCloses(t, i) ==
    IF RedirectStdin(i) THEN CloseBoth(t, pipes[i - 1]) ELSE t

Spawn ==
    /\ pc = "cmd" /\ ~InShell(idx)
    /\ stage' = [stage EXCEPT ![idx] = "setup"]
    /\ table' = [table EXCEPT ![idx] = shell]
    /\ CommandDone(ParentCloses(shell, idx), shouldExit)
    /\ UNCHANGED <<job, pipes, pipesLen, fds, lineVars>>

SpawnFails ==
    /\ pc = "cmd" /\ ~InShell(idx) /\ "fork" \in Failures
    /\ LeaveLoop(shell)
    /\ UNCHANGED <<job, pipes, pipesLen, fds, stage, table, lineVars>>

\* The wait of a foreground job; a background job is not waited for.
Finish ==
    /\ pc = "wait"
    /\ Fg => Live = {}
    /\ pc' = "done"
    /\ UNCHANGED <<job, idx, pipes, pipesLen, fds, shell, stage, table,
                   lineVars>>

\* The next job, on the same line or on another.  Nobody uses the pipes of the one
\* before any more: the ends of them that the shell has kept are only in the way.
\* From a table with nothing in the way a job is run like the first one, unless
\* it is on the line after an exit: run_cmd_line runs the jobs that are left.
NextJob ==
    /\ pc = "done" /\ Live = {} /\ jobs < MaxJobs
    /\ shell # StdTable \/ shouldExit
    /\ job' \in LaterJobs
    /\ pc' = "pipe" /\ idx' = 1 /\ pipes' = <<>> /\ pipesLen' = 0
    /\ fds' = StdFds
    /\ before' = [fd \in Fds |-> IF shell[fd] \in {None, Tty} THEN shell[fd]
                                                              ELSE Leaked]
    /\ shell' = before'
    /\ stage' = [c \in 1 .. Len(job'.cmds) |-> "none"]
    /\ table' = [c \in 1 .. Len(job'.cmds) |-> StdTable]
    /\ jobs' = jobs + 1 /\ UNCHANGED shouldExit

-----------------------------------------------------------------------------
(* The children. *)

\* The redirection of one stream of a child, by pipe.
BugPipeIn(t, p) == Close(Dup2(t, p.r, 0), p.r)
PipeIn(t, p)  == Close(Dup2(Close(t, p.w), p.r, 0), p.r)
PipeOut(t, p) == Close(Dup2(Close(t, p.r), p.w, 1), p.w)

\* One redirection of a child: open, dup2 over the stream, close.
RedirectChild(t, redir) ==
    IF ~redir.opens \/ Free(t) = {} THEN t
    ELSE LET new == Lowest(t)
         IN  Close(Dup2([t EXCEPT ![new] = File], new, redir.stream), new)

RedirectedChild(start, redirs) ==
    LET f[k \in 0 .. Len(redirs)] ==
            IF k = 0 THEN start ELSE RedirectChild(f[k - 1], redirs[k])
    IN  f[Len(redirs)]

\* What the child of command c does to its table before it runs its program.
ChildTable(c) ==
    LET t1 == IF RedirectStdin(c) THEN PipeIn(table[c], pipes[c - 1])
                                  ELSE table[c]
        t2 == IF RedirectStdout(c) THEN PipeOut(t1, pipes[c]) ELSE t1
    IN  RedirectedChild(t2, job.cmds[c].redirs)

ChildSetup(c) ==
    /\ stage[c] = "setup"
    /\ table' = [table EXCEPT ![c] = ChildTable(c)]
    /\ stage' = [stage EXCEPT ![c] = "run"]
    /\ UNCHANGED <<job, pc, idx, pipes, pipesLen, fds, shell, lineVars>>

\* The input of a filter is at its end: it is no pipe, or no process can write
\* into the pipe any more.
AtEof(c) == table[c][0][1] = "r" => ~Held(WriteEnd(table[c][0][2]))

\* The program of the child has nothing left to do.
Over(c) == \/ Refused(table[c][1])
           \/ job.cmds[c].prog \in Builtins \cup {"other"}
           \/ job.cmds[c].prog = "filter" /\ AtEof(c)

ChildEnds(c) ==
    /\ stage[c] = "run" /\ Over(c)
    /\ stage' = [stage EXCEPT ![c] = "ended"]
    /\ UNCHANGED <<job, pc, idx, pipes, pipesLen, fds, shell, table, lineVars>>

\* Any program may end early, or be killed.
ChildQuits(c) ==
    /\ stage[c] \in {"setup", "run"}
    /\ stage' = [stage EXCEPT ![c] = "ended"]
    /\ UNCHANGED <<job, pc, idx, pipes, pipesLen, fds, shell, table, lineVars>>

\* Nothing is left to do.
Quiet == (pc \in {"done", "killed"} \/ Blocked) /\ Live = {} /\ UNCHANGED vars

-----------------------------------------------------------------------------
Shell == \/ MakePipe \/ MakeNoPipe \/ PipeFails \/ StartBuiltin
         \/ FinishBuiltin \/ ShellSigpipe \/ Spawn \/ SpawnFails \/ Finish
Child(c) == ChildSetup(c) \/ ChildEnds(c) \/ ChildQuits(c)
Next == Shell \/ NextJob \/ (\E c \in Positions : Child(c)) \/ Quiet
Spec == Init /\ [][Next]_vars

\* The shell runs, and a child sets itself up and ends when its program is over.
AllPositions == UNION {1 .. Len(j.cmds) : j \in RunnableJobs \cup LaterJobs}
FairSpec ==
    /\ Spec /\ WF_vars(Shell)
    /\ \A c \in AllPositions :
          WF_vars(c \in Positions /\ (ChildSetup(c) \/ ChildEnds(c)))

-----------------------------------------------------------------------------
(* Properties. *)

Redirected(c, s) == \E k \in DOMAIN job.cmds[c].redirs :
                        job.cmds[c].redirs[k] = [stream |-> s, opens |-> TRUE]

\* A builtin of a foreground pipeline closes its end of the pipe to its right
\* when it is done, and the next command closes that number again.  The pipes of
\* a job take turns with two pairs of numbers; when the one to the right has the
\* lower pair and another pipe is created in between, the number is by then an
\* end of the new pipe.
NumberReused == \E i \in Positions : InShell(i) /\ i % 2 = 1 /\ i + 1 < N

\* The loop was left because fork failed: pipe has not failed, and the command
\* it was left at has no child.
ForkFailed == /\ pc \in {"wait", "done"} /\ ~InShell(idx) /\ stage[idx] = "none"
              /\ LastCmd \/ pipesLen = idx

\* The loop was left before the last command because of exit: all pipes were
\* created, and the cleanup takes this for the normal end.
CutShort == /\ pc \in {"wait", "done"} /\ shouldExit
            /\ ~LastCmd /\ pipesLen = N - 1

\* When a child runs its program its input is the pipe to its left and its
\* output the pipe to its right, unless a redirection says otherwise, and it
\* holds no other end of a pipe of its job (report.typ:279: producers close the
\* read end, consumers the write end); what earlier jobs have leaked it inherits.
StreamsOf(c) ==
    /\ Redirected(c, 0) \/ table[c][0] = IF c > 1 THEN ReadEnd(c - 1) ELSE Tty
    /\ Redirected(c, 1) \/ table[c][1] = IF c < N THEN WriteEnd(c) ELSE Tty
    /\ \A fd \in Fds : fd > 2 => table[c][fd] = before[fd]
PipedAsWritten == \A c \in Positions : stage[c] = "run" => StreamsOf(c)

\* The same, of every job but those in which a number is closed twice and names
\* something else the second time.
ChildStreams == ~NumberReused => PipedAsWritten

\* When the loop is over the shell holds what it held before the job, which at
\* first are its own three descriptors, neither more nor less.  After a failed
\* fork it may still hold the pipes on either side of the command that was not
\* spawned (run.c:358 cleans up after a failed pipe only), and the last pipe
\* when exit has kept the last command from running.
PipeEnds(i) == {ReadEnd(i), WriteEnd(i)}
KeptPipes == (IF ForkFailed THEN PipeEnds(idx - 1) \cup PipeEnds(idx) ELSE {})
             \cup (IF CutShort THEN PipeEnds(idx) ELSE {})
ShellKeepsNoFd ==
    pc \in {"wait", "done"} =>
        \A fd \in Fds : \/ shell[fd] = before[fd]
                        \/ fd > 2 /\ shell[fd] \in KeptPipes

\* No builtin is given a pipe nobody can read from, for SIGPIPE would kill the
\* shell; again but for the jobs in which a number is closed twice.
ShellSurvives == ~NumberReused => pc # "killed"

\* A job whose programs end when their input does, or when their output is
\* refused, is over some day (the wait of report.typ:295 is not forever).  Excepted
\* are the jobs in which a number is closed twice, those whose fork failed or that
\* an exit cut short, where the shell itself keeps pipes open, and a builtin with
\* more output than a pipe holds, which blocks.
SoundJobEnds ==
    ~NumberReused ~> (pc = "done" \/ ForkFailed \/ CutShort \/ Blocked)
=============================================================================
