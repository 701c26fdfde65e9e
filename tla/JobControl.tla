---------------------------- MODULE JobControl ----------------------------
(***************************************************************************)
(* Job control of the shell (run.c, and the signal set-up of shell.c).     *)
(*                                                                         *)
(* The shell reads a command line, a sequence of jobs, and runs them in    *)
(* order: each job is a pipeline whose commands run as child processes in  *)
(* a process group of their own, except that a builtin of a foreground job *)
(* runs inside the shell.  A foreground job gets the terminal and is       *)
(* waited for; the children of a background job are reaped by the SIGCHLD  *)
(* handler.  The shell is one process, its children are others, the user's *)
(* terminal and the kernel act between any two of their system calls: one  *)
(* action per system call of the shell that another process can observe,   *)
(* one per step of a child.                                                *)
(*                                                                         *)
(* File descriptors are the subject of PipeFds, not of this module.        *)
(***************************************************************************)
EXTENDS Integers, Sequences, FiniteSets

CONSTANTS
    Lines,      \* the command lines the user may type, each a sequence of jobs
    MaxLines,   \* bound on the number of lines typed
    MaxPid,     \* the last process id; fork() fails (EAGAIN) beyond it
    ExecRace,   \* may a child exec before the shell has called setpgid on it?
    Stops,      \* which stop signals the environment sends to children
    MaxStops    \* bound on the number of stop signals sent

ShellPid == 1
Pids == 2 .. MaxPid

\* What a command of a job is, to the shell: the builtin "exit", any other
\* builtin, or an external program.
Builtins == {"builtin", "exit"}
Commands == Builtins \cup {"ext"}
JobTypes == {"FG", "BG"}
Jobs == [type : JobTypes, cmds : Seq(Commands)]

ASSUME LinesAssumption ==
    \A l \in Lines : /\ l \in Seq(Jobs)
                     /\ l # <<>>
                     /\ \A i \in 1 .. Len(l) : l[i].cmds # <<>>
ASSUME BoundsAssumption == /\ MaxLines \in Nat /\ MaxStops \in Nat
                            /\ MaxPid \in Nat \ {0}
ASSUME EnvironmentAssumption ==
    ExecRace \in BOOLEAN /\ Stops \subseteq {"SIGTSTP", "SIGTTIN"}

VARIABLES
    \* The shell's control state and the locals of run_cmd_line/run_job_desc.
    pc,             \* the next step of the shell
    lines,          \* how many lines have been read
    line,           \* the jobs of the line being run
    jobIdx,         \* idx of run_cmd_line, from 1
    cmdIdx,         \* idx of run_job_desc's pipeline loop, from 1
    pidsCount,      \* pids_count
    pgid,           \* pgid, 0 before the first child
    waitSuccesses,  \* wait_successes
    shouldExit,     \* ctx->should_exit
    \* Signal state of the shell.
    blocked,        \* SIGCHLD is blocked by run_job_desc
    pending,        \* SIGCHLD is pending: one bit, signals merge
    inHandler,      \* handle_sigchld is running
    \* The kernel's view of the terminal and of the children.
    ttyPgrp,        \* foreground process group of the terminal
    nextPid,        \* the next process id to hand out
    st,             \* life-cycle state of every child
    pgrp,           \* process group of every child
    prog,           \* what the child was forked to run
    execd,          \* children that have called execvp successfully
    unreported,     \* stopped children whose stop waitid has not returned yet
    \* History, for the properties only.
    serial,         \* number of jobs started so far
    owner,          \* the job (by serial) each child was forked for
    everStopped,    \* children that were stopped at some time
    stops           \* number of stop signals sent so far

shellVars == <<pc, lines, line, jobIdx, cmdIdx, pidsCount, pgid,
               waitSuccesses, shouldExit>>
sigVars   == <<blocked, pending, inHandler>>
procVars  == <<nextPid, st, pgrp, prog, execd, unreported>>
histVars  == <<serial, owner, everStopped, stops>>
vars == <<shellVars, sigVars, ttyPgrp, procVars, histVars>>

ProcStates == {"none", "forked", "running", "stopped", "zombie", "reaped"}
Unreaped   == {p \in Pids : st[p] \notin {"none", "reaped"}}
Alive      == {p \in Pids : st[p] \in {"forked", "running", "stopped"}}
Active     == {p \in Pids : st[p] \in {"forked", "running"}}
Zombies    == {p \in Pids : st[p] = "zombie"}
Group(g)   == {p \in Unreaped : pgrp[p] = g}

CurJob  == line[jobIdx]
CurCmd  == CurJob.cmds[cmdIdx]
LastCmd == cmdIdx = Len(CurJob.cmds)
Fg      == CurJob.type = "FG"

\* The processes forked for the job being run.
JobProcs == {p \in Pids : st[p] # "none" /\ owner[p] = serial}

PCs == {"prompt", "jobs", "cmds", "setpgid", "tcset", "wait", "tcback",
        "unblock", "exited"}

\* The shell is between two of its own steps: a deliverable SIGCHLD is taken
\* first, and nothing else runs in the shell until its handler returns.
ShellRuns == ~inHandler /\ ~(pending /\ ~blocked)

-----------------------------------------------------------------------------
Init ==
    /\ pc = "prompt" /\ lines = 0 /\ line = <<>> /\ jobIdx = 1 /\ cmdIdx = 1
    /\ pidsCount = 0 /\ pgid = 0 /\ waitSuccesses = 0 /\ shouldExit = FALSE
    /\ blocked = FALSE /\ pending = FALSE /\ inHandler = FALSE
    /\ ttyPgrp = ShellPid
    /\ nextPid = 2
    /\ st = [p \in Pids |-> "none"]
    /\ pgrp = [p \in Pids |-> ShellPid]
    /\ prog = [p \in Pids |-> "ext"]
    /\ execd = {} /\ unreported = {}
    /\ serial = 0 /\ owner = [p \in Pids |-> 0] /\ everStopped = {}
    /\ stops = 0

-----------------------------------------------------------------------------
(* The shell. *)

\* main reads a line and run() lexes and parses it into jobs.
ReadLine ==
    /\ pc = "prompt" /\ ShellRuns /\ lines < MaxLines
    /\ \E l \in Lines : line' = l
    /\ lines' = lines + 1 /\ jobIdx' = 1 /\ pc' = "jobs"
    /\ UNCHANGED <<cmdIdx, pidsCount, pgid, waitSuccesses, shouldExit>>
    /\ UNCHANGED <<sigVars, ttyPgrp, procVars, histVars>>

\* SIGCHLD is blocked while run_job_desc runs.
BugJobMask == FALSE
JobMask == TRUE

\* run_job_desc is entered: SIGCHLD is blocked and the locals are reset.
StartJob ==
    /\ pc = "jobs" /\ ShellRuns /\ jobIdx <= Len(line)
    /\ blocked' = JobMask
    /\ cmdIdx' = 1 /\ pidsCount' = 0 /\ pgid' = 0 /\ waitSuccesses' = 0
    /\ pc' = "cmds"
    /\ serial' = serial + 1
    /\ UNCHANGED <<lines, line, jobIdx, shouldExit, pending, inHandler>>
    /\ UNCHANGED <<ttyPgrp, procVars, owner, everStopped, stops>>

\* Where run_job_desc goes when no further command of the job is to be run.
BugAfterCmds(n) == IF n > 0 THEN "tcset" ELSE "unblock"
AfterCmds(n) == IF Fg /\ n > 0 THEN "tcset" ELSE "unblock"

\* Where it goes after a command that did not fail: the pipeline loop is left
\* early when should_exit is set.
AfterCmd(n, ex) == IF ~LastCmd /\ ~ex THEN "cmds" ELSE AfterCmds(n)

\* run_cmd's test: does the command run inside the shell?
RunsInShell(c) == Fg /\ c \in Builtins

NextCmd ==
    /\ cmdIdx' = IF pc' = "cmds" THEN cmdIdx + 1 ELSE cmdIdx

\* A builtin of a foreground job: run_builtin_fg, which returns 0 to
\* run_job_desc, so that no child is counted.
RunBuiltinFg ==
    /\ pc = "cmds" /\ ShellRuns
    /\ RunsInShell(CurCmd)
    /\ shouldExit' = (shouldExit \/ CurCmd = "exit")
    /\ pc' = AfterCmd(pidsCount, shouldExit')
    /\ NextCmd
    /\ UNCHANGED <<lines, line, jobIdx, pidsCount, pgid, waitSuccesses>>
    /\ UNCHANGED <<sigVars, ttyPgrp, procVars, histVars>>

\* spawn: fork() succeeds.  The child inherits the shell's process group.
Fork ==
    /\ pc = "cmds" /\ ShellRuns
    /\ ~RunsInShell(CurCmd)
    /\ nextPid \in Pids
    /\ st' = [st EXCEPT ![nextPid] = "forked"]
    /\ prog' = [prog EXCEPT ![nextPid] = CurCmd]
    /\ owner' = [owner EXCEPT ![nextPid] = serial]
    /\ nextPid' = nextPid + 1
    /\ pc' = "setpgid"
    /\ UNCHANGED <<lines, line, jobIdx, cmdIdx, pidsCount, pgid>>
    /\ UNCHANGED <<waitSuccesses, shouldExit, sigVars, ttyPgrp, pgrp, execd>>
    /\ UNCHANGED <<unreported, serial, everStopped, stops>>

\* The -1 of a failed fork is no process and names no group.
BugPgidAfterFailure == IF pgid = 0 THEN -1 ELSE pgid
PgidAfterFailure == pgid

\* fork() fails, or pipe() does for a command that is not the last: the rest
\* of the pipeline is given up.
SpawnFails ==
    /\ pc = "cmds" /\ ShellRuns
    /\ ~RunsInShell(CurCmd) \/ ~LastCmd
    /\ pgid' = PgidAfterFailure
    /\ pc' = AfterCmds(pidsCount)
    /\ UNCHANGED <<lines, line, jobIdx, cmdIdx, pidsCount>>
    /\ UNCHANGED <<waitSuccesses, shouldExit, sigVars, ttyPgrp, procVars>>
    /\ UNCHANGED histVars

\* setpgid(pid, pgid) as the kernel decides it: EACCES once the child has
\* called exec, EPERM when there is no process group pgid to join.
SetPgidAllowed(p, g) == p \notin execd /\ (g = p \/ Group(g) # {})

\* spawn: the parent moves the child it has just forked into the job's group;
\* a failure is only printed.  run_job_desc then counts the child, and the
\* first one names the group.
SetPgid ==
    LET p == nextPid - 1
        g == IF pgid = 0 THEN p ELSE pgid
    IN  /\ pc = "setpgid" /\ ShellRuns
        /\ pgrp' = IF SetPgidAllowed(p, g) THEN [pgrp EXCEPT ![p] = g]
                                           ELSE pgrp
        /\ pidsCount' = pidsCount + 1
        /\ pgid' = g
        /\ pc' = AfterCmd(pidsCount', shouldExit)
        /\ NextCmd
        /\ UNCHANGED <<lines, line, jobIdx, waitSuccesses, shouldExit>>
        /\ UNCHANGED <<sigVars, ttyPgrp, nextPid, st, prog, execd>>
        /\ UNCHANGED <<unreported, histVars>>

\* tcsetpgrp(STDIN_FILENO, pgid) before the wait.  The call must name a process
\* group of the session; when pgid is only the id of a child that is still in
\* the shell's group POSIX makes it fail and Linux lets it succeed.
GiveTerminal ==
    /\ pc = "tcset" /\ ShellRuns
    /\ ttyPgrp' \in IF Group(pgid) # {} THEN {pgid} ELSE {ttyPgrp, pgid}
    /\ pc' = "wait"
    /\ UNCHANGED <<lines, line, jobIdx, cmdIdx, pidsCount, pgid>>
    /\ UNCHANGED <<waitSuccesses, shouldExit, sigVars, procVars, histVars>>

\* The children waitid(P_PGID, pgid, WEXITED | WSTOPPED) can return: the
\* zombies of the group and its stopped members not returned before.
BugWaitable == {p \in Group(pgid) : st[p] = "zombie"}
Waitable == {p \in Group(pgid) : st[p] = "zombie" \/ p \in unreported}

\* The loop's condition fails.
BugWaitDone == waitSuccesses + 1 >= pidsCount
WaitDone == waitSuccesses >= pidsCount

\* One successful waitid of the loop.  A zombie is reaped; a stopped child is
\* reported, stays where it is, and counts as well.
WaitChild ==
    /\ pc = "wait" /\ ShellRuns /\ ~WaitDone
    /\ \E p \in Waitable :
          /\ st' = IF st[p] = "zombie" THEN [st EXCEPT ![p] = "reaped"] ELSE st
          /\ unreported' = unreported \ {p}
    /\ waitSuccesses' = waitSuccesses + 1
    /\ UNCHANGED <<pc, lines, line, jobIdx, cmdIdx, pidsCount, pgid>>
    /\ UNCHANGED <<shouldExit, sigVars, ttyPgrp, nextPid, pgrp, prog, execd>>
    /\ UNCHANGED histVars

\* The loop ends: enough successes, or waitid fails with ECHILD because no
\* child is left in the group.
WaitEnds ==
    /\ pc = "wait" /\ ShellRuns
    /\ WaitDone \/ Group(pgid) = {}
    /\ pc' = "tcback"
    /\ UNCHANGED <<lines, line, jobIdx, cmdIdx, pidsCount, pgid>>
    /\ UNCHANGED <<waitSuccesses, shouldExit, sigVars, ttyPgrp, procVars>>
    /\ UNCHANGED histVars

\* tcsetpgrp(STDIN_FILENO, getpgid(0)) with SIGTTOU ignored around it.
BugTakeTerminal == UNCHANGED ttyPgrp
TakeTerminal == ttyPgrp' = ShellPid
ReclaimTerminal ==
    /\ pc = "tcback" /\ ShellRuns
    /\ TakeTerminal
    /\ pc' = "unblock"
    /\ UNCHANGED <<lines, line, jobIdx, cmdIdx, pidsCount, pgid>>
    /\ UNCHANGED <<waitSuccesses, shouldExit, sigVars, procVars, histVars>>

\* run_job_desc unblocks SIGCHLD and returns to run_cmd_line's loop.
EndJob ==
    /\ pc = "unblock" /\ ShellRuns
    /\ blocked' = FALSE
    /\ jobIdx' = jobIdx + 1
    /\ pc' = "jobs"
    /\ UNCHANGED <<lines, line, cmdIdx, pidsCount, pgid, waitSuccesses>>
    /\ UNCHANGED <<shouldExit, pending, inHandler, ttyPgrp, procVars, histVars>>

\* After the last job the main loop prompts again, or leaves.
BugMainLoop == "prompt"
MainLoop == IF shouldExit THEN "exited" ELSE "prompt"
EndLine ==
    /\ pc = "jobs" /\ ShellRuns /\ jobIdx > Len(line)
    /\ pc' = MainLoop
    /\ UNCHANGED <<lines, line, jobIdx, cmdIdx, pidsCount, pgid>>
    /\ UNCHANGED <<waitSuccesses, shouldExit, sigVars, ttyPgrp, procVars>>
    /\ UNCHANGED histVars

-----------------------------------------------------------------------------
(* The SIGCHLD handler, which interrupts the shell. *)

EnterHandler ==
    /\ pc # "exited" /\ pending /\ ~blocked /\ ~inHandler
    /\ inHandler' = TRUE /\ pending' = FALSE
    /\ UNCHANGED <<shellVars, blocked, ttyPgrp, procVars, histVars>>

\* One waitpid(-1, NULL, WNOHANG) that returns a pid.
HandlerReap ==
    /\ inHandler
    /\ \E p \in Zombies : st' = [st EXCEPT ![p] = "reaped"]
    /\ UNCHANGED <<shellVars, sigVars, ttyPgrp, nextPid, pgrp, prog, execd>>
    /\ UNCHANGED <<unreported, histVars>>

\* The loop of the handler is over.
BugNoZombieLeft == TRUE
NoZombieLeft == Zombies = {}

\* The waitpid that finds no zombie: the handler returns.
HandlerReturn ==
    /\ inHandler /\ NoZombieLeft
    /\ inHandler' = FALSE
    /\ UNCHANGED <<shellVars, blocked, pending, ttyPgrp, procVars, histVars>>

-----------------------------------------------------------------------------
(* The children, the user's terminal and the kernel. *)

\* execvp succeeds in the child of an external command.  Without ExecRace the
\* child gets there only after the parent's setpgid.
ChildExec(p) ==
    /\ st[p] = "forked" /\ prog[p] = "ext"
    /\ (pc = "setpgid" /\ p = nextPid - 1) => ExecRace
    /\ st' = [st EXCEPT ![p] = "running"]
    /\ execd' = execd \cup {p}
    /\ UNCHANGED <<shellVars, sigVars, ttyPgrp, nextPid, pgrp, prog>>
    /\ UNCHANGED <<unreported, histVars>>

\* The child ends: its program or its builtin returns, execvp fails, or a
\* signal (Ctrl-C, SIGKILL) ends it.  The shell gets SIGCHLD.
ChildExit(p) ==
    /\ p \in Alive
    /\ st' = [st EXCEPT ![p] = "zombie"]
    /\ unreported' = unreported \ {p}
    /\ pending' = TRUE
    /\ UNCHANGED <<shellVars, blocked, inHandler, ttyPgrp, nextPid, pgrp>>
    /\ UNCHANGED <<prog, execd, histVars>>

\* The members of a group that a stop signal stops; the others ignore it.
StopSome(g) ==
    /\ \E S \in (SUBSET (Group(g) \cap Active)) \ {{}} :
          /\ st' = [p \in Pids |-> IF p \in S THEN "stopped" ELSE st[p]]
          /\ unreported' = unreported \cup S
          /\ everStopped' = everStopped \cup S
    /\ stops < MaxStops /\ stops' = stops + 1
    /\ pending' = TRUE
    /\ UNCHANGED <<shellVars, blocked, inHandler, ttyPgrp, nextPid, pgrp>>
    /\ UNCHANGED <<prog, execd, serial, owner>>

\* Ctrl-Z: SIGTSTP to the foreground group of the terminal.
TerminalStop == "SIGTSTP" \in Stops /\ StopSome(ttyPgrp)

\* A program reads the terminal from a background group: SIGTTIN to its group.
BackgroundRead(p) ==
    /\ "SIGTTIN" \in Stops
    /\ st[p] = "running" /\ pgrp[p] \notin {ttyPgrp, ShellPid}
    /\ StopSome(pgrp[p])

\* SIGCONT, sent with kill by some process: no command of the shell does.
Continue(p) ==
    /\ st[p] = "stopped"
    /\ st' = [st EXCEPT ![p] = IF p \in execd THEN "running" ELSE "forked"]
    /\ unreported' = unreported \ {p}
    /\ pending' = TRUE
    /\ UNCHANGED <<shellVars, blocked, inHandler, ttyPgrp, nextPid, pgrp>>
    /\ UNCHANGED <<prog, execd, histVars>>

\* The user types nothing more, or the shell is gone.
Quiet == pc \in {"prompt", "exited"} /\ UNCHANGED vars

-----------------------------------------------------------------------------
RunShell == \/ StartJob \/ RunBuiltinFg \/ Fork \/ SpawnFails \/ SetPgid
            \/ GiveTerminal \/ WaitChild \/ WaitEnds \/ ReclaimTerminal
            \/ EndJob \/ EndLine
Handler  == EnterHandler \/ HandlerReap \/ HandlerReturn
Child(p) == ChildExec(p) \/ ChildExit(p) \/ BackgroundRead(p) \/ Continue(p)

Next == \/ ReadLine \/ RunShell \/ Handler
        \/ \E p \in Pids : Child(p)
        \/ TerminalStop \/ Quiet

Spec == Init /\ [][Next]_vars

\* The shell and its handler keep running.  The user need not type, and no
\* child need ever end.
FairSpec == Spec /\ WF_vars(RunShell) /\ WF_vars(Handler)

-----------------------------------------------------------------------------
(* Properties. *)

\* Every variable has its type.
TypeOk ==
    /\ pc \in PCs /\ lines \in 0 .. MaxLines /\ line \in Lines \cup {<<>>}
    /\ jobIdx \in Nat \ {0} /\ cmdIdx \in Nat \ {0}
    /\ pidsCount \in Nat /\ pgid \in Pids \cup {0} /\ waitSuccesses \in Nat
    /\ shouldExit \in BOOLEAN /\ blocked \in BOOLEAN /\ pending \in BOOLEAN
    /\ inHandler \in BOOLEAN
    /\ ttyPgrp \in Pids \cup {ShellPid} /\ nextPid \in 2 .. MaxPid + 1
    /\ st \in [Pids -> ProcStates] /\ pgrp \in [Pids -> Pids \cup {ShellPid}]
    /\ prog \in [Pids -> Commands]
    /\ execd \subseteq Pids /\ unreported \subseteq Pids
    /\ serial \in Nat /\ owner \in [Pids -> Nat] /\ everStopped \subseteq Pids
    /\ stops \in Nat

\* The pcs at which run_job_desc is active.
InJob == pc \in {"cmds", "setpgid", "tcset", "wait", "tcback", "unblock"}

\* Outside the wait of a foreground job the terminal belongs to the shell:
\* otherwise its next tcsetpgrp or read would stop the shell itself.
ShellOwnsTerminal == pc \notin {"wait", "tcback"} => ttyPgrp = ShellPid

\* While a job is being run only its own waitid reaps its children: SIGCHLD is
\* blocked so that handle_sigchld cannot take them (comment at run.c:258).
ReapedByWait ==
    InJob => Cardinality({p \in JobProcs : st[p] = "reaped"}) <= waitSuccesses

\* The group a later command of the pipeline must join still exists when it is
\* forked, even if the first command has already ended: nobody has reaped it.
GroupOutlivesLeader ==
    InJob /\ pc \in {"cmds", "setpgid"} /\ pgid # 0 /\ pgrp[pgid] = pgid
        => Group(pgid) # {}

\* When the wait of a foreground job is over every process of the job has
\* ended: the next job, or the prompt, comes after it.
ForegroundJobFinished ==
    pc \in {"tcback", "unblock"} /\ Fg =>
        \A p \in JobProcs : st[p] = "reaped"

\* Whatever the interleaving, a foreground job is left unfinished only when one
\* of its processes was stopped, or could not be put into the job's group.
UnfinishedOnlyIf ==
    pc \in {"tcback", "unblock"} /\ Fg =>
        \A p \in JobProcs : \/ st[p] = "reaped"
                            \/ pgrp[p] = ShellPid
                            \/ everStopped \cap JobProcs # {}

\* Every child that ends is reaped, by the wait or by the handler, unless the
\* shell leaves first or waits for a foreground job for ever: merged SIGCHLDs
\* lose no zombie.
ZombiesReaped ==
    <>[](pc = "wait") \/ \A p \in Pids :
        st[p] = "zombie" ~> (st[p] = "reaped" \/ pc = "exited")

\* The shell never waits for ever for a job of which nothing is running, when
\* all processes of the job are in its group.
WaitsOnlyForRunning ==
    ~ <>[](/\ pc = "wait"
           /\ Group(pgid) \cap Active = {}
           /\ \A p \in JobProcs : pgrp[p] = pgid)

\* Once exit has been called the shell leaves, unless a foreground job that
\* follows on the same line never ends.
ExitHonoured == <>[](pc = "wait") \/ (shouldExit ~> pc = "exited")

\* What job control promises (JobContract), seen through the processes and the
\* terminal.  A foreground job lasts from StartJob to EndJob; its processes are
\* those that are in a group of their own, until a stop signal reaches one.
InForeground == InJob /\ Fg
Joined == {p \in Alive \cap JobProcs : pgrp[p] # ShellPid}
Foreground == IF InForeground /\ everStopped \cap JobProcs = {} THEN Joined ELSE {}
Contract == INSTANCE JobContract WITH
    Procs <- Pids,
    mode  <- IF pc = "exited" THEN "gone"
             ELSE IF InForeground THEN "fg" ELSE "ready",
    fg    <- Foreground,
    bg    <- Alive \ Foreground,
    term  <- IF ttyPgrp = ShellPid THEN "shell" ELSE "job"

\* The shell keeps the contract, whatever the children, the signals, the
\* failures and the interleaving: it never takes the terminal back from, or goes
\* on beside, a foreground job that has a living process and was not stopped
\* (report.typ:294-296).
KeepsContract == Contract!CSpec

=============================================================================
