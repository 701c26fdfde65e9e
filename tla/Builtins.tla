------------------------------ MODULE Builtins ------------------------------
(***************************************************************************)
(* The built-in commands cd, exit and prompt (builtins.c), as the shell    *)
(* runs them for a foreground job, and what they change: the working       *)
(* directory, PWD and OLDPWD, the exit code, and the prompt.               *)
(*                                                                         *)
(* The kernel knows the working directory as a directory, the environment  *)
(* as a name.  Other processes rename and remove directories while cd is   *)
(* between two of its calls, so cd is one action per call: getcwd, chdir,  *)
(* getcwd again (twice for `cd -`, which prints), setenv.                  *)
(***************************************************************************)
EXTENDS Integers

CONSTANTS
    Dirs,           \* directories
    Names,          \* their absolute paths
    Gone,           \* the path of a directory that was removed
    Unset,          \* the value of a variable that is not set
    MaxMoves,       \* bound on what other processes do to directories
    Numbers,        \* the numbers given to exit
    IntMax, LongMax,\* INT_MAX and LONG_MAX
    Prompts,        \* texts of the prompt
    Failures        \* may allocations, setenv and getcwd fail?

ASSUME NamesAssumption == {Gone, Unset, "."} \cap Names = {}
ASSUME MovesAssumption == MaxMoves \in Nat
ASSUME NumbersAssumption ==
    /\ Numbers \subseteq Int
    /\ IntMax \in Nat /\ LongMax \in Nat /\ IntMax < LongMax
ASSUME FailuresAssumption == Failures \in BOOLEAN

VARIABLES
    path,       \* where each directory is
    moves,      \* how often other processes have moved one
    cwd,        \* working directory of the shell
    env,        \* PWD, OLDPWD and HOME
    pc,         \* the call cd makes next, or "idle"
    dir,        \* run_cd: the path to go to
    shouldPwd,  \* run_cd: `cd -` prints the directory
    oldpwd,     \* run_cd: the first answer of getcwd
    pwd,        \* run_cd: the last one
    shouldExit, exitCode, prompt,
    \* History variables:
    prev,       \* where the shell was before the last cd that succeeded
    from,       \* where it was when the present cd began
    moved,      \* directories moved since the last cd that succeeded began
    movedNow,   \* directories moved since the present cd began
    inStep,     \* no cd has failed after chdir since the last that succeeded
    asked       \* the number given to the last exit that was accepted

dirVars == <<path, moves>>
cdVars == <<pc, dir, shouldPwd, oldpwd, pwd>>
ctxVars == <<shouldExit, exitCode, prompt, asked>>
ghosts == <<prev, from, moved, movedNow, inStep>>
vars == <<dirVars, cwd, env, cdVars, ctxVars, ghosts>>

Exists(d) == path[d] # Gone

Init ==
    /\ path \in [Dirs -> Names] /\ moves = 0
    /\ \A d, e \in Dirs : path[d] = path[e] => d = e
    /\ cwd \in Dirs
    /\ env \in [PWD : Names \cup {Unset}, OLDPWD : Names \cup {Unset}, HOME : Names \cup {Unset}]
    /\ pc = "idle" /\ dir = Unset /\ shouldPwd = FALSE
    /\ oldpwd = Unset /\ pwd = Unset
    /\ shouldExit = FALSE /\ exitCode = 0 /\ prompt \in Prompts
    /\ prev = cwd /\ from = cwd
    /\ moved = {} /\ movedNow = {} /\ inStep = FALSE
    /\ asked = 0

-----------------------------------------------------------------------------
(* Other processes. *)

\* A directory is renamed to a path that is free, or removed.
Move(d, p) ==
    /\ moves < MaxMoves /\ Exists(d)
    /\ p = Gone \/ \A e \in Dirs : path[e] # p
    /\ path' = [path EXCEPT ![d] = p]
    /\ moves' = moves + 1
    /\ moved' = moved \cup {d} /\ movedNow' = movedNow \cup {d}
    /\ UNCHANGED <<cwd, env, cdVars, ctxVars, prev, from, inStep>>

-----------------------------------------------------------------------------
(* run_cd. *)

\* How a cd ends.  Before chdir nothing has happened; after it, a failure leaves
\* the shell in the new directory.
Return(how) ==
    /\ pc' = "idle"
    /\ dir' = Unset /\ shouldPwd' = FALSE /\ oldpwd' = Unset /\ pwd' = Unset
    /\ inStep' = (how = "success" \/ (inStep /\ how = "early"))
    /\ IF how = "success" THEN prev' = from /\ moved' = movedNow
                          ELSE UNCHANGED <<prev, moved>>
    /\ UNCHANGED <<dirVars, ctxVars, from, movedNow>>

\* allocating_getcwd fails in a directory that was removed, and for want of
\* memory; its buffer is doubled until the path fits.
CwdKnown == Exists(cwd)
CwdFails == ~Exists(cwd) \/ Failures

\* What cd is given: a path, nothing ("HOME"), or `-` ("OLDPWD").
Argument == [kind : {"path"}, name : Names \cup {"."}]
              \cup [kind : {"HOME", "OLDPWD"}, name : {"."}]

\* cd is called, with one argument or none: the path to go to, when its variable
\* is set, is looked up after the first getcwd.
Begin(arg) ==
    LET target == IF arg.kind = "path" THEN arg.name ELSE env[arg.kind]
    IN /\ pc = "idle"
       /\ CwdKnown /\ target # Unset
       /\ pc' = "chdir"
       /\ oldpwd' = path[cwd]
       /\ dir' = target
       /\ shouldPwd' = (arg.kind = "OLDPWD")
       /\ from' = cwd /\ movedNow' = {}
       /\ UNCHANGED <<dirVars, cwd, env, pwd, ctxVars, prev, moved, inStep>>

\* More than one argument, no working directory, or no HOME or OLDPWD.
BeginFails ==
    /\ pc = "idle"
    /\ from' = cwd
    /\ UNCHANGED <<dirVars, cwd, env, cdVars, ctxVars, prev, moved, movedNow, inStep>>

\* The directory a path leads to; "." stands for every relative path that leads
\* back to the working directory.
Target == IF dir = "." THEN {cwd} ELSE {d \in Dirs : path[d] = dir}

Chdir ==
    /\ pc = "chdir"
    /\ cwd' \in Target
    /\ pc' = IF shouldPwd THEN "print" ELSE "getcwd"
    /\ UNCHANGED <<dirVars, env, dir, shouldPwd, oldpwd, pwd, ctxVars, ghosts>>

\* No such directory, or no permission.
ChdirFails ==
    /\ pc = "chdir"
    /\ Return("early")
    /\ UNCHANGED <<cwd, env>>

\* `cd -` calls run_pwd.
PrintDir ==
    /\ pc = "print" /\ CwdKnown
    /\ pc' = "getcwd"
    /\ UNCHANGED <<dirVars, cwd, env, dir, shouldPwd, oldpwd, pwd, ctxVars, ghosts>>

\* The new path.
BugNewPath == dir
NewPath == path[cwd]
GetCwd ==
    /\ pc = "getcwd" /\ CwdKnown
    /\ pwd' = NewPath
    /\ pc' = "setenv"
    /\ UNCHANGED <<dirVars, cwd, env, dir, shouldPwd, oldpwd, ctxVars, ghosts>>

\* run_pwd or the second getcwd fails: the directory was changed already.
LateFailure ==
    /\ pc \in {"print", "getcwd"} /\ CwdFails
    /\ Return("late")
    /\ UNCHANGED <<cwd, env>>

BugNewEnv == [env EXCEPT !.OLDPWD = env.PWD, !.PWD = pwd]
NewEnv == [env EXCEPT !.OLDPWD = oldpwd, !.PWD = pwd]
SetEnv ==
    /\ pc = "setenv"
    /\ env' = NewEnv
    /\ Return("success")
    /\ UNCHANGED cwd

\* One of the two setenv fails: OLDPWD is set first.
HalfSet == [env EXCEPT !.OLDPWD = oldpwd]
SetEnvFails ==
    /\ pc = "setenv" /\ Failures
    /\ env' \in {env, HalfSet}
    /\ Return("late")
    /\ UNCHANGED cwd

-----------------------------------------------------------------------------
(* run_exit and run_prompt. *)

\* strtol stops at the limits of long.
Strtol(n) == IF n > LongMax THEN LongMax
             ELSE IF n < -LongMax - 1 THEN -LongMax - 1 ELSE n

\* A conversion to int keeps the low bits.
ToInt(n) == ((n + IntMax + 1) % (2 * (IntMax + 1))) - IntMax - 1

BugInRange(n) == n <= IntMax
InRange(n) == n >= -IntMax - 1 /\ n <= IntMax

\* exit with a number; without one, and with an empty argument, it is 0.  An
\* argument that is no number, or two, change nothing.
Exit(n) ==
    /\ pc = "idle"
    /\ InRange(Strtol(n))
    /\ shouldExit' = TRUE /\ exitCode' = ToInt(Strtol(n)) /\ asked' = n
    /\ UNCHANGED <<dirVars, cwd, env, cdVars, prompt, ghosts>>

\* prompt with one argument: the old text is freed after the new one is copied.
Prompt(text) ==
    /\ pc = "idle"
    /\ prompt' = text
    /\ UNCHANGED <<dirVars, cwd, env, cdVars, shouldExit, exitCode, asked, ghosts>>

-----------------------------------------------------------------------------
Cd == \/ \E arg \in Argument : Begin(arg)
      \/ Chdir \/ PrintDir \/ GetCwd \/ SetEnv
CdFails == BeginFails \/ ChdirFails \/ LateFailure \/ SetEnvFails
Other == \/ \E d \in Dirs, p \in Names \cup {Gone} : Move(d, p)
         \/ \E n \in Numbers \cup {0} : Exit(n)
         \/ \E text \in Prompts : Prompt(text)

Next == Cd \/ CdFails \/ Other

Spec == Init /\ [][Next]_vars

-----------------------------------------------------------------------------
(* Properties. *)

Text == Names \cup {Unset}

\* Every variable has its type: an environment variable, once set, holds an
\* absolute path, though cd is also given relative ones.
TypeOk ==
    /\ path \in [Dirs -> Names \cup {Gone}] /\ moves \in 0 .. MaxMoves
    /\ cwd \in Dirs /\ prev \in Dirs /\ from \in Dirs
    /\ env \in [PWD : Text, OLDPWD : Text, HOME : Text]
    /\ pc \in {"idle", "chdir", "print", "getcwd", "setenv"}
    /\ dir \in Text \cup {"."} /\ shouldPwd \in BOOLEAN
    /\ oldpwd \in Text /\ pwd \in Text
    /\ shouldExit \in BOOLEAN /\ exitCode \in (-IntMax - 1) .. IntMax
    /\ asked \in Int /\ prompt \in Prompts
    /\ moved \subseteq Dirs /\ movedNow \subseteq Dirs
    /\ inStep \in BOOLEAN

\* cd has not changed the directory yet, or has done all it does.
Settled == pc \in {"idle", "chdir"}

\* PWD names the working directory (run_cd), whatever path cd was given and
\* whatever other processes did to other directories while it ran, unless a cd
\* failed after its chdir.
PwdNamesCwd == Settled /\ inStep /\ cwd \notin moved => env.PWD = path[cwd]

\* OLDPWD names the directory the shell really was in before the last cd that
\* succeeded (report.typ:249).  It is not what PWD said then: an inherited PWD may
\* be any path, and a cd that failed after its chdir has left PWD behind, once
\* or several times, without the next cd taking it for where it came from.
OldpwdNamesPrevious == Settled /\ inStep /\ prev \notin moved => env.OLDPWD = path[prev]

\* `cd -` goes back to the directory the shell was in before the last cd that
\* succeeded, over any number of failures before chdir (run_cd).
DashGoesBack ==
    [][shouldPwd /\ inStep /\ prev \notin moved /\ pc = "chdir" /\ pc' = "print"
        => cwd' = prev]_vars

\* The shell exits with the number that was asked for, or the exit is refused: in
\* spite of the saturating strtol and the conversion from long to int (run_exit).
ExitExact == shouldExit => exitCode = asked

=============================================================================
