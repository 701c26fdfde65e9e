--------------------------- MODULE BuiltinsProofs ---------------------------
(***************************************************************************)
(* Theorems about cd and exit, for every set of directories and paths and  *)
(* any interference by other processes.                                    *)
(***************************************************************************)
EXTENDS Builtins, TLAPS

Vars == [PWD : Text, OLDPWD : Text, HOME : Text]

LEMMA InitTypeOk == Init => TypeOk
<1> SUFFICES ASSUME Init
             PROVE  TypeOk
  OBVIOUS
<1>1. env \in Vars
  BY DEF Init, Vars, Text
<1>2. exitCode \in (-IntMax - 1) .. IntMax /\ moves \in 0 .. MaxMoves
  BY NumbersAssumption, MovesAssumption DEF Init
<1>3. path \in [Dirs -> Names \cup {Gone}]
  BY DEF Init
<1>4. /\ shouldPwd \in BOOLEAN /\ shouldExit \in BOOLEAN /\ inStep \in BOOLEAN
  BY DEF Init
<1>5. asked \in Int /\ prompt \in Prompts
  BY DEF Init
<1>6. /\ cwd \in Dirs /\ prev \in Dirs /\ from \in Dirs
      /\ moved \subseteq Dirs /\ movedNow \subseteq Dirs
  BY <1>1 DEF Init
<1>7. /\ pc \in {"idle", "chdir", "print", "getcwd", "setenv"}
      /\ dir \in Text \cup {"."} /\ oldpwd \in Text /\ pwd \in Text
  BY DEF Init, Text
<1>8. QED
  BY <1>1, <1>2, <1>3, <1>4, <1>5, <1>6, <1>7 DEF TypeOk, Vars

\* A conversion to int gives an int, and the same number when it is one.
LEMMA ToIntExact ==
    ASSUME NEW n \in Int, InRange(n)
    PROVE  ToInt(n) = n
<1>1. IntMax \in Nat
  BY NumbersAssumption
<1>2. n + IntMax + 1 \in 0 .. (2 * (IntMax + 1) - 1)
  BY <1>1 DEF InRange
<1>3. \A m, k \in Nat : k > 0 /\ m < k => m % k = m
  OBVIOUS
<1>4. (n + IntMax + 1) % (2 * (IntMax + 1)) = n + IntMax + 1
  BY <1>1, <1>2, <1>3
<1>5. QED
  BY <1>1, <1>4 DEF ToInt

\* The number strtol returns is in the range of int only if it is the one given.
LEMMA StrtolExact ==
    ASSUME NEW n \in Int, InRange(Strtol(n))
    PROVE  Strtol(n) = n
  BY NumbersAssumption DEF Strtol, InRange

LEMMA StepTypeOk == TypeOk /\ [Next]_vars => TypeOk'
<1> SUFFICES ASSUME TypeOk, [Next]_vars
             PROVE  TypeOk'
  OBVIOUS
<1> USE DEF TypeOk
<1>1. CASE \E d \in Dirs, p \in Names \cup {Gone} : Move(d, p)
  <2>1. PICK d \in Dirs, p \in Names \cup {Gone} : Move(d, p)
    BY <1>1
  <2>2. path' \in [Dirs -> Names \cup {Gone}] /\ moves' \in 0 .. MaxMoves
    BY <2>1, MovesAssumption DEF Move
  <2>3. QED
    BY <2>1, <2>2 DEF Move, cdVars, ctxVars
<1>2. CASE \E arg \in Argument : Begin(arg)
  <2>1. PICK arg \in Argument : Begin(arg)
    BY <1>2
  <2>2. path[cwd] \in Names
    BY <2>1 DEF Begin, CwdKnown, Exists
  <2>3. dir' \in Text \cup {"."} /\ shouldPwd' \in BOOLEAN
    BY <2>1 DEF Begin, Argument, Text
  <2>4. QED
    BY <2>1, <2>2, <2>3 DEF Begin, dirVars, ctxVars, Text
<1>3. CASE BeginFails
  BY <1>3 DEF BeginFails, dirVars, cdVars, ctxVars
<1>4. CASE Chdir
  <2>1. Target \subseteq Dirs
    BY DEF Target
  <2>2. QED
    BY <1>4, <2>1 DEF Chdir, dirVars, ctxVars, ghosts
<1>5. CASE PrintDir
  BY <1>5 DEF PrintDir, dirVars, ctxVars, ghosts
<1>6. CASE GetCwd
  <2>1. path[cwd] \in Names
    BY <1>6 DEF GetCwd, CwdKnown, Exists
  <2>2. QED
    BY <1>6, <2>1 DEF GetCwd, NewPath, dirVars, ctxVars, ghosts, Text
<1>7. CASE ChdirFails \/ LateFailure
  BY <1>7 DEF ChdirFails, LateFailure, Return, dirVars, ctxVars, Text
<1>8. CASE SetEnv
  <2>1. NewEnv \in Vars
    BY DEF NewEnv, Vars
  <2>2. QED
    BY <1>8, <2>1 DEF SetEnv, Return, dirVars, ctxVars, Text, Vars
<1>9. CASE SetEnvFails
  <2>1. HalfSet \in Vars
    BY DEF HalfSet, Vars
  <2>2. QED
    BY <1>9, <2>1 DEF SetEnvFails, Return, dirVars, ctxVars, Text, Vars
<1>10. CASE \E n \in Numbers \cup {0} : Exit(n)
  <2>1. PICK n \in Numbers \cup {0} : Exit(n)
    BY <1>10
  <2>2. n \in Int
    BY NumbersAssumption
  <2>3. Strtol(n) = n /\ ToInt(n) = n /\ n \in (-IntMax - 1) .. IntMax
    BY <2>1, <2>2, StrtolExact, ToIntExact, NumbersAssumption DEF Exit, InRange
  <2>4. QED
    BY <2>1, <2>2, <2>3 DEF Exit, dirVars, cdVars, ghosts
<1>11. CASE \E text \in Prompts : Prompt(text)
  BY <1>11 DEF Prompt, dirVars, cdVars, ghosts
<1>12. CASE UNCHANGED vars
  BY <1>12 DEF vars, dirVars, cdVars, ctxVars, ghosts
<1>13. QED
  BY <1>1, <1>2, <1>3, <1>4, <1>5, <1>6, <1>7, <1>8, <1>9, <1>10, <1>11, <1>12
     DEF Next, Cd, CdFails, Other

\* Every variable of the built-in commands keeps its type: PWD and OLDPWD hold
\* absolute paths (run_cd), exit codes are ints (run_exit).
THEOREM TypeCorrect == Spec => []TypeOk
  BY InitTypeOk, StepTypeOk, PTL DEF Spec

-----------------------------------------------------------------------------
(* exit. *)

\* The shell exits with the number asked for (run_exit).
THEOREM ExitCorrect == Spec => []ExitExact
<1>1. Init => ExitExact
  BY DEF Init, ExitExact
<1>2. TypeOk /\ ExitExact /\ [Next]_vars => ExitExact'
  <2> SUFFICES ASSUME ExitExact, [Next]_vars
               PROVE  ExitExact'
    OBVIOUS
  <2> USE DEF ExitExact
  <2>1. CASE \E n \in Numbers \cup {0} : Exit(n)
    <3>1. PICK n \in Numbers \cup {0} : Exit(n)
      BY <2>1
    <3>2. n \in Int
      BY NumbersAssumption
    <3>3. Strtol(n) = n /\ ToInt(n) = n
      BY <3>1, <3>2, StrtolExact, ToIntExact DEF Exit
    <3>4. QED
      BY <3>1, <3>3 DEF Exit
  <2>2. CASE UNCHANGED ctxVars
    BY <2>2 DEF ctxVars
  <2>3. CASE \E text \in Prompts : Prompt(text)
    BY <2>3 DEF Prompt
  <2>4. CASE Cd \/ CdFails \/ \E d \in Dirs, p \in Names \cup {Gone} : Move(d, p)
    <3>1. UNCHANGED ctxVars
      BY <2>4 DEF Cd, CdFails, Begin, BeginFails, Chdir, ChdirFails, PrintDir, GetCwd,
                  LateFailure, SetEnv, SetEnvFails, Return, Move
    <3>2. QED
      BY <3>1 DEF ctxVars
  <2>5. QED
    BY <2>1, <2>2, <2>3, <2>4 DEF Next, Other, vars
<1>3. QED
  BY <1>1, <1>2, TypeCorrect, PTL DEF Spec

-----------------------------------------------------------------------------
(* cd. *)

\* What is true between the calls of a cd: the paths it has been told are those of
\* the directories it asked about, unless they have been moved since, and before its
\* setenv it has changed no variable.
Known ==
    /\ pc # "idle" /\ from \notin movedNow => oldpwd = path[from]
    /\ pc = "setenv" /\ cwd \notin movedNow => pwd = path[cwd]
    /\ pc = "chdir" => cwd = from /\ dir # Unset
    /\ pc = "chdir" /\ shouldPwd => dir = env.OLDPWD

\* No two directories have the same path.
OneEach == \A d, e \in Dirs : path[d] = path[e] /\ Exists(d) => d = e

CdInv == OneEach /\ Known /\ PwdNamesCwd /\ OldpwdNamesPrevious

LEMMA InitCdInv == Init => CdInv
  BY DEF Init, CdInv, OneEach, Known, PwdNamesCwd, OldpwdNamesPrevious

\* The environment after a cd.
LEMMA EnvAfter ==
    ASSUME TypeOk
    PROVE  /\ NewEnv.PWD = pwd /\ NewEnv.OLDPWD = oldpwd
           /\ HalfSet.PWD = env.PWD
  BY DEF TypeOk, NewEnv, HalfSet

LEMMA StepCdInv == TypeOk /\ TypeOk' /\ CdInv /\ [Next]_vars => CdInv'
<1> SUFFICES ASSUME TypeOk, TypeOk', CdInv, [Next]_vars
             PROVE  CdInv'
  OBVIOUS
<1> USE DEF CdInv, Settled
<1>1. CASE \E d \in Dirs, p \in Names \cup {Gone} : Move(d, p)
  <2>1. PICK d \in Dirs, p \in Names \cup {Gone} : Move(d, p)
    BY <1>1
  <2>2. /\ path' = [path EXCEPT ![d] = p] /\ d \in moved' /\ d \in movedNow'
        /\ moved \subseteq moved' /\ movedNow \subseteq movedNow'
        /\ UNCHANGED <<cwd, env, pc, dir, shouldPwd, oldpwd, pwd, prev, from, inStep>>
    BY <2>1 DEF Move, cdVars
  <2>3. \A e \in Dirs \ {d} : path'[e] = path[e]
    BY <2>2 DEF TypeOk
  <2>4. path'[d] = p /\ (p = Gone \/ \A e \in Dirs : path[e] # p)
    BY <2>1, <2>2 DEF Move, TypeOk
  <2>5. OneEach'
    BY <2>3, <2>4 DEF OneEach, Exists
  <2>6. Known'
    BY <2>2, <2>3 DEF Known, TypeOk
  <2>7. PwdNamesCwd' /\ OldpwdNamesPrevious'
    BY <2>2, <2>3 DEF PwdNamesCwd, OldpwdNamesPrevious, TypeOk
  <2>8. QED
    BY <2>5, <2>6, <2>7
<1>2. CASE \E arg \in Argument : Begin(arg)
  <2>1. PICK arg \in Argument : Begin(arg)
    BY <1>2
  <2>2. Known'
    BY <2>1, NamesAssumption DEF Begin, Known, Argument, dirVars
  <2>3. QED
    BY <2>1, <2>2 DEF Begin, dirVars, OneEach, Exists, PwdNamesCwd, OldpwdNamesPrevious
<1>3. CASE BeginFails
  BY <1>3 DEF BeginFails, dirVars, cdVars, OneEach, Exists, Known, PwdNamesCwd,
              OldpwdNamesPrevious
<1>4. CASE Chdir \/ PrintDir \/ GetCwd
  BY <1>4 DEF Chdir, PrintDir, GetCwd, NewPath, dirVars, ghosts, OneEach, Exists, Known,
              PwdNamesCwd, OldpwdNamesPrevious
<1>5. CASE ChdirFails
  <2>1. /\ pc = "chdir" /\ pc' = "idle"
        /\ inStep' = inStep
        /\ UNCHANGED <<path, cwd, env, prev, moved, from>>
    BY <1>5 DEF ChdirFails, Return, dirVars, TypeOk
  <2>2. OneEach' /\ Known'
    BY <2>1 DEF OneEach, Exists, Known
  <2>3. PwdNamesCwd' /\ OldpwdNamesPrevious'
    BY <2>1 DEF PwdNamesCwd, OldpwdNamesPrevious
  <2>4. QED
    BY <2>2, <2>3
<1>6. CASE LateFailure
  BY <1>6 DEF LateFailure, Return, dirVars, OneEach, Exists, Known, PwdNamesCwd,
              OldpwdNamesPrevious
<1>7. CASE SetEnv
  <2>1. env'.PWD = pwd /\ env'.OLDPWD = oldpwd
    BY <1>7, EnvAfter DEF SetEnv
  <2>2. QED
    BY <1>7, <2>1 DEF SetEnv, Return, dirVars, OneEach, Exists, Known, PwdNamesCwd,
                      OldpwdNamesPrevious
<1>8. CASE SetEnvFails
  <2>1. env'.PWD = env.PWD
    BY <1>8, EnvAfter DEF SetEnvFails
  <2>2. QED
    BY <1>8, <2>1 DEF SetEnvFails, Return, dirVars, OneEach, Exists, Known, PwdNamesCwd,
                      OldpwdNamesPrevious
<1>9. CASE (\E n \in Numbers \cup {0} : Exit(n)) \/ (\E text \in Prompts : Prompt(text))
  BY <1>9 DEF Exit, Prompt, dirVars, cdVars, ghosts, OneEach, Exists, Known, PwdNamesCwd,
              OldpwdNamesPrevious
<1>10. CASE UNCHANGED vars
  BY <1>10 DEF vars, dirVars, cdVars, ghosts, OneEach, Exists, Known, PwdNamesCwd,
               OldpwdNamesPrevious
<1>11. QED
  BY <1>1, <1>2, <1>3, <1>4, <1>5, <1>6, <1>7, <1>8, <1>9, <1>10
     DEF Next, Cd, CdFails, Other

LEMMA CdInvariant == Spec => []CdInv
  BY InitCdInv, StepCdInv, TypeCorrect, PTL DEF Spec

\* PWD names the working directory (run_cd).
THEOREM PwdCorrect == Spec => []PwdNamesCwd
  BY CdInvariant, PTL DEF CdInv

\* OLDPWD names the directory the last cd that succeeded has left, whatever PWD
\* said when it began (run_cd).
THEOREM OldpwdCorrect == Spec => []OldpwdNamesPrevious
  BY CdInvariant, PTL DEF CdInv

\* `cd -` goes back, whatever failed in between and whatever became of the other
\* directories (run_cd).
THEOREM DashCorrect == Spec => DashGoesBack
<1>1. TypeOk /\ CdInv /\ [Next]_vars =>
        [shouldPwd /\ inStep /\ prev \notin moved /\ pc = "chdir" /\ pc' = "print"
          => cwd' = prev]_vars
  <2> SUFFICES ASSUME TypeOk, CdInv, [Next]_vars, shouldPwd, inStep, prev \notin moved,
                      pc = "chdir", pc' = "print"
               PROVE  cwd' = prev
    OBVIOUS
  <2>1. Chdir
    <3>1. pc' = "print" => ~UNCHANGED pc
      OBVIOUS
    <3>2. QED
      BY <3>1 DEF Next, Cd, CdFails, Other, Begin, BeginFails, Chdir, ChdirFails, PrintDir,
                  GetCwd, LateFailure, SetEnv, SetEnvFails, Return, Move, Exit, Prompt,
                  vars, cdVars
  <2>2. dir = path[prev] /\ dir \in Names /\ prev \in Dirs
    BY NamesAssumption DEF CdInv, Known, OldpwdNamesPrevious, Settled, TypeOk, Text
  <2>3. cwd' \in {d \in Dirs : path[d] = dir}
    BY <2>1, <2>2, NamesAssumption DEF Chdir, Target
  <2>4. QED
    BY <2>2, <2>3, NamesAssumption DEF CdInv, OneEach, Exists
<1>2. QED
  BY <1>1, TypeCorrect, CdInvariant, PTL DEF Spec, DashGoesBack

=============================================================================
