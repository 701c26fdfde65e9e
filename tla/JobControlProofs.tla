------------------------- MODULE JobControlProofs -------------------------
(***************************************************************************)
(* Proofs about JobControl, for any lines, any bounds and any environment; *)
(* at the end, that it implements JobContract.                             *)
(***************************************************************************)
EXTENDS JobControl, FiniteSetTheorems, TLAPS

\* The indices of run_cmd_line and run_job_desc are in range while they are
\* used, and fork() has happened before setpgid.
Frame ==
    /\ InJob => line \in Lines /\ jobIdx \in 1 .. Len(line)
    /\ pc \in {"cmds", "setpgid"} => cmdIdx \in 1 .. Len(line[jobIdx].cmds)
    /\ pc = "setpgid" => nextPid > 2
    /\ pc = "jobs" => line \in Lines
    /\ pidsCount = 0 <=> pgid = 0
    /\ pc = "tcset" => pgid # 0

TypeInv == TypeOk /\ Frame

LEMMA LineJobs ==
    ASSUME NEW l \in Lines
    PROVE  /\ l \in Seq(Jobs) /\ Len(l) \in Nat
           /\ \A i \in 1 .. Len(l) :
                 /\ l[i].type \in JobTypes
                 /\ l[i].cmds \in Seq(Commands)
                 /\ Len(l[i].cmds) \in Nat \ {0}
                 /\ \A k \in 1 .. Len(l[i].cmds) : l[i].cmds[k] \in Commands
<1>1. l \in Seq(Jobs) /\ \A i \in 1 .. Len(l) : l[i].cmds # <<>>
  BY LinesAssumption
<1>2. Len(l) \in Nat
  BY <1>1
<1>3. ASSUME NEW i \in 1 .. Len(l)
      PROVE  /\ l[i].type \in JobTypes
             /\ l[i].cmds \in Seq(Commands)
             /\ Len(l[i].cmds) \in Nat \ {0}
             /\ \A k \in 1 .. Len(l[i].cmds) : l[i].cmds[k] \in Commands
  <2>1. l[i] \in Jobs
    BY <1>1
  <2>2. l[i].type \in JobTypes /\ l[i].cmds \in Seq(Commands)
    BY <2>1 DEF Jobs
  <2>3. l[i].cmds # <<>>
    BY <1>1
  <2> QED
    BY <2>2, <2>3
<1> QED
  BY <1>1, <1>2, <1>3

LEMMA TypeInit == Init => TypeInv
<1> SUFFICES ASSUME Init PROVE TypeOk /\ Frame
  BY DEF TypeInv
<1> USE DEF Init
<1>1. /\ pc \in PCs /\ lines \in 0 .. MaxLines /\ line \in Lines \cup {<<>>}
      /\ jobIdx \in Nat \ {0} /\ cmdIdx \in Nat \ {0}
      /\ pidsCount \in Nat /\ pgid \in Pids \cup {0} /\ waitSuccesses \in Nat
      /\ serial \in Nat /\ stops \in Nat
  BY BoundsAssumption DEF PCs
<1>2. /\ ttyPgrp \in Pids \cup {ShellPid} /\ nextPid \in 2 .. MaxPid + 1
      /\ execd \subseteq Pids /\ unreported \subseteq Pids
      /\ everStopped \subseteq Pids
  BY BoundsAssumption
<1>3. /\ st \in [Pids -> ProcStates] /\ pgrp \in [Pids -> Pids \cup {ShellPid}]
      /\ prog \in [Pids -> Commands] /\ owner \in [Pids -> Nat]
  BY DEF ProcStates, Commands
<1>4. /\ shouldExit \in BOOLEAN /\ blocked \in BOOLEAN /\ pending \in BOOLEAN
      /\ inHandler \in BOOLEAN
  OBVIOUS
<1>5. Frame
  BY DEF Frame, InJob
<1> QED
  BY <1>1, <1>2, <1>3, <1>4, <1>5 DEF TypeOk

LEMMA TypeNext == TypeInv /\ [Next]_vars => TypeInv'
<1> SUFFICES ASSUME TypeInv, [Next]_vars PROVE TypeInv'
  OBVIOUS
<1> USE BoundsAssumption DEF TypeInv, TypeOk, Frame, InJob, PCs, ProcStates
<1>1. CASE ReadLine
  BY <1>1 DEF ReadLine, sigVars, procVars, histVars
<1>2. CASE StartJob
  BY <1>2, LineJobs DEF StartJob, procVars, JobMask
<1>3. CASE RunBuiltinFg
  BY <1>3, LineJobs DEF RunBuiltinFg, sigVars, procVars, histVars, AfterCmd,
     AfterCmds, NextCmd, CurJob, LastCmd
<1>4. CASE Fork
  <2>1. CurCmd \in Commands
    BY <1>4, LineJobs DEF Fork, CurCmd, CurJob
  <2>2. /\ st' \in [Pids -> ProcStates] /\ prog' \in [Pids -> Commands]
        /\ owner' \in [Pids -> Nat]
    BY <1>4, <2>1 DEF Fork
  <2>3. nextPid' \in 2 .. MaxPid + 1 /\ nextPid' > 2
    BY <1>4 DEF Fork, Pids
  <2> QED
    BY <1>4, <2>2, <2>3 DEF Fork, sigVars
<1>5. CASE SpawnFails
  BY <1>5 DEF SpawnFails, PgidAfterFailure, sigVars, procVars, histVars,
     AfterCmds
<1>6. CASE SetPgid
  <2>1. nextPid - 1 \in Pids
    BY <1>6 DEF SetPgid, Pids
  <2>2. pgid' \in Pids /\ pgrp' \in [Pids -> Pids \cup {ShellPid}]
    BY <1>6, <2>1 DEF SetPgid
  <2>3. pidsCount' \in Nat \ {0} /\ pgid' # 0
    BY <1>6, <2>2 DEF SetPgid, Pids
  <2>4. /\ pc' \in PCs
        /\ cmdIdx' \in Nat \ {0}
        /\ pc' = "cmds" => cmdIdx' \in 1 .. Len(line[jobIdx].cmds)
        /\ pc' \in {"cmds", "tcset", "unblock"}
    BY <1>6, LineJobs DEF SetPgid, AfterCmd, AfterCmds, NextCmd, CurJob,
       LastCmd
  <2>5. TypeOk'
    BY <1>6, <2>2, <2>3, <2>4 DEF SetPgid, sigVars, histVars
  <2>6. Frame'
    BY <1>6, <2>2, <2>3, <2>4 DEF SetPgid
  <2> QED
    BY <2>5, <2>6
<1>7. CASE GiveTerminal
  BY <1>7 DEF GiveTerminal, sigVars, procVars, histVars
<1>8. CASE WaitChild
  BY <1>8 DEF WaitChild, sigVars, histVars, Waitable, Group, Unreaped
<1>9. CASE WaitEnds
  BY <1>9 DEF WaitEnds, sigVars, procVars, histVars
<1>10. CASE ReclaimTerminal
  BY <1>10 DEF ReclaimTerminal, TakeTerminal, sigVars, procVars, histVars
<1>11. CASE EndJob
  <2>x. jobIdx' \in Nat \ {0} /\ pc' \in PCs
    BY <1>11 DEF EndJob
  <2>y. blocked' \in BOOLEAN
    BY <1>11 DEF EndJob
  <2>1. TypeOk'
    BY <1>11, <2>x, <2>y DEF EndJob, procVars, histVars
  <2>2. Frame'
    BY <1>11 DEF EndJob
  <2> QED
    BY <2>1, <2>2
<1>12. CASE EndLine
  BY <1>12 DEF EndLine, MainLoop, sigVars, procVars, histVars
<1>13. CASE Handler
  <2>1. CASE EnterHandler
    BY <2>1 DEF EnterHandler, shellVars, sigVars, procVars, histVars
  <2>2. CASE HandlerReap
    BY <2>2 DEF HandlerReap, Zombies, shellVars, sigVars, procVars, histVars
  <2>3. CASE HandlerReturn
    <3>1. inHandler' \in BOOLEAN /\ UNCHANGED <<blocked, pending, ttyPgrp>>
          /\ UNCHANGED <<shellVars, procVars, histVars>>
      BY <2>3 DEF HandlerReturn
    <3>2. TypeOk'
      BY <3>1 DEF shellVars, procVars, histVars
    <3>3. Frame'
      BY <3>1 DEF shellVars, procVars
    <3> QED
      BY <3>2, <3>3
  <2> QED
    BY <1>13, <2>1, <2>2, <2>3 DEF Handler
<1>14. ASSUME NEW p \in Pids, Child(p)
       PROVE  TypeInv'
  <2>1. CASE ChildExec(p)
    BY <2>1 DEF ChildExec, shellVars, sigVars, histVars
  <2>2. CASE ChildExit(p)
    BY <2>2 DEF ChildExit, shellVars, histVars
  <2>3. CASE BackgroundRead(p)
    BY <2>3 DEF BackgroundRead, StopSome, shellVars, Group, Unreaped, Active
  <2>4. CASE Continue(p)
    BY <2>4 DEF Continue, shellVars, histVars
  <2> QED
    BY <1>14, <2>1, <2>2, <2>3, <2>4 DEF Child
<1>15. CASE TerminalStop
  BY <1>15 DEF TerminalStop, StopSome, shellVars, sigVars, procVars,
     histVars, Group, Unreaped, Active
<1>16. CASE Quiet \/ UNCHANGED vars
  <2>1. UNCHANGED <<shellVars, sigVars, ttyPgrp, procVars, histVars>>
    BY <1>16 DEF Quiet, vars
  <2>2. TypeOk'
    BY <2>1 DEF shellVars, sigVars, procVars, histVars
  <2>3. Frame'
    BY <2>1 DEF shellVars, procVars
  <2> QED
    BY <2>2, <2>3
<1> QED
  BY <1>1, <1>2, <1>3, <1>4, <1>5, <1>6, <1>7, <1>8, <1>9, <1>10, <1>11,
     <1>12, <1>13, <1>14, <1>15, <1>16 DEF Next, RunShell

\* Every variable keeps its type.
THEOREM TypeCorrect == Spec => []TypeOk
<1>1. Spec => []TypeInv
  BY TypeInit, TypeNext, PTL DEF Spec
<1> QED
  BY <1>1, PTL DEF TypeInv
-----------------------------------------------------------------------------
(* Safety in every environment. *)

\* SIGCHLD is blocked exactly while run_job_desc runs, and never in its handler.
MaskInv == (blocked <=> InJob) /\ (inHandler => ~blocked)

\* Process ids are handed out in order, and each process knows its job.
PidInv ==
    /\ \A p \in Pids : st[p] = "none" <=> p >= nextPid
    /\ \A p \in Pids : owner[p] <= serial
    /\ pc = "setpgid" => owner[nextPid - 1] = serial
    /\ InJob /\ pgid # 0 => pgid \in JobProcs

JobReaped == {p \in JobProcs : st[p] = "reaped"}

ReapInv ==
    /\ pc \in {"cmds", "setpgid", "tcset"} => waitSuccesses = 0
    /\ InJob => Cardinality(JobReaped) <= waitSuccesses

IInv == TypeInv /\ MaskInv /\ ShellOwnsTerminal /\ PidInv /\ ReapInv

LEMMA MaskNext == TypeInv /\ MaskInv /\ [Next]_vars => MaskInv'
<1> SUFFICES ASSUME TypeInv, MaskInv, [Next]_vars PROVE MaskInv'
  OBVIOUS
<1> USE DEF MaskInv, InJob, ShellRuns
<1>1. CASE ReadLine
  BY <1>1 DEF ReadLine, sigVars
<1>2. CASE RunShell
  BY <1>2 DEF RunShell, StartJob, JobMask, RunBuiltinFg, AfterCmd, AfterCmds,
     Fork, SpawnFails, PgidAfterFailure, SetPgid, GiveTerminal, WaitChild,
     WaitEnds, ReclaimTerminal, EndJob, EndLine, MainLoop, sigVars
<1>3. CASE Handler
  BY <1>3 DEF Handler, EnterHandler, HandlerReap, HandlerReturn, shellVars,
     sigVars
<1>4. CASE (\E p \in Pids : Child(p)) \/ TerminalStop \/ Quiet \/ UNCHANGED vars
  BY <1>4 DEF Child, ChildExec, ChildExit, BackgroundRead, StopSome, Continue,
     TerminalStop, Quiet, vars, shellVars, sigVars
<1> QED
  BY <1>1, <1>2, <1>3, <1>4 DEF Next

LEMMA TerminalNext ==
    TypeInv /\ ShellOwnsTerminal /\ [Next]_vars => ShellOwnsTerminal'
<1> SUFFICES ASSUME TypeInv, ShellOwnsTerminal, [Next]_vars
             PROVE  ShellOwnsTerminal'
  OBVIOUS
<1> USE DEF ShellOwnsTerminal
<1>1. CASE ReadLine
  BY <1>1 DEF ReadLine
<1>2. CASE RunShell
  BY <1>2 DEF RunShell, StartJob, RunBuiltinFg, AfterCmd, AfterCmds, Fork,
     SpawnFails, PgidAfterFailure, SetPgid, GiveTerminal, WaitChild, WaitEnds,
     ReclaimTerminal, TakeTerminal, EndJob, EndLine, MainLoop
<1>3. CASE Handler
  BY <1>3 DEF Handler, EnterHandler, HandlerReap, HandlerReturn, shellVars
<1>4. CASE (\E p \in Pids : Child(p)) \/ TerminalStop \/ Quiet \/ UNCHANGED vars
  BY <1>4 DEF Child, ChildExec, ChildExit, BackgroundRead, StopSome, Continue,
     TerminalStop, Quiet, vars, shellVars
<1> QED
  BY <1>1, <1>2, <1>3, <1>4 DEF Next

LEMMA PidNext == TypeInv /\ MaskInv /\ PidInv /\ [Next]_vars => PidInv'
<1> SUFFICES ASSUME TypeInv, MaskInv, PidInv, [Next]_vars PROVE PidInv'
  OBVIOUS
<1> USE DEF TypeInv, TypeOk, Frame, PidInv, InJob, JobProcs
<1>1. CASE ReadLine
  BY <1>1 DEF ReadLine, procVars, histVars
<1>2. CASE StartJob
  BY <1>2 DEF StartJob, procVars
<1>3. CASE RunBuiltinFg \/ SpawnFails
  BY <1>3 DEF RunBuiltinFg, SpawnFails, PgidAfterFailure, procVars, histVars,
     AfterCmd, AfterCmds
<1>4. CASE Fork
  BY <1>4 DEF Fork, Pids
<1>5. CASE SetPgid
  <2>1. /\ nextPid - 1 \in Pids /\ st[nextPid - 1] # "none"
        /\ owner[nextPid - 1] = serial
    <3>1. pc = "setpgid" /\ nextPid > 2 /\ nextPid \in 2 .. MaxPid + 1
      BY <1>5 DEF SetPgid
    <3>2. nextPid - 1 \in Pids /\ ~(nextPid - 1 >= nextPid)
      BY <3>1, BoundsAssumption DEF Pids
    <3> QED
      BY <3>1, <3>2
  <2>2. pgid' \in JobProcs
    BY <1>5, <2>1 DEF SetPgid
  <2>3. JobProcs' = JobProcs /\ pc' # "setpgid"
    BY <1>5 DEF SetPgid, histVars, AfterCmd, AfterCmds
  <2> QED
    BY <1>5, <2>2, <2>3 DEF SetPgid, histVars
<1>6. CASE GiveTerminal \/ WaitEnds \/ ReclaimTerminal \/ EndJob \/ EndLine
  BY <1>6 DEF GiveTerminal, WaitEnds, ReclaimTerminal, EndJob, EndLine,
     MainLoop, procVars, histVars
<1>7. CASE WaitChild
  BY <1>7 DEF WaitChild, histVars
<1>8. CASE Handler
  BY <1>8 DEF Handler, EnterHandler, HandlerReap, HandlerReturn, Zombies,
     shellVars, procVars, histVars
<1>9. ASSUME NEW p \in Pids, Child(p)
      PROVE  PidInv'
  <2>1. CASE ChildExec(p)
    BY <2>1 DEF ChildExec, shellVars, histVars
  <2>2. CASE ChildExit(p)
    BY <2>2 DEF ChildExit, shellVars, histVars, Alive
  <2>3. CASE BackgroundRead(p)
    BY <2>3 DEF BackgroundRead, StopSome, shellVars, Group, Unreaped, Active
  <2>4. CASE Continue(p)
    BY <2>4 DEF Continue, shellVars, histVars
  <2> QED
    BY <1>9, <2>1, <2>2, <2>3, <2>4 DEF Child
<1>10. CASE TerminalStop
  BY <1>10 DEF TerminalStop, StopSome, shellVars, Group, Unreaped, Active
<1>11. CASE Quiet \/ UNCHANGED vars
  BY <1>11 DEF Quiet, vars, shellVars, procVars, histVars
<1> QED
  BY <1>1, <1>2, <1>3, <1>4, <1>5, <1>6, <1>7, <1>8, <1>9, <1>10, <1>11
     DEF Next, RunShell

LEMMA PidsFinite == \A S : S \subseteq Pids => IsFiniteSet(S)
<1>1. 2 \in Int /\ MaxPid \in Int
  BY BoundsAssumption
<1>2. IsFiniteSet(Pids)
  BY <1>1, FS_Interval DEF Pids
<1> QED
  BY <1>2, FS_Subset

LEMMA ReapNext ==
    TypeInv /\ MaskInv /\ PidInv /\ ReapInv /\ [Next]_vars => ReapInv'
<1> SUFFICES ASSUME TypeInv, MaskInv, PidInv, ReapInv, [Next]_vars
             PROVE  ReapInv'
  OBVIOUS
<1> USE DEF TypeInv, TypeOk, ReapInv, InJob
<1>0. IsFiniteSet(JobReaped) /\ Cardinality(JobReaped) \in Nat
  BY PidsFinite, FS_CardinalityType DEF JobReaped, JobProcs
\* It is enough that the set of reaped children of the job stays as it is,
\* and so do pc and wait_successes as far as the invariant looks at them.
<1>a. ASSUME InJob' => InJob /\ JobReaped' = JobReaped,
             waitSuccesses' = waitSuccesses,
             pc' \in {"cmds", "setpgid", "tcset"} =>
                pc \in {"cmds", "setpgid", "tcset"}
      PROVE  ReapInv'
  BY <1>a
<1>1. CASE ReadLine
  BY <1>1 DEF ReadLine
<1>2. CASE StartJob
  <2>1. JobReaped' = {}
    BY <1>2 DEF StartJob, procVars, JobReaped, JobProcs, PidInv
  <2> QED
    BY <1>2, <2>1, FS_EmptySet DEF StartJob
<1>3. CASE Fork
  <2>1. JobReaped' = JobReaped
    BY <1>3 DEF Fork, JobReaped, JobProcs, PidInv
  <2> QED
    BY <1>3, <1>a, <2>1 DEF Fork
<1>4. CASE \/ RunBuiltinFg \/ SpawnFails \/ SetPgid \/ GiveTerminal
           \/ WaitEnds \/ ReclaimTerminal \/ EndJob \/ EndLine
  <2>1. JobReaped' = JobReaped
    BY <1>4 DEF RunBuiltinFg, SpawnFails, PgidAfterFailure, SetPgid,
       GiveTerminal, WaitEnds, ReclaimTerminal, EndJob, EndLine, procVars,
       histVars, JobReaped, JobProcs
  <2> QED
    BY <1>4, <1>a, <2>1 DEF RunBuiltinFg, SpawnFails, PgidAfterFailure,
       SetPgid, GiveTerminal, WaitEnds, ReclaimTerminal, EndJob, EndLine,
       AfterCmd, AfterCmds, MainLoop
<1>5. CASE WaitChild
  <2>1. PICK p \in Waitable :
           st' = IF st[p] = "zombie" THEN [st EXCEPT ![p] = "reaped"] ELSE st
    BY <1>5 DEF WaitChild
  <2>2. JobReaped' \subseteq JobReaped \cup {p}
    BY <1>5, <2>1 DEF WaitChild, histVars, JobReaped, JobProcs, Waitable,
       Group, Unreaped
  <2>3. /\ IsFiniteSet(JobReaped \cup {p})
        /\ Cardinality(JobReaped \cup {p}) <= Cardinality(JobReaped) + 1
    <3>1. Cardinality(JobReaped \cup {p}) =
             IF p \in JobReaped THEN Cardinality(JobReaped)
                                ELSE Cardinality(JobReaped) + 1
      BY <1>0, FS_AddElement, Zenon
    <3>2. IsFiniteSet(JobReaped \cup {p})
      BY <1>0, FS_AddElement, Zenon
    <3> QED
      BY <1>0, <3>1, <3>2
  <2>4. Cardinality(JobReaped') <= Cardinality(JobReaped \cup {p})
    BY <2>2, <2>3, FS_Subset
  <2>5. /\ Cardinality(JobReaped') \in Nat
        /\ Cardinality(JobReaped \cup {p}) \in Nat
    BY <2>2, <2>3, FS_Subset, FS_CardinalityType
  <2>6. Cardinality(JobReaped) <= waitSuccesses
    BY <1>5 DEF WaitChild
  <2> QED
    BY <1>5, <1>0, <2>3, <2>4, <2>5, <2>6 DEF WaitChild
<1>6. CASE EnterHandler \/ HandlerReturn
  <2>1. JobReaped' = JobReaped
    BY <1>6 DEF EnterHandler, HandlerReturn, procVars, histVars, JobReaped,
       JobProcs
  <2> QED
    BY <1>6, <1>a, <2>1 DEF EnterHandler, HandlerReturn, shellVars
<1>7. CASE HandlerReap
  BY <1>7 DEF HandlerReap, shellVars, MaskInv
<1>8. CASE (\E p \in Pids : Child(p)) \/ TerminalStop
  <2>1. JobReaped' = JobReaped
    <3>1. ASSUME NEW p \in Pids, ChildExec(p) \/ ChildExit(p) \/ Continue(p)
          PROVE  JobReaped' = JobReaped
      BY <3>1 DEF ChildExec, ChildExit, Continue, histVars, JobReaped,
         JobProcs, Alive
    <3>2. ASSUME NEW g, StopSome(g)
          PROVE  JobReaped' = JobReaped
      BY <3>2 DEF StopSome, JobReaped, JobProcs, Group, Unreaped, Active
    <3> QED
      BY <1>8, <3>1, <3>2 DEF Child, BackgroundRead, TerminalStop
  <2>2. UNCHANGED shellVars
    BY <1>8 DEF Child, ChildExec, ChildExit, BackgroundRead, StopSome,
       Continue, TerminalStop
  <2> QED
    BY <1>a, <2>1, <2>2 DEF shellVars
<1>9. CASE Quiet \/ UNCHANGED vars
  <2>1. JobReaped' = JobReaped
    BY <1>9 DEF Quiet, vars, procVars, histVars, JobReaped, JobProcs
  <2> QED
    BY <1>9, <1>a, <2>1 DEF Quiet, vars, shellVars
<1> QED
  BY <1>1, <1>2, <1>3, <1>4, <1>5, <1>6, <1>7, <1>8, <1>9
     DEF Next, RunShell, Handler

LEMMA SafetyInit == Init => IInv
<1> SUFFICES ASSUME Init PROVE IInv
  OBVIOUS
<1>1. TypeInv
  BY TypeInit
<1>2. MaskInv /\ ShellOwnsTerminal /\ ReapInv
  BY DEF Init, MaskInv, ShellOwnsTerminal, ReapInv, InJob
<1>3. PidInv
  BY DEF Init, PidInv, InJob, Pids
<1> QED
  BY <1>1, <1>2, <1>3 DEF IInv

LEMMA SafetyInvariant == Spec => []IInv
BY SafetyInit, TypeNext, MaskNext, TerminalNext, PidNext, ReapNext, PTL
   DEF Spec, IInv

\* Outside a foreground job's wait the terminal is the shell's, in every
\* environment: the shell is never stopped by its own terminal calls.
THEOREM TerminalCorrect == Spec => []ShellOwnsTerminal
BY SafetyInvariant, PTL DEF IInv

\* The SIGCHLD handler never takes a child from the job being run: it is the
\* mask around run_job_desc that gives waitid its children.
THEOREM WaitCorrect == Spec => []ReapedByWait
<1>1. IInv => ReapedByWait
  BY DEF IInv, ReapInv, ReapedByWait, JobReaped
<1> QED
  BY <1>1, SafetyInvariant, PTL

LEMMA IInvGroup == IInv => GroupOutlivesLeader
<1> SUFFICES ASSUME IInv, pc \in {"cmds", "setpgid"}, pgid # 0,
                    pgrp[pgid] = pgid
             PROVE  Group(pgid) # {}
  BY DEF GroupOutlivesLeader
<1>1. pgid \in JobProcs
  BY DEF IInv, PidInv, InJob
<1>2. IsFiniteSet(JobReaped) /\ Cardinality(JobReaped) <= 0
  BY PidsFinite DEF IInv, ReapInv, InJob, JobReaped, JobProcs
<1>3. JobReaped = {}
  BY <1>2, FS_CardinalityType, FS_EmptySet
<1>4. pgid \in Group(pgid)
  BY <1>1, <1>3 DEF JobReaped, JobProcs, Group, Unreaped
<1> QED
  BY <1>4

\* A later command of a pipeline always finds the group it is to join, however
\* early the group's leader has ended.
THEOREM GroupCorrect == Spec => []GroupOutlivesLeader
BY IInvGroup, SafetyInvariant, PTL

-----------------------------------------------------------------------------
(* What the wait of a foreground job waits for, in every environment.        *)

\* The child that has been forked but not yet counted.
Uncounted == IF pc = "setpgid" THEN {nextPid - 1} ELSE {}

\* A group other than the shell's is named after a process and holds processes
\* of one job only.
OwnGroupInv ==
    \A p \in Pids : pgrp[p] # ShellPid =>
        /\ pgrp[p] \in Pids /\ st[pgrp[p]] # "none"
        /\ owner[p] = owner[pgrp[p]]

\* A process of the job is in the job's group, or still in the shell's.
GroupInv ==
    /\ \A p \in Pids : st[p] = "none" =>
          pgrp[p] = ShellPid /\ p \notin everStopped
    /\ InJob => \A p \in JobProcs : pgrp[p] \in {ShellPid, pgid}

\* everStopped remembers every stop that has not been reported or continued.
StopInv == \A p \in Pids : st[p] = "stopped" \/ p \in unreported
                              => p \in everStopped

NeverStopped == everStopped \cap JobProcs = {}

\* pids_count counts the children, and as long as none was stopped
\* wait_successes counts the reaped ones.
CountInv ==
    InJob => /\ Cardinality(JobProcs \ Uncounted) = pidsCount
             /\ NeverStopped => Cardinality(JobReaped) = waitSuccesses

DoneInv == pc \in {"tcback", "unblock"} /\ Fg /\ NeverStopped =>
              \A p \in JobProcs : st[p] = "reaped" \/ pgrp[p] = ShellPid

WInv == IInv /\ OwnGroupInv /\ GroupInv /\ StopInv /\ CountInv /\ DoneInv

\* Steps that leave the processes and the shell's place in the job alone.
LEMMA GroupSame ==
    ASSUME GroupInv, OwnGroupInv,
           InJob' => InJob /\ pgid' = pgid,
           pgrp' = pgrp, owner' = owner, serial' = serial,
           \A p \in everStopped' : p \in everStopped \/ st[p] # "none",
           \A p \in Pids : st'[p] = "none" <=> st[p] = "none"
    PROVE  GroupInv' /\ OwnGroupInv'
<1>1. JobProcs' = JobProcs
  BY DEF JobProcs
<1> QED
  BY <1>1 DEF GroupInv, OwnGroupInv

LEMMA GroupNext ==
    ASSUME IInv, GroupInv, OwnGroupInv, [Next]_vars
    PROVE  GroupInv' /\ OwnGroupInv'
<1> USE DEF IInv, TypeInv, TypeOk, Frame
<1>1. CASE ReadLine
  BY <1>1, GroupSame DEF ReadLine, procVars, histVars, InJob
<1>2. CASE StartJob
  <2>1. JobProcs' = {}
    BY <1>2 DEF StartJob, procVars, JobProcs, PidInv
  <2> QED
    BY <1>2, <2>1 DEF StartJob, procVars, GroupInv, OwnGroupInv
<1>3. CASE Fork
  <2>1. nextPid \in Pids /\ st[nextPid] = "none" /\ InJob
    BY <1>3 DEF Fork, PidInv, Pids, InJob
  <2>2. JobProcs' \subseteq JobProcs \cup {nextPid}
    BY <1>3 DEF Fork, JobProcs
  <2>3. pgrp[nextPid] = ShellPid
    BY <2>1 DEF GroupInv
  <2>4. UNCHANGED <<pgid, pgrp, everStopped>>
    BY <1>3 DEF Fork
  <2>5. \A p \in Pids : st'[p] = "none" => st[p] = "none"
    BY <1>3 DEF Fork
  <2>6. GroupInv'
    BY <2>1, <2>2, <2>3, <2>4, <2>5 DEF GroupInv
  <2>7. \A p \in Pids : pgrp[p] # nextPid
    BY <2>1, <2>3 DEF OwnGroupInv, ShellPid, Pids
  <2> QED
    BY <1>3, <2>3, <2>6, <2>7 DEF Fork, OwnGroupInv
<1>4. CASE SetPgid
  <2> DEFINE p == nextPid - 1
             g == IF pgid = 0 THEN p ELSE pgid
  <2>1. pc = "setpgid" /\ InJob /\ p \in JobProcs
    <3>1. pc = "setpgid" /\ nextPid > 2 /\ nextPid \in 2 .. MaxPid + 1
      BY <1>4 DEF SetPgid
    <3>2. p \in Pids /\ ~(p >= nextPid)
      BY <3>1, BoundsAssumption DEF Pids
    <3> QED
      BY <3>1, <3>2 DEF PidInv, InJob, JobProcs
  <2>2. g \in JobProcs
    BY <2>1 DEF PidInv
  <2>3. /\ pgid' = g
        /\ pgrp' = [pgrp EXCEPT ![p] = g] \/ pgrp' = pgrp
    BY <1>4 DEF SetPgid
  <2>4. /\ JobProcs' = JobProcs
        /\ UNCHANGED <<st, owner, serial, everStopped>>
    BY <1>4 DEF SetPgid, histVars, JobProcs
  <2>5. \A q \in JobProcs : pgrp[q] \in {ShellPid, g}
    BY <2>1 DEF GroupInv, JobProcs, Pids, ShellPid
  <2>6. \A q \in JobProcs : pgrp'[q] \in {ShellPid, g}
    BY <2>1, <2>3, <2>5 DEF JobProcs
  <2>7. \A q \in Pids : st[q] = "none" => pgrp'[q] = ShellPid
    BY <2>1, <2>3 DEF GroupInv, JobProcs
  <2>8. GroupInv'
    BY <2>3, <2>4, <2>6, <2>7 DEF GroupInv
  <2>9. OwnGroupInv'
    <3>1. /\ p \in Pids /\ owner[p] = serial
          /\ g \in Pids /\ st[g] # "none" /\ owner[g] = serial
      BY <2>1, <2>2 DEF JobProcs
    <3> HIDE DEF p, g
    <3>2. ASSUME NEW q \in Pids, pgrp'[q] # ShellPid
          PROVE  /\ pgrp'[q] \in Pids /\ st[pgrp'[q]] # "none"
                 /\ owner[q] = owner[pgrp'[q]]
      <4>1. (q = p /\ pgrp'[q] = g) \/ pgrp'[q] = pgrp[q]
        BY <2>3, <3>1
      <4>2. QED
        BY <3>1, <3>2, <4>1 DEF OwnGroupInv
    <3>3. QED
      BY <2>4, <3>2 DEF OwnGroupInv
  <2> QED
    BY <2>8, <2>9
<1>5. CASE \/ RunBuiltinFg \/ SpawnFails \/ GiveTerminal \/ WaitEnds
           \/ ReclaimTerminal \/ EndJob \/ EndLine
  <2>1. UNCHANGED <<procVars, histVars, pgid>>
    BY <1>5 DEF RunBuiltinFg, SpawnFails, PgidAfterFailure, GiveTerminal,
       WaitEnds, ReclaimTerminal, EndJob, EndLine
  <2>2. InJob' => InJob
    BY <1>5 DEF RunBuiltinFg, SpawnFails, PgidAfterFailure, GiveTerminal,
       WaitEnds, ReclaimTerminal, EndJob, EndLine, InJob, AfterCmd, AfterCmds,
       MainLoop
  <2> QED
    BY <2>1, <2>2, GroupSame DEF procVars, histVars
<1>6. CASE WaitChild
  <2>1. \A p \in Pids : st'[p] = "none" <=> st[p] = "none"
    BY <1>6 DEF WaitChild, Waitable, Group, Unreaped
  <2> QED
    BY <1>6, <2>1, GroupSame DEF WaitChild, histVars, InJob
<1>7. CASE Handler
  <2>1. \A p \in Pids : st'[p] = "none" <=> st[p] = "none"
    BY <1>7 DEF Handler, EnterHandler, HandlerReap, HandlerReturn, Zombies,
       procVars
  <2> QED
    BY <1>7, <2>1, GroupSame DEF Handler, EnterHandler, HandlerReap,
       HandlerReturn, shellVars, procVars, histVars, InJob
<1>8. CASE (\E p \in Pids : Child(p)) \/ TerminalStop
  <2>1. ASSUME NEW p \in Pids, ChildExec(p) \/ ChildExit(p) \/ Continue(p)
        PROVE  GroupInv' /\ OwnGroupInv'
    <3>1. \A q \in Pids : st'[q] = "none" <=> st[q] = "none"
      BY <2>1 DEF ChildExec, ChildExit, Continue, Alive
    <3> QED
      BY <2>1, <3>1, GroupSame DEF ChildExec, ChildExit, Continue, shellVars,
         histVars, InJob
  <2>2. ASSUME NEW g, StopSome(g)
        PROVE  GroupInv' /\ OwnGroupInv'
    <3>1. /\ \A q \in Pids : st'[q] = "none" <=> st[q] = "none"
          /\ \A q \in everStopped' : q \in everStopped \/ st[q] # "none"
      BY <2>2 DEF StopSome, Group, Unreaped, Active
    <3> QED
      BY <2>2, <3>1, GroupSame DEF StopSome, shellVars, InJob
  <2> QED
    BY <1>8, <2>1, <2>2 DEF Child, BackgroundRead, TerminalStop
<1>9. CASE Quiet \/ UNCHANGED vars
  BY <1>9, GroupSame DEF Quiet, vars, shellVars, procVars, histVars, InJob
<1> QED
  BY <1>1, <1>2, <1>3, <1>4, <1>5, <1>6, <1>7, <1>8, <1>9 DEF Next, RunShell

LEMMA StopNext == ASSUME IInv, StopInv, [Next]_vars PROVE StopInv'
<1> USE DEF IInv, TypeInv, TypeOk, StopInv
<1>1. CASE ReadLine
  BY <1>1 DEF ReadLine, procVars, histVars
<1>2. CASE WaitChild
  BY <1>2 DEF WaitChild, histVars
<1>3. CASE RunShell /\ ~WaitChild
  <2>1. /\ UNCHANGED <<unreported, everStopped>>
        /\ \A p \in Pids : st'[p] \in {st[p], "forked"}
    BY <1>3 DEF RunShell, StartJob, RunBuiltinFg, Fork, SpawnFails,
       PgidAfterFailure, SetPgid, GiveTerminal, WaitEnds, ReclaimTerminal,
       EndJob, EndLine, procVars, histVars
  <2> QED
    BY <2>1
<1>4. CASE Handler
  BY <1>4 DEF Handler, EnterHandler, HandlerReap, HandlerReturn, Zombies,
     procVars, histVars
<1>5. CASE (\E p \in Pids : Child(p)) \/ TerminalStop
  <2>1. ASSUME NEW p \in Pids, ChildExec(p) \/ ChildExit(p) \/ Continue(p)
        PROVE  StopInv'
    BY <2>1 DEF ChildExec, ChildExit, Continue, histVars
  <2>2. ASSUME NEW g, StopSome(g) PROVE StopInv'
    BY <2>2 DEF StopSome
  <2> QED
    BY <1>5, <2>1, <2>2 DEF Child, BackgroundRead, TerminalStop
<1>6. CASE Quiet \/ UNCHANGED vars
  BY <1>6 DEF Quiet, vars, procVars, histVars
<1> QED
  BY <1>1, <1>2, <1>3, <1>4, <1>5, <1>6 DEF Next

\* The job's processes are the same when the forked children are.
LEMMA JobSame ==
    ASSUME owner' = owner, serial' = serial,
           \A p \in Pids : st'[p] = "none" <=> st[p] = "none"
    PROVE  JobProcs' = JobProcs
BY DEF JobProcs

\* A step of the children or of the terminal leaves the job's processes and its
\* reaped ones alone, and what was stopped stays stopped.
LEMMA ChildStep ==
    ASSUME TypeInv,
           (\E p \in Pids : Child(p)) \/ TerminalStop \/ Quiet \/ UNCHANGED vars
    PROVE  /\ JobProcs' = JobProcs /\ JobReaped' = JobReaped
           /\ NeverStopped' => NeverStopped
           /\ \A p \in Pids : st[p] = "reaped" => st'[p] = "reaped"
           /\ UNCHANGED <<shellVars, nextPid, pgrp>>
<1> USE DEF TypeInv, TypeOk, JobProcs, JobReaped, NeverStopped
<1>1. ASSUME NEW p \in Pids, ChildExec(p) \/ ChildExit(p) \/ Continue(p)
      PROVE  /\ JobProcs' = JobProcs /\ JobReaped' = JobReaped
             /\ NeverStopped' => NeverStopped
             /\ \A q \in Pids : st[q] = "reaped" => st'[q] = "reaped"
             /\ UNCHANGED <<shellVars, nextPid, pgrp>>
  BY <1>1 DEF ChildExec, ChildExit, Continue, Alive, histVars
<1>2. ASSUME NEW g, StopSome(g)
      PROVE  /\ JobProcs' = JobProcs /\ JobReaped' = JobReaped
             /\ NeverStopped' => NeverStopped
             /\ \A q \in Pids : st[q] = "reaped" => st'[q] = "reaped"
             /\ UNCHANGED <<shellVars, nextPid, pgrp>>
  <2>1. /\ UNCHANGED <<shellVars, nextPid, pgrp>>
        /\ owner' = owner /\ serial' = serial
        /\ everStopped \subseteq everStopped'
    BY <1>2 DEF StopSome
  <2>2. \A q \in Pids : st'[q] = "none" <=> st[q] = "none"
    BY <1>2 DEF StopSome, Group, Unreaped, Active
  <2>3. \A q \in Pids : st'[q] = "reaped" <=> st[q] = "reaped"
    BY <1>2 DEF StopSome, Group, Unreaped, Active
  <2>4. JobProcs' = JobProcs
    BY <2>1, <2>2, JobSame
  <2>5. JobReaped' = JobReaped /\ (NeverStopped' => NeverStopped)
    BY <2>1, <2>3, <2>4
  <2> QED
    BY <2>1, <2>3, <2>4, <2>5
<1>3. ASSUME Quiet \/ UNCHANGED vars
      PROVE  /\ JobProcs' = JobProcs /\ JobReaped' = JobReaped
             /\ NeverStopped' => NeverStopped
             /\ \A q \in Pids : st[q] = "reaped" => st'[q] = "reaped"
             /\ UNCHANGED <<shellVars, nextPid, pgrp>>
  BY <1>3 DEF Quiet, vars, procVars, histVars
<1> QED
  BY <1>1, <1>2, <1>3 DEF Child, BackgroundRead, TerminalStop

\* Steps that keep the processes of the job, its reaped ones and the counters.
LEMMA CountSame ==
    ASSUME CountInv, InJob' => InJob,
           Uncounted' = Uncounted, JobProcs' = JobProcs,
           JobReaped' = JobReaped, NeverStopped' => NeverStopped,
           UNCHANGED <<pidsCount, waitSuccesses>>
    PROVE  CountInv'
BY DEF CountInv

\* What one successful waitid does to a job none of whose processes was stopped:
\* exactly one more of them is reaped.
LEMMA WaitStep ==
    ASSUME IInv, StopInv, OwnGroupInv, WaitChild
    PROVE  /\ JobProcs' = JobProcs /\ NeverStopped' = NeverStopped
           /\ NeverStopped =>
                 \E p : p \notin JobReaped /\ JobReaped' = JobReaped \cup {p}
<1> USE DEF IInv, TypeInv, TypeOk, Frame
<1>1. PICK p \in Waitable :
         st' = IF st[p] = "zombie" THEN [st EXCEPT ![p] = "reaped"] ELSE st
  BY DEF WaitChild
<1>2. p \in Pids /\ pgrp[p] = pgid /\ (st[p] = "zombie" \/ p \in unreported)
  BY DEF Waitable, Group, Unreaped
<1>3. pgid # 0 /\ InJob
  BY DEF WaitChild, WaitDone, InJob
<1>4. pgid \in JobProcs /\ pgid # ShellPid
  BY <1>3 DEF PidInv, JobProcs, Pids, ShellPid
<1>5. p \in JobProcs
  <2>1. st[p] # "none"
    BY DEF Waitable, Group, Unreaped
  <2> QED
    BY <1>2, <1>4, <2>1 DEF OwnGroupInv, JobProcs
<1>6. UNCHANGED <<owner, serial, everStopped>>
  BY DEF WaitChild, histVars
<1>7. JobProcs' = JobProcs
  BY <1>1, <1>2, <1>6 DEF JobProcs
<1>8. ASSUME NeverStopped
      PROVE  p \notin JobReaped /\ JobReaped' = JobReaped \cup {p}
  <2>1. st[p] = "zombie"
    BY <1>2, <1>5, <1>8 DEF StopInv, NeverStopped
  <2> QED
    BY <1>1, <1>2, <1>5, <1>7, <2>1 DEF JobReaped, JobProcs
<1> QED
  BY <1>6, <1>7, <1>8 DEF NeverStopped

LEMMA CountNext ==
    ASSUME IInv, GroupInv, OwnGroupInv, StopInv, CountInv, [Next]_vars
    PROVE  CountInv'
<1> USE DEF IInv, TypeInv, TypeOk, Frame
<1>0. /\ IsFiniteSet(JobReaped) /\ Cardinality(JobReaped) \in Nat
      /\ IsFiniteSet(JobProcs \ Uncounted)
      /\ Cardinality(JobProcs \ Uncounted) \in Nat
  BY PidsFinite, FS_CardinalityType DEF JobReaped, JobProcs
<1>1. CASE ReadLine
  BY <1>1 DEF ReadLine, CountInv, InJob
<1>2. CASE StartJob
  <2>1. JobProcs' = {}
    BY <1>2 DEF StartJob, procVars, JobProcs, PidInv
  <2>2. JobReaped' = {} /\ JobProcs' \ Uncounted' = {}
    BY <2>1 DEF JobReaped
  <2> QED
    BY <1>2, <2>2, FS_EmptySet DEF StartJob, CountInv
<1>3. CASE Fork
  <2>1. /\ nextPid \in Pids /\ st[nextPid] = "none"
        /\ nextPid' - 1 = nextPid
    BY <1>3 DEF Fork, PidInv, Pids
  <2>2. Uncounted' = {nextPid} /\ Uncounted = {} /\ InJob
    BY <1>3, <2>1 DEF Fork, Uncounted, InJob
  <2>3. JobProcs' = JobProcs \cup {nextPid} /\ nextPid \notin JobProcs
    BY <1>3, <2>1 DEF Fork, JobProcs
  <2>4. JobReaped' = JobReaped
    BY <1>3, <2>1 DEF Fork, JobReaped, JobProcs
  <2>5. JobProcs' \ Uncounted' = JobProcs \ Uncounted
    BY <2>2, <2>3
  <2>6. NeverStopped' => NeverStopped
    BY <1>3, <2>3 DEF Fork, NeverStopped
  <2> QED
    BY <1>3, <2>2, <2>4, <2>5, <2>6 DEF Fork, CountInv
<1>4. CASE SetPgid
  <2> DEFINE p == nextPid - 1
  <2>1. pc = "setpgid" /\ InJob /\ Uncounted = {p} /\ p \in JobProcs
    <3>1. pc = "setpgid" /\ nextPid > 2 /\ nextPid \in 2 .. MaxPid + 1
      BY <1>4 DEF SetPgid
    <3>2. p \in Pids /\ ~(p >= nextPid)
      BY <3>1, BoundsAssumption DEF Pids
    <3> QED
      BY <3>1, <3>2 DEF PidInv, Uncounted, InJob, JobProcs
  <2>2. /\ JobProcs' = JobProcs /\ Uncounted' = {} /\ JobReaped' = JobReaped
        /\ NeverStopped' = NeverStopped
    BY <1>4 DEF SetPgid, histVars, JobProcs, JobReaped, AfterCmd, AfterCmds,
       Uncounted, NeverStopped
  <2>3. JobProcs' \ Uncounted' = (JobProcs \ Uncounted) \cup {p}
    BY <2>1, <2>2
  <2>4. Cardinality(JobProcs' \ Uncounted') =
           Cardinality(JobProcs \ Uncounted) + 1
    <3>1. p \notin JobProcs \ Uncounted
      BY <2>1
    <3>2. Cardinality((JobProcs \ Uncounted) \cup {p}) =
             Cardinality(JobProcs \ Uncounted) + 1
      BY <1>0, <3>1, FS_AddElement, Zenon
    <3> QED
      BY <2>3, <3>2
  <2> QED
    BY <1>4, <2>1, <2>2, <2>4 DEF SetPgid, CountInv
<1>5. CASE \/ RunBuiltinFg \/ SpawnFails \/ GiveTerminal \/ WaitEnds
           \/ ReclaimTerminal \/ EndJob \/ EndLine
  <2>1. UNCHANGED <<procVars, histVars, pidsCount, waitSuccesses>>
    BY <1>5 DEF RunBuiltinFg, SpawnFails, PgidAfterFailure, GiveTerminal,
       WaitEnds, ReclaimTerminal, EndJob, EndLine
  <2>2. (InJob' => InJob) /\ Uncounted' = Uncounted
    BY <1>5 DEF RunBuiltinFg, SpawnFails, PgidAfterFailure, GiveTerminal,
       WaitEnds, ReclaimTerminal, EndJob, EndLine, InJob, Uncounted, AfterCmd,
       AfterCmds, MainLoop
  <2>3. /\ JobProcs' = JobProcs /\ JobReaped' = JobReaped
        /\ NeverStopped' = NeverStopped
    BY <2>1 DEF procVars, histVars, JobProcs, JobReaped, NeverStopped
  <2> QED
    BY <2>1, <2>2, <2>3, CountSame
<1>6. CASE WaitChild
  <2>1. JobProcs' \ Uncounted' = JobProcs \ Uncounted
    BY <1>6, WaitStep DEF WaitChild, Uncounted
  <2>2. ASSUME NeverStopped
        PROVE  Cardinality(JobReaped') = Cardinality(JobReaped) + 1
    <3>1. PICK p : p \notin JobReaped /\ JobReaped' = JobReaped \cup {p}
      BY <1>6, <2>2, WaitStep
    <3> QED
      BY <1>0, <3>1, FS_AddElement, Zenon
  <2>3. NeverStopped' = NeverStopped /\ InJob
    BY <1>6, WaitStep DEF WaitChild, InJob
  <2> QED
    BY <1>6, <2>1, <2>2, <2>3 DEF WaitChild, CountInv
<1>7. CASE EnterHandler \/ HandlerReturn
  <2>1. UNCHANGED <<shellVars, procVars, histVars>>
    BY <1>7 DEF EnterHandler, HandlerReturn
  <2> QED
    BY <2>1, CountSame DEF shellVars, procVars, histVars, JobProcs, JobReaped,
       InJob, Uncounted, NeverStopped
<1>8. CASE HandlerReap
  BY <1>8 DEF HandlerReap, shellVars, MaskInv, CountInv, InJob
<1>9. CASE \/ \E p \in Pids : Child(p)
           \/ TerminalStop \/ Quiet \/ UNCHANGED vars
  BY <1>9, ChildStep, CountSame DEF shellVars, InJob, Uncounted
<1> QED
  BY <1>1, <1>2, <1>3, <1>4, <1>5, <1>6, <1>7, <1>8, <1>9
     DEF Next, RunShell, Handler

LEMMA DoneNext ==
    ASSUME IInv, GroupInv, OwnGroupInv, StopInv, CountInv, DoneInv, [Next]_vars
    PROVE  DoneInv'
<1> USE DEF IInv, TypeInv, TypeOk, Frame
<1>0. IsFiniteSet(JobProcs) /\ JobReaped \subseteq JobProcs
  BY PidsFinite DEF JobReaped, JobProcs
<1>1. CASE ReadLine \/ StartJob \/ Fork \/ GiveTerminal \/ EndJob \/ EndLine
  BY <1>1 DEF ReadLine, StartJob, Fork, GiveTerminal, EndJob, EndLine,
     MainLoop, DoneInv
<1>2. CASE RunBuiltinFg \/ SpawnFails
  <2>1. /\ pc = "cmds" /\ UNCHANGED <<line, jobIdx, pidsCount>>
        /\ UNCHANGED <<procVars, histVars>>
        /\ pc' = "unblock" => ~Fg \/ ~(pidsCount > 0)
        /\ pc' # "tcback"
    BY <1>2 DEF RunBuiltinFg, SpawnFails, PgidAfterFailure, AfterCmd,
       AfterCmds
  <2>2. JobProcs' = JobProcs /\ Fg' = Fg
    BY <2>1 DEF procVars, histVars, JobProcs, Fg, CurJob
  \* A job none of whose commands was spawned has nothing to wait for.
  <2>3. ASSUME pc' = "unblock", Fg
        PROVE  JobProcs = {}
    <3>1. Cardinality(JobProcs) = 0
      BY <2>1, <2>3 DEF CountInv, Uncounted, InJob
    <3> QED
      BY <1>0, <3>1, FS_EmptySet
  <2> QED
    BY <2>1, <2>2, <2>3 DEF DoneInv
<1>3. CASE SetPgid
  <2>1. Fg' = Fg /\ pidsCount' > 0
    BY <1>3 DEF SetPgid, Fg, CurJob
  <2>2. (pc' = "unblock" => ~Fg) /\ pc' # "tcback"
    BY <1>3, <2>1 DEF SetPgid, AfterCmd, AfterCmds
  <2> QED
    BY <2>1, <2>2 DEF DoneInv
<1>4. CASE WaitChild
  BY <1>4 DEF WaitChild, DoneInv
<1>5. CASE WaitEnds
  <2>1. /\ pc = "wait" /\ InJob /\ Uncounted = {}
        /\ JobProcs' = JobProcs /\ NeverStopped' = NeverStopped
        /\ UNCHANGED <<st, pgrp>>
    BY <1>5 DEF WaitEnds, InJob, Uncounted, procVars, histVars, JobProcs,
       NeverStopped
  <2>2. CASE Group(pgid) = {}
    <3>1. \A p \in JobProcs : pgrp[p] \in {ShellPid, pgid}
      BY <2>1 DEF GroupInv
    <3>2. \A p \in JobProcs : st[p] = "reaped" \/ pgrp[p] = ShellPid
      BY <2>2, <3>1 DEF Group, Unreaped, JobProcs
    <3> QED
      BY <2>1, <3>2 DEF DoneInv
  <2>3. CASE WaitDone
    <3>1. ASSUME NeverStopped
          PROVE  JobProcs = JobReaped
      <4>1. Cardinality(JobReaped) >= Cardinality(JobProcs)
        BY <2>1, <2>3, <3>1 DEF WaitDone, CountInv
      <4>2. Cardinality(JobReaped) = Cardinality(JobProcs)
        BY <1>0, <4>1, FS_Subset, FS_CardinalityType
      <4> QED
        BY <1>0, <4>2, FS_Subset
    <3> QED
      BY <2>1, <3>1 DEF DoneInv, JobReaped
  <2> QED
    BY <1>5, <2>2, <2>3 DEF WaitEnds
<1>6. CASE ReclaimTerminal
  BY <1>6 DEF ReclaimTerminal, procVars, histVars, JobProcs, NeverStopped,
     DoneInv, Fg, CurJob
<1>7. CASE EnterHandler \/ HandlerReturn
  BY <1>7 DEF EnterHandler, HandlerReturn, shellVars, procVars, histVars,
     JobProcs, NeverStopped, DoneInv, Fg, CurJob
<1>8. CASE HandlerReap
  BY <1>8 DEF HandlerReap, shellVars, MaskInv, DoneInv, InJob
<1>9. CASE \/ \E p \in Pids : Child(p)
           \/ TerminalStop \/ Quiet \/ UNCHANGED vars
  BY <1>9, ChildStep DEF shellVars, DoneInv, Fg, CurJob, JobProcs
<1> QED
  BY <1>1, <1>2, <1>3, <1>4, <1>5, <1>6, <1>7, <1>8, <1>9
     DEF Next, RunShell, Handler

LEMMA WaitInvariantInit == Init => WInv
<1> SUFFICES ASSUME Init PROVE WInv
  OBVIOUS
<1>1. IInv
  BY SafetyInit
<1>2. OwnGroupInv /\ GroupInv /\ StopInv /\ CountInv /\ DoneInv
  BY DEF Init, OwnGroupInv, GroupInv, StopInv, CountInv, DoneInv, InJob
<1> QED
  BY <1>1, <1>2 DEF WInv

LEMMA WaitInvariantNext == WInv /\ [Next]_vars => WInv'
<1> SUFFICES ASSUME WInv, [Next]_vars PROVE WInv'
  OBVIOUS
<1>1. IInv'
  BY TypeNext, MaskNext, TerminalNext, PidNext, ReapNext DEF WInv, IInv
<1>2. GroupInv' /\ OwnGroupInv' /\ StopInv' /\ CountInv' /\ DoneInv'
  BY GroupNext, StopNext, CountNext, DoneNext DEF WInv
<1> QED
  BY <1>1, <1>2 DEF WInv

LEMMA WaitInvariant == Spec => []WInv
BY WaitInvariantInit, WaitInvariantNext, PTL DEF Spec

\* Whatever the environment, when run_job_desc goes on from a foreground job
\* each process of it is reaped, or was never moved out of the shell's group, or
\* one of them was stopped: nothing else ends the waitid loop early.
THEOREM UnfinishedCorrect == Spec => []UnfinishedOnlyIf
<1>1. WInv => UnfinishedOnlyIf
  BY DEF WInv, DoneInv, NeverStopped, UnfinishedOnlyIf
<1> QED
  BY <1>1, WaitInvariant, PTL

-----------------------------------------------------------------------------
(* The wait of a foreground job, when no child execs before the shell has    *)
(* called setpgid on it and none is stopped.                                 *)

Orderly == ExecRace = FALSE /\ Stops = {}

\* Every counted process of the job is in the job's group; the one between fork
\* and setpgid has not called exec, so that setpgid will succeed.
JoinInv ==
    /\ InJob => \A p \in JobProcs \ Uncounted : pgrp[p] # ShellPid
    /\ InJob /\ pgid # 0 => pgid \notin Uncounted
    /\ Uncounted \cap execd = {}
    /\ \A p \in Pids : st[p] = "none" => p \notin execd
    /\ everStopped = {}

LEMMA JoinNext == ASSUME Orderly, WInv, JoinInv, [Next]_vars PROVE JoinInv'
<1> USE DEF WInv, IInv, TypeInv, TypeOk, Frame
\* Steps that leave the processes and the shell's place in the job alone.
<1>a. ASSUME InJob' => InJob, Uncounted' = Uncounted,
             UNCHANGED <<pgid, pgrp, execd, histVars>>,
             \A p \in Pids : st'[p] = "none" <=> st[p] = "none"
      PROVE  JoinInv'
  BY <1>a DEF JoinInv, histVars, JobProcs
<1>1. CASE ReadLine
  BY <1>1, <1>a DEF ReadLine, procVars, InJob, Uncounted
<1>2. CASE StartJob
  <2>1. JobProcs' = {} /\ pgid' = 0 /\ Uncounted' = {}
    BY <1>2 DEF StartJob, procVars, JobProcs, PidInv, Uncounted
  <2> QED
    BY <1>2, <2>1 DEF StartJob, procVars, JoinInv
<1>3. CASE Fork
  <2>1. /\ nextPid \in Pids /\ st[nextPid] = "none"
        /\ nextPid' - 1 = nextPid
    BY <1>3 DEF Fork, PidInv, Pids
  <2>2. JobProcs' \subseteq JobProcs \cup {nextPid}
    BY <1>3 DEF Fork, JobProcs
  <2>3. Uncounted' = {nextPid} /\ Uncounted = {} /\ InJob
    BY <1>3, <2>1 DEF Fork, Uncounted, InJob
  <2>4. pgid # 0 => pgid # nextPid
    BY <2>1, <2>3 DEF PidInv, JobProcs
  <2>5. \A p \in Pids : st'[p] = "none" => st[p] = "none"
    BY <1>3 DEF Fork
  <2> QED
    BY <1>3, <2>1, <2>2, <2>3, <2>4, <2>5 DEF Fork, JoinInv
<1>4. CASE SetPgid
  <2> DEFINE p == nextPid - 1
             g == IF pgid = 0 THEN p ELSE pgid
  <2>1. /\ p \in JobProcs /\ p \notin execd /\ Uncounted = {p}
        /\ pc = "setpgid" /\ InJob
    <3>1. pc = "setpgid" /\ nextPid > 2 /\ nextPid \in 2 .. MaxPid + 1
      BY <1>4 DEF SetPgid
    <3>2. p \in Pids /\ ~(p >= nextPid)
      BY <3>1, BoundsAssumption DEF Pids
    <3> QED
      BY <3>1, <3>2 DEF PidInv, JoinInv, Uncounted, InJob, JobProcs
  <2>2. g \in JobProcs /\ g # ShellPid
    BY <2>1 DEF PidInv, JobProcs, Pids, ShellPid
  <2>3. SetPgidAllowed(p, g)
    <3>1. CASE pgid = 0
      BY <3>1, <2>1 DEF SetPgidAllowed
    <3>2. CASE pgid # 0
      <4>1. g = pgid /\ pgid \in JobProcs /\ pgrp[pgid] = pgid
        BY <3>2, <2>1, <2>2 DEF JoinInv, GroupInv
      <4>2. Group(pgid) # {}
        BY <4>1, <2>1, <3>2, IInvGroup DEF GroupOutlivesLeader
      <4> QED
        BY <4>1, <4>2, <2>1 DEF SetPgidAllowed
    <3> QED
      BY <3>1, <3>2
  <2>4. pgrp' = [pgrp EXCEPT ![p] = g] /\ pgid' = g
    BY <1>4, <2>3 DEF SetPgid
  <2>5. /\ JobProcs' = JobProcs /\ Uncounted' = {}
        /\ UNCHANGED <<st, execd, everStopped>>
    BY <1>4 DEF SetPgid, histVars, JobProcs, AfterCmd, AfterCmds, Uncounted
  <2>6. \A q \in JobProcs : pgrp'[q] # ShellPid
    BY <2>1, <2>2, <2>4 DEF JoinInv, JobProcs
  <2> QED
    BY <2>5, <2>6 DEF JoinInv
<1>5. CASE \/ RunBuiltinFg \/ SpawnFails \/ GiveTerminal \/ WaitEnds
           \/ ReclaimTerminal \/ EndJob \/ EndLine
  <2>1. UNCHANGED <<procVars, histVars, pgid>>
    BY <1>5 DEF RunBuiltinFg, SpawnFails, PgidAfterFailure, GiveTerminal,
       WaitEnds, ReclaimTerminal, EndJob, EndLine
  <2>2. (InJob' => InJob) /\ Uncounted' = Uncounted
    BY <1>5, <2>1 DEF RunBuiltinFg, SpawnFails, PgidAfterFailure,
       GiveTerminal, WaitEnds, ReclaimTerminal, EndJob, EndLine, InJob,
       Uncounted, AfterCmd, AfterCmds, MainLoop
  <2> QED
    BY <2>1, <2>2, <1>a DEF procVars
<1>6. CASE WaitChild
  <2>1. \A p \in Pids : st'[p] = "none" <=> st[p] = "none"
    BY <1>6 DEF WaitChild, Waitable, Group, Unreaped
  <2> QED
    BY <1>6, <2>1, <1>a DEF WaitChild, InJob, Uncounted
<1>7. CASE Handler
  <2>1. \A p \in Pids : st'[p] = "none" <=> st[p] = "none"
    BY <1>7 DEF Handler, EnterHandler, HandlerReap, HandlerReturn, Zombies,
       procVars
  <2> QED
    BY <1>7, <2>1, <1>a DEF Handler, EnterHandler, HandlerReap,
       HandlerReturn, shellVars, procVars, InJob, Uncounted
<1>8. ASSUME NEW p \in Pids, Child(p)
      PROVE  JoinInv'
  <2>1. CASE ChildExec(p)
    <3>1. p \notin Uncounted /\ st[p] # "none"
      BY <2>1 DEF ChildExec, Orderly, Uncounted
    <3>2. /\ \A q \in Pids : st'[q] = "none" <=> st[q] = "none"
          /\ execd' = execd \cup {p}
          /\ UNCHANGED <<shellVars, nextPid, pgrp, histVars>>
      BY <2>1 DEF ChildExec
    <3>3. JobProcs' = JobProcs /\ Uncounted' = Uncounted /\ InJob' = InJob
      BY <3>2 DEF JobProcs, Uncounted, InJob, histVars, shellVars
    <3> QED
      BY <3>1, <3>2, <3>3 DEF JoinInv, histVars, shellVars
  <2>2. CASE ChildExit(p) \/ Continue(p)
    <3>1. \A q \in Pids : st'[q] = "none" <=> st[q] = "none"
      BY <2>2 DEF ChildExit, Continue, Alive
    <3> QED
      BY <2>2, <3>1, <1>a DEF ChildExit, Continue, shellVars, InJob, Uncounted
  <2>3. CASE BackgroundRead(p)
    BY <2>3 DEF BackgroundRead, Orderly
  <2> QED
    BY <1>8, <2>1, <2>2, <2>3 DEF Child
<1>9. CASE TerminalStop
  BY <1>9 DEF TerminalStop, Orderly
<1>10. CASE Quiet \/ UNCHANGED vars
  BY <1>10, <1>a DEF Quiet, vars, shellVars, procVars, InJob, Uncounted
<1> QED
  BY <1>1, <1>2, <1>3, <1>4, <1>5, <1>6, <1>7, <1>8, <1>9, <1>10
     DEF Next, RunShell

\* In an orderly environment a foreground job has wholly ended when the shell
\* goes on: every process of it has been reaped by the shell's wait.
THEOREM ForegroundCorrect ==
    ASSUME Orderly PROVE Spec => []ForegroundJobFinished
<1>1. Init => WInv /\ JoinInv
  BY WaitInvariantInit DEF Init, JoinInv, InJob, Uncounted
<1>2. WInv /\ JoinInv /\ [Next]_vars => (WInv /\ JoinInv)'
  BY WaitInvariantNext, JoinNext
<1>3. WInv /\ JoinInv => ForegroundJobFinished
  BY DEF WInv, DoneInv, JoinInv, NeverStopped, ForegroundJobFinished, InJob,
     Uncounted
<1> QED
  BY <1>1, <1>2, <1>3, PTL DEF Spec

-----------------------------------------------------------------------------
(* The contract. *)

\* The abstract mode and terminal of JobControl!Contract.
Mode == IF pc = "exited" THEN "gone" ELSE IF InForeground THEN "fg" ELSE "ready"
Term == IF ttyPgrp = ShellPid THEN "shell" ELSE "job"

\* Only a foreground job is handed the terminal and waited for.
HandInv == pc \in {"tcset", "wait", "tcback"} => Fg

LEMMA HandNext == TypeInv /\ HandInv /\ [Next]_vars => HandInv'
<1> SUFFICES ASSUME TypeInv, HandInv, [Next]_vars PROVE HandInv'
  OBVIOUS
<1> USE DEF HandInv, Fg, CurJob
<1>1. CASE ReadLine
  BY <1>1 DEF ReadLine
<1>2. CASE RunShell
  BY <1>2 DEF RunShell, StartJob, RunBuiltinFg, AfterCmd, AfterCmds, Fork,
     SpawnFails, PgidAfterFailure, SetPgid, GiveTerminal, WaitChild, WaitEnds,
     ReclaimTerminal, EndJob, EndLine, MainLoop
<1>3. CASE Handler
  BY <1>3 DEF Handler, EnterHandler, HandlerReap, HandlerReturn, shellVars
<1>4. CASE (\E p \in Pids : Child(p)) \/ TerminalStop \/ Quiet \/ UNCHANGED vars
  BY <1>4, ChildStep DEF shellVars
<1> QED
  BY <1>1, <1>2, <1>3, <1>4 DEF Next

\* The processes of the contract: those that live, of which the foreground ones
\* are the members of the job's group while none of the job was stopped.
LEMMA ForegroundAlive ==
    /\ Foreground \subseteq Alive
    /\ Foreground \cup (Alive \ Foreground) = Alive
    /\ ~InForeground \/ ~NeverStopped => Foreground = {}
    /\ InForeground /\ NeverStopped => Foreground = Joined
BY DEF Foreground, Joined, NeverStopped

\* A step that changes none of what the contract sees.
LEMMA ContractStutter ==
    ASSUME UNCHANGED <<Mode, Foreground, Alive, Term>>
    PROVE  UNCHANGED Contract!cvars
BY DEF Contract!cvars, Mode, Term

LEMMA ForegroundSame ==
    ASSUME InForeground' = InForeground, JobProcs' = JobProcs,
           Alive' = Alive, NeverStopped' = NeverStopped, pgrp' = pgrp
    PROVE  Foreground' = Foreground
<1>1. Joined' = Joined
  BY DEF Joined
<1> QED
  BY <1>1 DEF Foreground, NeverStopped

\* When the shell takes the terminal back, or goes on, no process of the
\* foreground job lives in the job's group, unless one of the job was stopped.
LEMMA ForegroundOver ==
    ASSUME TypeInv, DoneInv, pc \in {"tcback", "unblock"}
    PROVE  Foreground = {}
<1>1. CASE InForeground /\ NeverStopped
  <2>1. \A p \in JobProcs : st[p] = "reaped" \/ pgrp[p] = ShellPid
    BY <1>1 DEF DoneInv, InForeground
  <2>2. Joined = {}
    BY <2>1 DEF Joined, Alive
  <2> QED
    BY <1>1, <2>2, ForegroundAlive
<1> QED
  BY <1>1, ForegroundAlive

-----------------------------------------------------------------------------
(* The steps of the shell. *)

LEMMA ContractShell ==
    ASSUME WInv, HandInv, ReadLine \/ RunShell
    PROVE  Contract!CNext \/ UNCHANGED Contract!cvars
<1> USE DEF WInv, IInv, TypeInv, TypeOk, Frame
\* Steps of the shell that leave the processes alone, inside a job.
<1>a. ASSUME InJob, InJob', UNCHANGED <<line, jobIdx, ttyPgrp, pgrp>>,
             owner' = owner, serial' = serial, everStopped' = everStopped,
             \A p \in Pids : st'[p] = "none" <=> st[p] = "none",
             Alive' = Alive
      PROVE  UNCHANGED Contract!cvars
  <2>1. JobProcs' = JobProcs
    BY <1>a, JobSame
  <2>2. InForeground /\ Fg <=> InForeground' /\ Fg'
    BY <1>a DEF InForeground, Fg, CurJob
  <2>3. InForeground' = InForeground
    BY <1>a DEF InForeground, Fg, CurJob
  <2>4. NeverStopped' = NeverStopped
    BY <1>a, <2>1 DEF NeverStopped
  <2>5. Foreground' = Foreground
    BY <1>a, <2>1, <2>3, <2>4, ForegroundSame
  <2>6. Mode' = Mode /\ Term' = Term
    BY <1>a, <2>3 DEF Mode, Term, InJob
  <2> QED
    BY <1>a, <2>5, <2>6, ContractStutter
<1>1. CASE ReadLine \/ EndLine
  <2>1. /\ ~InForeground /\ ~InForeground' /\ Alive' = Alive /\ Term' = Term
        /\ pc # "exited"
    BY <1>1 DEF ReadLine, EndLine, MainLoop, InForeground, InJob, procVars,
       Alive, Term
  <2>2. Foreground = {} /\ Foreground' = {}
    BY <2>1, ForegroundAlive DEF Foreground
  <2>3. Mode = "ready" /\ Mode' \in {"ready", "gone"}
    BY <2>1 DEF Mode
  <2>4. CASE Mode' = "ready"
    BY <2>1, <2>2, <2>3, <2>4, ContractStutter
  <2>5. CASE Mode' = "gone"
    <3>1. Contract!Leave
      BY <2>1, <2>2, <2>3, <2>5 DEF Contract!Leave, Mode, Term
    <3> QED
      BY <3>1 DEF Contract!CNext
  <2> QED
    BY <2>3, <2>4, <2>5
<1>2. CASE StartJob
  <2>1. /\ ~InForeground /\ pc = "jobs" /\ Alive' = Alive /\ Term' = Term
        /\ pc' = "cmds"
    BY <1>2 DEF StartJob, InForeground, InJob, procVars, Alive, Term
  <2>2. JobProcs' = {}
    BY <1>2 DEF StartJob, procVars, JobProcs, PidInv
  <2>3. Foreground = {} /\ Foreground' = {}
    BY <2>1, <2>2 DEF Foreground, Joined
  <2>4. Mode = "ready" /\ Mode' \in {"ready", "fg"}
    BY <2>1 DEF Mode
  <2>5. CASE Mode' = "ready"
    BY <2>1, <2>3, <2>4, <2>5, ContractStutter
  <2>6. CASE Mode' = "fg"
    <3>1. Contract!StartForeground
      BY <2>1, <2>3, <2>4, <2>6 DEF Contract!StartForeground, Mode, Term
    <3> QED
      BY <3>1 DEF Contract!CNext
  <2> QED
    BY <2>4, <2>5, <2>6
<1>3. CASE RunBuiltinFg \/ SpawnFails \/ WaitEnds
  <2>1. UNCHANGED <<line, jobIdx, ttyPgrp, procVars, histVars>>
    BY <1>3 DEF RunBuiltinFg, SpawnFails, PgidAfterFailure, WaitEnds
  <2>2. InJob /\ InJob'
    BY <1>3 DEF RunBuiltinFg, SpawnFails, PgidAfterFailure, WaitEnds, InJob,
       AfterCmd, AfterCmds
  <2>3. Alive' = Alive
    BY <2>1 DEF procVars, Alive
  <2> QED
    BY <2>1, <2>2, <2>3, <1>a DEF procVars, histVars
<1>4. CASE Fork
  <2> DEFINE p == nextPid
  <2>1. p \in Pids /\ st[p] = "none" /\ pgrp[p] = ShellPid /\ p \notin everStopped
    BY <1>4 DEF Fork, PidInv, GroupInv, Pids
  <2>2. /\ InForeground' = InForeground /\ Mode' = Mode /\ Mode # "gone"
        /\ Term = "shell" /\ Term' = "shell"
    BY <1>4 DEF Fork, InForeground, InJob, Fg, CurJob, Mode, Term,
       ShellOwnsTerminal
  <2>3. Alive' = Alive \cup {p} /\ p \notin Alive
    BY <1>4, <2>1 DEF Fork, Alive
  <2>4. JobProcs' = JobProcs \cup {p}
    BY <1>4, <2>1 DEF Fork, JobProcs
  <2>5. NeverStopped' = NeverStopped /\ Joined' = Joined
    BY <1>4, <2>1, <2>3, <2>4 DEF Fork, NeverStopped, Joined
  <2>6. Foreground' = Foreground
    BY <2>2, <2>5 DEF Foreground, NeverStopped
  <2>7. Contract!Start(p)
    BY <2>2, <2>3, <2>6, ForegroundAlive DEF Contract!Start, Mode, Term
  <2> QED
    BY <2>1, <2>7 DEF Contract!CNext
<1>5. CASE SetPgid
  <2> DEFINE p == nextPid - 1
  <2>1. p \in JobProcs
    <3>1. pc = "setpgid" /\ nextPid > 2 /\ nextPid \in 2 .. MaxPid + 1
      BY <1>5 DEF SetPgid
    <3>2. p \in Pids /\ ~(p >= nextPid)
      BY <3>1, BoundsAssumption DEF Pids
    <3> QED
      BY <3>1, <3>2 DEF PidInv, JobProcs
  <2>2. /\ InJob /\ InJob' /\ UNCHANGED <<line, jobIdx, ttyPgrp>>
        /\ owner' = owner /\ serial' = serial /\ everStopped' = everStopped
        /\ st' = st
    BY <1>5 DEF SetPgid, InJob, AfterCmd, AfterCmds, histVars
  <2>3. \A q \in Pids : q # p => pgrp'[q] = pgrp[q]
    BY <1>5 DEF SetPgid
  <2>4. pgrp' = pgrp \/ pgrp'[p] # ShellPid
    <3>1. (IF pgid = 0 THEN p ELSE pgid) # ShellPid
      BY <2>1 DEF JobProcs, Pids, ShellPid
    <3> QED
      BY <1>5, <2>1, <3>1 DEF SetPgid, JobProcs
  <2>5. Alive' = Alive
    BY <2>2 DEF Alive
  <2>6. CASE pgrp' = pgrp
    BY <2>2, <2>5, <2>6, <1>a
  <2>7. CASE pgrp'[p] # ShellPid
    <3>1. JobProcs' = JobProcs
      BY <2>2 DEF JobProcs
    <3>2. InForeground' = InForeground /\ NeverStopped' = NeverStopped
      BY <2>2, <3>1 DEF InForeground, Fg, CurJob, NeverStopped
    <3>3. Joined' = Joined \cup ({p} \cap Alive)
      BY <2>1, <2>3, <2>5, <2>7, <3>1 DEF Joined, JobProcs
    <3>4. Mode' = Mode /\ Term' = Term
      BY <2>2, <3>2 DEF Mode, Term, InJob
    <3>5. CASE Foreground' = Foreground
      BY <2>5, <3>4, <3>5, ContractStutter
    <3>6. CASE Foreground' # Foreground
      <4>1. InForeground /\ NeverStopped
        BY <3>2, <3>6 DEF Foreground, NeverStopped
      <4>2. Foreground = Joined /\ Foreground' = Joined'
        BY <3>2, <4>1 DEF Foreground, NeverStopped
      <4>3. p \in Alive \ Foreground /\ Foreground' = Foreground \cup {p}
        BY <3>3, <3>6, <4>2
      <4>4. Alive' \ Foreground' = (Alive \ Foreground) \ {p}
        BY <2>5, <4>3
      <4>5. Mode = "fg" /\ Term = "shell"
        BY <1>5, <4>1 DEF SetPgid, Mode, Term, ShellOwnsTerminal
      <4>6. Contract!Join(p)
        BY <3>4, <4>3, <4>4, <4>5 DEF Contract!Join, Mode, Term
      <4> QED
        BY <2>1, <4>6 DEF Contract!CNext, JobProcs
    <3> QED
      BY <3>5, <3>6
  <2> QED
    BY <2>4, <2>6, <2>7
<1>6. CASE GiveTerminal
  <2>1. UNCHANGED <<line, jobIdx, procVars, histVars>>
    BY <1>6 DEF GiveTerminal
  <2>2. InForeground /\ InForeground' /\ pc # "exited" /\ pc' # "exited"
    BY <1>6 DEF GiveTerminal, InForeground, InJob, HandInv, Fg, CurJob
  <2>3. JobProcs' = JobProcs /\ Alive' = Alive /\ NeverStopped' = NeverStopped
        /\ pgrp' = pgrp
    BY <2>1 DEF procVars, histVars, JobProcs, Alive, NeverStopped
  <2>4. Foreground' = Foreground /\ Mode = "fg" /\ Mode' = "fg"
    BY <2>2, <2>3, ForegroundSame DEF Mode
  <2>5. CASE Term' = Term
    BY <2>3, <2>4, <2>5, ContractStutter
  <2>6. CASE Term' # Term
    <3>1. Term = "shell" /\ Term' = "job"
      BY <1>6, <2>6 DEF GiveTerminal, Term, ShellOwnsTerminal
    <3>2. Contract!HandOver
      BY <2>3, <2>4, <3>1 DEF Contract!HandOver, Mode, Term
    <3> QED
      BY <3>2 DEF Contract!CNext
  <2> QED
    BY <2>5, <2>6
<1>7. CASE WaitChild
  <2>1. PICK p \in Waitable :
           st' = IF st[p] = "zombie" THEN [st EXCEPT ![p] = "reaped"] ELSE st
    BY <1>7 DEF WaitChild
  <2>2. Alive' = Alive
    BY <2>1 DEF Alive
  <2>3. \A q \in Pids : st'[q] = "none" <=> st[q] = "none"
    BY <2>1
  <2> QED
    BY <1>7, <2>2, <2>3, <1>a DEF WaitChild, InJob, histVars
<1>8. CASE ReclaimTerminal
  <2>1. Foreground = {}
    BY <1>8, ForegroundOver DEF ReclaimTerminal
  <2>2. InForeground /\ InForeground' /\ pc # "exited" /\ pc' # "exited"
    BY <1>8 DEF ReclaimTerminal, InForeground, InJob, HandInv, Fg, CurJob
  <2>3. UNCHANGED <<procVars, histVars>>
    BY <1>8 DEF ReclaimTerminal
  <2>4. JobProcs' = JobProcs /\ Alive' = Alive /\ NeverStopped' = NeverStopped
        /\ pgrp' = pgrp
    BY <2>3 DEF procVars, histVars, JobProcs, Alive, NeverStopped
  <2>5. Foreground' = Foreground /\ Mode = "fg" /\ Mode' = "fg"
    BY <2>2, <2>4, ForegroundSame DEF Mode
  <2>6. Term' = "shell"
    BY <1>8 DEF ReclaimTerminal, TakeTerminal, Term
  <2>7. Contract!TakeBack
    BY <2>1, <2>4, <2>5, <2>6 DEF Contract!TakeBack, Mode, Term
  <2> QED
    BY <2>7 DEF Contract!CNext
<1>9. CASE EndJob
  <2>1. Foreground = {}
    BY <1>9, ForegroundOver DEF EndJob
  <2>2. ~InForeground' /\ Mode' = "ready"
    BY <1>9 DEF EndJob, InForeground, InJob, Mode
  <2>3. Foreground' = {} /\ Alive' = Alive
    BY <1>9, <2>2 DEF EndJob, procVars, Foreground, Alive
  <2>4. Term = "shell" /\ Term' = "shell"
    BY <1>9 DEF EndJob, Term, ShellOwnsTerminal
  <2>5. CASE Mode = "ready"
    BY <2>1, <2>2, <2>3, <2>4, <2>5, ContractStutter
  <2>6. CASE Mode = "fg"
    <3>1. Contract!FinishForeground
      BY <2>1, <2>2, <2>3, <2>4, <2>6 DEF Contract!FinishForeground, Mode, Term
    <3> QED
      BY <3>1 DEF Contract!CNext
  <2> QED
    BY <1>9, <2>5, <2>6 DEF Mode, EndJob
<1> QED
  BY <1>1, <1>2, <1>3, <1>4, <1>5, <1>6, <1>7, <1>8, <1>9 DEF RunShell

-----------------------------------------------------------------------------
(* The steps of the handler, of the children and of the terminal. *)

LEMMA ContractOthers ==
    ASSUME WInv, \/ Handler \/ \E p \in Pids : Child(p)
                 \/ TerminalStop \/ Quiet \/ UNCHANGED vars
    PROVE  Contract!CNext \/ UNCHANGED Contract!cvars
<1> USE DEF WInv, IInv, TypeInv, TypeOk
\* The shell and the terminal stay where they are, and so do the processes of
\* the job and their groups.
<1>a. /\ UNCHANGED <<shellVars, ttyPgrp>> /\ pgrp' = pgrp
      /\ JobProcs' = JobProcs
  <2>1. CASE Handler
    <3>1. \A p \in Pids : st'[p] = "none" <=> st[p] = "none"
      BY <2>1 DEF Handler, EnterHandler, HandlerReap, HandlerReturn, Zombies,
         procVars
    <3>2. /\ UNCHANGED <<shellVars, ttyPgrp>> /\ pgrp' = pgrp
          /\ owner' = owner /\ serial' = serial
      BY <2>1 DEF Handler, EnterHandler, HandlerReap, HandlerReturn, procVars,
         histVars
    <3> QED
      BY <3>1, <3>2, JobSame
  <2>2. CASE \/ \E p \in Pids : Child(p)
             \/ TerminalStop \/ Quiet \/ UNCHANGED vars
    <3>1. UNCHANGED ttyPgrp
      BY <2>2 DEF Child, ChildExec, ChildExit, BackgroundRead, StopSome,
         Continue, TerminalStop, Quiet, vars
    <3> QED
      BY <2>2, <3>1, ChildStep
  <2> QED
    BY <2>1, <2>2
<1>b. InForeground' = InForeground /\ Mode' = Mode /\ Term' = Term
  BY <1>a DEF shellVars, InForeground, InJob, Fg, CurJob, Mode, Term
\* Steps that neither end a process nor stop one.
<1>c. ASSUME Alive' = Alive, everStopped' = everStopped
      PROVE  UNCHANGED Contract!cvars
  <2>1. NeverStopped' = NeverStopped
    BY <1>a, <1>c DEF NeverStopped
  <2> QED
    BY <1>a, <1>b, <1>c, <2>1, ForegroundSame, ContractStutter
<1>1. CASE Handler
  <2>1. Alive' = Alive /\ everStopped' = everStopped
    BY <1>1 DEF Handler, EnterHandler, HandlerReap, HandlerReturn, Zombies,
       Alive, procVars, histVars
  <2> QED
    BY <2>1, <1>c
<1>2. ASSUME NEW p \in Pids, ChildExec(p) \/ Continue(p)
      PROVE  UNCHANGED Contract!cvars
  <2>1. Alive' = Alive /\ everStopped' = everStopped
    BY <1>2 DEF ChildExec, Continue, Alive, histVars
  <2> QED
    BY <2>1, <1>c
<1>3. ASSUME NEW p \in Pids, ChildExit(p)
      PROVE  Contract!CNext
  <2>1. p \in Alive /\ Alive' = Alive \ {p} /\ everStopped' = everStopped
    BY <1>3 DEF ChildExit, Alive, histVars
  <2>2. NeverStopped' = NeverStopped /\ Joined' = Joined \ {p}
    BY <1>a, <2>1 DEF NeverStopped, Joined
  <2>3. Foreground' = Foreground \ {p}
    BY <1>b, <2>2 DEF Foreground, NeverStopped
  <2>4. Alive' \ Foreground' = (Alive \ Foreground) \ {p}
    BY <2>1, <2>3
  <2>5. Contract!Die(p)
    BY <1>b, <2>1, <2>3, <2>4, ForegroundAlive DEF Contract!Die, Mode, Term
  <2> QED
    BY <2>5 DEF Contract!CNext
<1>4. ASSUME NEW g, StopSome(g)
      PROVE  Contract!CNext \/ UNCHANGED Contract!cvars
  <2>1. Alive' = Alive
    BY <1>4 DEF StopSome, Alive, Active, Group
  <2>2. everStopped \subseteq everStopped'
    BY <1>4 DEF StopSome
  <2>3. CASE InForeground /\ NeverStopped /\ ~NeverStopped'
    <3>1. Mode = "fg" /\ Foreground' = {}
      BY <2>3, ForegroundAlive DEF Mode, InForeground, InJob, Foreground,
         NeverStopped
    <3>2. Alive' \ Foreground' = (Alive \ Foreground) \cup Foreground
      BY <2>1, <3>1, ForegroundAlive
    <3>3. Contract!Detach
      BY <1>b, <3>1, <3>2 DEF Contract!Detach, Mode, Term
    <3> QED
      BY <3>3 DEF Contract!CNext
  <2>4. CASE ~(InForeground /\ NeverStopped /\ ~NeverStopped')
    <3>1. NeverStopped' => NeverStopped
      BY <1>a, <2>2 DEF NeverStopped
    <3>2. Joined' = Joined
      BY <1>a, <2>1 DEF Joined
    <3>3. Foreground' = Foreground
      BY <1>b, <2>4, <3>1, <3>2 DEF Foreground, NeverStopped
    <3> QED
      BY <1>b, <2>1, <3>3, ContractStutter
  <2> QED
    BY <2>3, <2>4
<1>5. CASE Quiet \/ UNCHANGED vars
  <2>1. Alive' = Alive /\ everStopped' = everStopped
    BY <1>5 DEF Quiet, vars, procVars, histVars, Alive
  <2> QED
    BY <2>1, <1>c
<1> QED
  BY <1>1, <1>2, <1>3, <1>4, <1>5 DEF Child, BackgroundRead, TerminalStop

LEMMA ContractInit == Init => Contract!CInit
<1> SUFFICES ASSUME Init PROVE Contract!CInit
  OBVIOUS
<1>1. Alive = {} /\ ~InForeground
  BY DEF Init, Alive, InForeground, InJob
<1> QED
  BY <1>1 DEF Init, Contract!CInit, Foreground

\* JobControl implements JobContract under its refinement mapping: in every
\* environment, whatever fails, the shell neither takes the terminal back from,
\* nor goes on beside, a foreground job with a living process in its group,
\* unless a stop signal has reached the job.
THEOREM ContractCorrect == Spec => KeepsContract
<1>1. WInv /\ HandInv /\ [Next]_vars => [Contract!CNext]_(Contract!cvars)
  BY ContractShell, ContractOthers DEF Next
<1>2. Spec => []HandInv
  <2>1. Init => HandInv
    BY DEF Init, HandInv
  <2>2. WInv => TypeInv
    BY DEF WInv, IInv
  <2> QED
    BY <2>1, <2>2, HandNext, WaitInvariant, PTL DEF Spec
<1> QED
  BY <1>1, <1>2, ContractInit, WaitInvariant, PTL
     DEF Spec, KeepsContract, Contract!CSpec
=============================================================================
