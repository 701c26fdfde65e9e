---------------------------- MODULE JobContract ----------------------------
(***************************************************************************)
(* What job control promises, without process groups, signals or waits:    *)
(* jobs are taken one at a time; while a process of the foreground job is  *)
(* alive neither the terminal comes back to the shell nor does the shell   *)
(* go on.  Processes start beside the shell and join the foreground job; a *)
(* stop signal detaches the whole job, whose processes then live and die   *)
(* beside the shell like those of the background.  JobControl implements   *)
(* this (JobControl!Contract).                                             *)
(***************************************************************************)
CONSTANT Procs

VARIABLES
    mode,   \* "ready": between foreground jobs, "fg": in one, "gone"
    fg,     \* living processes of the foreground job
    bg,     \* other living processes
    term    \* who has the terminal, "shell" or "job"

cvars == <<mode, fg, bg, term>>

CInit == mode = "ready" /\ fg = {} /\ bg = {} /\ term = "shell"

StartForeground == mode = "ready" /\ mode' = "fg" /\ UNCHANGED <<fg, bg, term>>

Start(p) == /\ mode # "gone" /\ term = "shell" /\ p \notin fg \cup bg
            /\ bg' = bg \cup {p} /\ UNCHANGED <<mode, fg, term>>

Join(p) == /\ mode = "fg" /\ term = "shell" /\ p \in bg
           /\ fg' = fg \cup {p} /\ bg' = bg \ {p} /\ UNCHANGED <<mode, term>>

Detach == /\ mode = "fg" /\ fg' = {} /\ bg' = bg \cup fg
          /\ UNCHANGED <<mode, term>>

Die(p) == /\ p \in fg \cup bg
          /\ fg' = fg \ {p} /\ bg' = bg \ {p} /\ UNCHANGED <<mode, term>>

HandOver == mode = "fg" /\ term' = "job" /\ UNCHANGED <<mode, fg, bg>>

TakeBack == /\ mode = "fg" /\ fg = {} /\ term' = "shell"
            /\ UNCHANGED <<mode, fg, bg>>

FinishForeground == /\ mode = "fg" /\ fg = {} /\ term = "shell"
                    /\ mode' = "ready" /\ UNCHANGED <<fg, bg, term>>

Leave == mode = "ready" /\ mode' = "gone" /\ UNCHANGED <<fg, bg, term>>

CNext == \/ StartForeground \/ Detach \/ HandOver \/ TakeBack
         \/ FinishForeground \/ Leave
         \/ \E p \in Procs : Start(p) \/ Join(p) \/ Die(p)

CSpec == CInit /\ [][CNext]_cvars
=============================================================================
