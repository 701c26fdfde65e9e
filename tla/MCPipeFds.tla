----------------------------- MODULE MCPipeFds -----------------------------
(* Instances of PipeFds for TLC. *)
EXTENDS PipeFds

C(prog) == [prog |-> prog, redirs |-> <<>>]
R(prog, redirs) == [prog |-> prog, redirs |-> redirs]
In  == [stream |-> 0, opens |-> TRUE]
Out == [stream |-> 1, opens |-> TRUE]
Err == [stream |-> 2, opens |-> TRUE]
NoFile == [stream |-> 0, opens |-> FALSE]
F(cmds) == [type |-> "FG", cmds |-> cmds]
B(cmds) == [type |-> "BG", cmds |-> cmds]

cat == C("filter")
yes == C("endless")
ls  == C("other")
pwd == C("pwd")
cd  == C("cd")

\* Every foreground pipeline of up to four of a program that copies, one that
\* ignores its input and a builtin.
Pipelines == { F(cmds) : cmds \in UNION {[1 .. n -> {cat, ls, pwd}] : n \in 1 .. 4} }

\* Endless producers, long output or none, exit, redirections of programs and of
\* builtins, and builtins in the background.
Others == {
    F(<<cd>>), F(<<cat, cd>>), F(<<cd, cat>>), F(<<cat, cd, cat>>), F(<<cd, cd, cat>>),
    F(<<R("cd", <<Out>>), cat>>),
    F(<<C("exit"), cat>>), F(<<yes, C("exit"), cat>>), F(<<C("exit")>>),
    F(<<cat, ls, pwd, cat, cat>>), F(<<ls, pwd, cat, pwd, cat>>),
    F(<<yes, cat, ls>>), B(<<yes, ls>>), F(<<ls, ls, ls, ls, ls>>), F(<<cat, C("exit"), cat, cat>>),
    B(<<pwd, pwd, cat>>), B(<<C("history"), cat>>),
    F(<<C("history"), cat>>), F(<<cat, C("history"), cat>>), F(<<cat, C("history")>>),
    F(<<R("history", <<Out>>), cat>>),
    F(<<yes, R("filter", <<In>>), ls>>),
    F(<<R("filter", <<NoFile, In>>), cat>>), F(<<cat, R("pwd", <<Out, Out>>)>>),
    F(<<cat, R("filter", <<Out, Out>>), cat>>),
    F(<<cat, R("pwd", <<Out, Err>>), cat>>),
    F(<<cat, R("pwd", <<Out>>), cat, cat>>), F(<<pwd, R("pwd", <<In>>)>>) }

Jobs == Pipelines \cup Others

\* What follows a job that has left pipes open, or an exit on the same line.
Later == { F(cmds) : cmds \in UNION {[1 .. n -> {cat, pwd}] : n \in 1 .. 2} }
           \cup { F(<<yes, ls>>), F(<<cat, cat, cat>>), F(<<cat, pwd, cat>>),
                  F(<<pwd, pwd, cat>>), F(<<cat, ls, cat, cat>>),
                  F(<<R("pwd", <<Out, Err>>), cat>>) }

\* A builtin followed by two programs.
JobsBuiltin == { F(<<pwd, cat>>), F(<<pwd, cat, cat>>) }
=============================================================================
