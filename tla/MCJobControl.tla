--------------------------- MODULE MCJobControl ---------------------------
(* Instances of JobControl for TLC. *)
EXTENDS JobControl

F(cmds) == [type |-> "FG", cmds |-> cmds]
B(cmds) == [type |-> "BG", cmds |-> cmds]

\* A pipeline, a background job before it and after it, builtins at either end,
\* exit inside a pipeline, before another job, and in the background.
LinesAll == {
    <<B(<<"ext">>), F(<<"ext", "builtin">>)>>,
    <<F(<<"builtin", "ext", "ext">>), B(<<"builtin">>)>>,
    <<F(<<"exit">>), F(<<"ext", "exit", "ext">>)>>,
    <<B(<<"exit">>)>> }

\* The lines the liveness questions need: few.
LinesFew == {
    <<B(<<"ext">>), F(<<"ext", "ext">>)>>,
    <<F(<<"exit">>), F(<<"ext">>)>> }
=============================================================================
