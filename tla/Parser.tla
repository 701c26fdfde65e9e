------------------------------- MODULE Parser -------------------------------
(***************************************************************************)
(* The parser (parse.c): from the tokens of a line to its jobs.            *)
(*                                                                         *)
(* The functions parse_cmd_line, parse_job, parse_cmd and parse_simple_cmd *)
(* call each other without recursion, so the parser is a state machine:    *)
(* one action per iteration of one of their loops, pc saying which loop is *)
(* running.  A token is its type; a word or a file name is the position of *)
(* its token, so that the tree says which token each of its parts is.      *)
(* Memory is the set of argv arrays that are allocated, each named by the  *)
(* position of its first word; the arrays of commands and of jobs are      *)
(* their capacities.                                                       *)
(*                                                                         *)
(* The lexer makes no end token for a line that ends in a backslash, and   *)
(* the functions stop at token_count as they do at the end token: "NONE"   *)
(* stands for what is after the last token of such a line.                 *)
(***************************************************************************)
EXTENDS Naturals, SequencesExt

CONSTANTS
    Lines,          \* the sequences of tokens to parse, without SH_TOKEN_END
    InitCapacity,   \* first capacity of the two arrays (4)
    AllocFails      \* may malloc and realloc fail?

Ends == {"END", "NONE"}
Separators == {"AMP", "SEMICOLON"}
Angles == {"ANGLE_BRACKET_L", "ANGLE_BRACKET_R", "2_ANGLE_BRACKET_R"}
TokenTypes == Separators \cup Angles \cup {"WORD", "PIPE", "EXCLAM"}

ASSUME LinesAssumption == Lines \subseteq Seq(TokenTypes)
ASSUME CapacityAssumption == InitCapacity \in Nat /\ InitCapacity >= 2
ASSUME AllocAssumption == AllocFails \in BOOLEAN

VARIABLES
    tokens,     \* the tokens, and what ends them
    idx,        \* token_idx, counted from 1
    pc,         \* the loop that runs
    argv,       \* parse_simple_cmd: the words so far
    redirs,     \* parse_cmd: the redirections so far
    cmds,       \* parse_job: the commands so far
    cmdsCap,    \* cmds_capacity
    jobs,       \* parse_cmd_line: the jobs so far
    jobsCap,    \* job_descs_capacity
    held,       \* the argv arrays that are allocated
    result      \* what parse returned

vars == <<tokens, idx, pc, argv, redirs, cmds, cmdsCap, jobs, jobsCap, held,
          result>>

Init ==
    /\ tokens \in {Append(l, e) : l \in Lines, e \in Ends}
    /\ idx = 1 /\ pc = "parse"
    /\ argv = <<>> /\ redirs = <<>> /\ cmds = <<>> /\ jobs = <<>>
    /\ cmdsCap = InitCapacity /\ jobsCap = InitCapacity
    /\ held = {} /\ result = "none"

Token == tokens[idx]
Owned(job) == {c.argv[1] : c \in {job.cmds[i] : i \in 1 .. Len(job.cmds)}}
OwnedByJobs == UNION {Owned(jobs[i]) : i \in 1 .. Len(jobs)}

\* An array is doubled once it is full, so that there is room for the next one.
BugGrowth(cap, count) == IF count > cap THEN cap * 2 ELSE cap
Growth(cap, count) == IF count = cap THEN cap * 2 ELSE cap

-----------------------------------------------------------------------------
(* Leaving the parser. *)

\* parse returns; memory' is what stays allocated.
Return(value, memory) ==
    /\ pc' = "done" /\ result' = value /\ held' = memory
    /\ UNCHANGED <<tokens, argv, redirs, cmds, cmdsCap, jobsCap>>

\* A command cannot be parsed: parse_job frees its array, not the commands in
\* it; parse_cmd_line destroys the jobs it has.
BugKeptOnError == held
KeptOnError == held \ OwnedByJobs
Fail(value) == Return(value, KeptOnError) /\ UNCHANGED <<idx, jobs>>

\* Once the command line is parsed, parse requires the end token.
BugAtEnd(i) == tokens[i] \in {"END", "WORD"}
AtEnd(i) == tokens[i] = "END"
Verdict(i) == IF AtEnd(i) THEN "SUCCESS" ELSE "UNEXPECTED_TOKENS"

-----------------------------------------------------------------------------
(* parse and the head of parse_cmd_line. *)

ParseEmpty ==
    /\ pc = "parse" /\ Token \in Ends
    /\ Return("SUCCESS", {}) /\ UNCHANGED <<idx, jobs>>

\* '!' and a word; parse then requires the end.
ParseRepeat ==
    /\ pc = "parse" /\ Token = "EXCLAM"
    /\ UNCHANGED jobs
    /\ \/ /\ tokens[idx + 1] # "WORD"
          /\ idx' = idx + 1 /\ Return("COMMAND_LINE_FAIL", {})
       \/ /\ tokens[idx + 1] = "WORD"
          /\ idx' = idx + 2
          /\ Return(Verdict(idx + 2), {})

\* The array of jobs is allocated, and parse_job is called.
ParseJobs ==
    /\ pc = "parse" /\ Token \notin Ends \cup {"EXCLAM"}
    /\ pc' = "command"
    /\ UNCHANGED <<tokens, idx, argv, redirs, cmds, cmdsCap, jobs, jobsCap>>
    /\ UNCHANGED <<held, result>>

-----------------------------------------------------------------------------
(* parse_simple_cmd. *)

\* What a simple command may start with.
NoCommand ==
    /\ pc = "command" /\ argv = <<>> /\ Token # "WORD"
    /\ Fail(IF Token \in Ends THEN "UNEXPECTED_END" ELSE "SIMPLE_COMMAND_FAIL")

Word ==
    /\ pc = "command" /\ Token = "WORD"
    /\ argv' = Append(argv, idx) /\ idx' = idx + 1
    /\ UNCHANGED <<tokens, pc, redirs, cmds, cmdsCap, jobs, jobsCap>>
    /\ UNCHANGED <<held, result>>

\* argv is allocated once the words are counted.
EndWords ==
    /\ pc = "command" /\ argv # <<>> /\ Token # "WORD"
    /\ pc' = "redirections" /\ held' = held \cup {argv[1]}
    /\ UNCHANGED <<tokens, idx, argv, redirs, cmds, cmdsCap, jobs, jobsCap>>
    /\ UNCHANGED result

-----------------------------------------------------------------------------
(* parse_cmd: redirections. *)

\* Any token but the end is taken for the name of the file.
BugIsTarget(t) == TRUE
IsTarget(t) == t \notin Ends

Redirect ==
    /\ pc = "redirections" /\ Token \in Angles /\ IsTarget(tokens[idx + 1])
    /\ redirs' = Append(redirs, [type |-> Token, file |-> idx + 1])
    /\ idx' = idx + 2
    /\ UNCHANGED <<tokens, pc, argv, cmds, cmdsCap, jobs, jobsCap, held, result>>

\* The file is missing; destroy_cmd frees the command.
NoTarget ==
    /\ pc = "redirections" /\ Token \in Angles /\ ~IsTarget(tokens[idx + 1])
    /\ idx' = idx + 1
    /\ Return("COMMAND_FAIL", KeptOnError \ {argv[1]})
    /\ UNCHANGED jobs

\* parse_job adds the command.  Only its loop, not its first command, looks
\* whether the array is full.
EndCommand ==
    /\ pc = "redirections" /\ Token \notin Angles
    /\ cmds' = Append(cmds, [argv |-> argv, redirections |-> redirs])
    /\ cmdsCap' = IF cmds = <<>> THEN cmdsCap ELSE Growth(cmdsCap, Len(cmds'))
    /\ argv' = <<>> /\ redirs' = <<>>
    /\ IF Token = "PIPE" THEN idx' = idx + 1 /\ pc' = "command"
                          ELSE idx' = idx /\ pc' = "job"
    /\ UNCHANGED <<tokens, jobs, jobsCap, held, result>>

-----------------------------------------------------------------------------
(* parse_cmd_line: the end of a job. *)

Job(kind) == [type |-> kind, cmds |-> cmds]

\* '&' or ';' ends the job, and more may follow.
EndJob ==
    /\ pc = "job" /\ Token \in Separators
    /\ jobs' = Append(jobs, Job(IF Token = "AMP" THEN "BG" ELSE "FG"))
    /\ jobsCap' = Growth(jobsCap, Len(jobs'))
    /\ idx' = idx + 1
    /\ cmds' = <<>> /\ cmdsCap' = InitCapacity
    /\ IF tokens[idx + 1] \in Ends
         THEN /\ pc' = "done" /\ result' = Verdict(idx + 1)
              /\ held' = IF AtEnd(idx + 1) THEN held ELSE {}
         ELSE pc' = "command" /\ UNCHANGED <<held, result>>
    /\ UNCHANGED <<tokens, argv, redirs>>

\* The last job has no separator, which parse_cmd_line tells from the token
\* before the index: when that is a '&' or ';' that a redirection took for its
\* file, the job is lost.
BugLastJobAdded == jobs = <<>>
LastJobAdded == tokens[idx - 1] \notin Separators
JobsAtEnd == IF LastJobAdded THEN Append(jobs, Job("FG")) ELSE jobs
Lost == IF LastJobAdded THEN {} ELSE Owned(Job("FG"))

LastJob ==
    /\ pc = "job" /\ Token \notin Separators
    /\ jobs' = JobsAtEnd
    /\ Return(Verdict(idx), IF AtEnd(idx) THEN held ELSE Lost)
    /\ UNCHANGED idx

-----------------------------------------------------------------------------
(* Failing allocations. *)

\* realloc is called for the first, third, fifth, ninth... redirection.
RedirsFull == Len(redirs) \in {0} \cup {2^k : k \in 1 .. Len(redirs)}

\* parse_cmd_line's array, parse_job's array, or argv.
AllocationFails ==
    /\ AllocFails
    /\ \/ pc = "parse" /\ Token \notin Ends \cup {"EXCLAM"}
       \/ pc = "command" /\ argv = <<>> /\ cmds = <<>>
       \/ pc = "command" /\ argv # <<>> /\ Token # "WORD"
    /\ Fail("MEMORY_ERROR")

\* realloc of the redirections: destroy_cmd frees the command.
RedirectionsFail ==
    /\ AllocFails
    /\ pc = "redirections" /\ Token \in Angles /\ IsTarget(tokens[idx + 1])
    /\ RedirsFull
    /\ idx' = idx + 2
    /\ Return("MEMORY_ERROR", KeptOnError \ {argv[1]})
    /\ UNCHANGED jobs

\* realloc of the commands: only the array is freed.
CommandsFail ==
    /\ AllocFails
    /\ pc = "redirections" /\ Token \notin Angles
    /\ cmds # <<>> /\ Growth(cmdsCap, Len(cmds) + 1) # cmdsCap
    /\ Fail("MEMORY_ERROR")

\* realloc of the jobs: each job is destroyed.
JobsFail ==
    /\ AllocFails
    /\ pc = "job" /\ Token \in Separators
    /\ Growth(jobsCap, Len(jobs) + 1) # jobsCap
    /\ jobs' = Append(jobs, Job(IF Token = "AMP" THEN "BG" ELSE "FG"))
    /\ idx' = idx + 1
    /\ Return("MEMORY_ERROR", KeptOnError \ Owned(Job("FG")))

-----------------------------------------------------------------------------
\* parse has returned.
Returned == pc = "done" /\ UNCHANGED vars

Next ==
    \/ ParseEmpty \/ ParseRepeat \/ ParseJobs
    \/ NoCommand \/ Word \/ EndWords
    \/ Redirect \/ NoTarget \/ EndCommand
    \/ EndJob \/ LastJob
    \/ AllocationFails \/ RedirectionsFail \/ CommandsFail \/ JobsFail
    \/ Returned

Spec == Init /\ [][Next]_vars

-----------------------------------------------------------------------------
(* The grammar of the report (report.typ:538-551), with the repeated         *)
(* redirections of report.typ:270.                                           *)

\* A redirection of the command that position i belongs to is before i.
AfterRedirection(i) ==
    \E j \in 1 .. i - 1 :
        /\ tokens[j] \in Angles
        /\ \A k \in j .. i - 1 : tokens[k] \notin Separators \cup {"PIPE"}

\* What may follow the token at position i.
MayFollow(i, next) ==
    CASE tokens[i] = "EXCLAM" -> FALSE
      [] tokens[i] \in Angles \cup {"PIPE"} -> next = "WORD"
      [] tokens[i] \in Separators -> next \in {"WORD", "END"}
      [] tokens[i] = "WORD" ->
            IF next = "WORD" THEN ~AfterRedirection(i) ELSE next # "EXCLAM"

IsJobs ==
    /\ tokens[1] = "WORD" /\ Last(tokens) = "END"
    /\ \A i \in 1 .. Len(tokens) - 1 : MayFollow(i, tokens[i + 1])

InGrammar ==
    \/ tokens \in {<<"END">>, <<"NONE">>, <<"EXCLAM", "WORD", "END">>}
    \/ IsJobs

-----------------------------------------------------------------------------
(* Properties. *)

Results == {"none", "SUCCESS", "MEMORY_ERROR", "UNEXPECTED_TOKENS",
            "COMMAND_LINE_FAIL", "COMMAND_FAIL", "SIMPLE_COMMAND_FAIL",
            "UNEXPECTED_END"}

Positions == 1 .. Len(tokens)
Redirections == [type : Angles, file : Positions]
Commands == [argv : Seq(Positions) \ {<<>>}, redirections : Seq(Redirections)]
Jobs == [type : {"BG", "FG"}, cmds : Seq(Commands)]

\* Every variable has its type; in particular the index stays inside the array
\* of tokens, whether or not there is an end token in it.
TypeOk ==
    /\ idx \in Positions
    /\ pc \in {"parse", "command", "redirections", "job", "done"}
    /\ argv \in Seq(Positions) /\ redirs \in Seq(Redirections)
    /\ cmds \in Seq(Commands) /\ jobs \in Seq(Jobs)
    /\ cmdsCap \in Nat /\ jobsCap \in Nat
    /\ held \subseteq Positions
    /\ result \in Results

\* parse_job and parse_cmd_line write the next command and the next job inside
\* their arrays, which they only grow after a write.
ArraysFit ==
    /\ pc \in {"command", "redirections"} => Len(cmds) < cmdsCap
    /\ pc \in {"command", "redirections", "job"} => Len(jobs) < jobsCap

\* Every redirection names a word, or nothing at the end.  The parser takes any
\* token for the file, and with a '&' or ';' there loses the job.
TargetsAreWords ==
    \A i \in 1 .. Len(tokens) - 1 :
        tokens[i] \in Angles => tokens[i + 1] \in Ends \cup {"WORD"}

\* parse accepts the lines of the grammar and no others (report.typ:1443: a
\* missing file is a parse error), but for those with a token that is no word
\* after a redirection.
DecidesGrammar ==
    pc = "done" /\ result # "MEMORY_ERROR" /\ TargetsAreWords =>
        (result = "SUCCESS" <=> InGrammar)

\* The words that a command, a job and the tree hold.
FilesOf(rs) == [i \in DOMAIN rs |-> rs[i].file]
CommandWords(c) == Range(c.argv) \cup Range(FilesOf(c.redirections))
WordsOf(cs) == UNION {CommandWords(cs[i]) : i \in DOMAIN cs}
TreeWords(js) == UNION {WordsOf(js[i].cmds) : i \in DOMAIN js}

\* They are in the order of the line: in a command, from one command of a job
\* to the next, and from one job to the next.
Increasing(s) == \A i, j \in DOMAIN s : i < j => s[i] < s[j]
Before(S, T) == \A s \in S, t \in T : s < t
CommandInOrder(c) ==
    /\ Increasing(c.argv) /\ Increasing(FilesOf(c.redirections))
    /\ Before(Range(c.argv), Range(FilesOf(c.redirections)))
JobInOrder(cs) ==
    /\ \A i \in DOMAIN cs : CommandInOrder(cs[i])
    /\ \A i, j \in DOMAIN cs : i < j => Before(CommandWords(cs[i]), CommandWords(cs[j]))
TreeInOrder(js) ==
    /\ \A i \in DOMAIN js : JobInOrder(js[i].cmds)
    /\ \A i, j \in DOMAIN js :
          i < j => Before(WordsOf(js[i].cmds), WordsOf(js[j].cmds))

\* A line that is parsed as jobs is all in the tree: each of its words once, in
\* order, with nothing dropped between them.
AllInTree ==
    pc = "done" /\ result = "SUCCESS" /\ tokens[1] = "WORD" =>
        /\ TreeWords(jobs) = {i \in DOMAIN tokens : tokens[i] = "WORD"}
        /\ TreeInOrder(jobs)
NothingDropped == TargetsAreWords => AllInTree

\* The commands of the job that is being parsed: parse_job frees their array
\* when it fails, but not what they hold.
InPipeline == Owned(Job("FG")) \cup (IF argv = <<>> THEN {} ELSE {argv[1]})

\* When parse returns, what is allocated is what destroy_ast can reach: the
\* tree's arrays on success, nothing on an error (report.typ:351: "No resource
\* or memory leaks"), except that an error inside a pipeline may leave the
\* commands of that pipeline, and of no other job, allocated.
NothingLeaks ==
    pc = "done" /\ TargetsAreWords =>
        IF result = "SUCCESS" /\ tokens[1] = "WORD" THEN held = OwnedByJobs
        ELSE \/ held = {}
             \/ \E i \in DOMAIN tokens : tokens[i] = "PIPE" /\ held \subseteq InPipeline
=============================================================================
