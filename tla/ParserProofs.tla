---------------------------- MODULE ParserProofs ----------------------------
(***************************************************************************)
(* Theorems about the parser, for every set of lines and every first       *)
(* capacity of at least two: the index never leaves the tokens, and the    *)
(* commands and jobs are written inside their arrays.  Where redirections  *)
(* name words, what is accepted is the grammar, the tree has every word of *)
(* the line once and in order, and memory is freed.                        *)
(***************************************************************************)
EXTENDS Parser, TLAPS

\* The tokens of a line: what ends them is the last and only there.
TokensEnd ==
    /\ tokens \in Seq(TokenTypes \cup Ends) /\ tokens # <<>>
    /\ \A i \in 1 .. Len(tokens) : tokens[i] \in Ends <=> i = Len(tokens)

\* A command whose redirections are being parsed has a word.
HasWord == pc = "redirections" => argv # <<>>

TypeInv == TokensEnd /\ TypeOk /\ HasWord

-----------------------------------------------------------------------------
(* The tokens. *)

\* A line contains no end, which is then added to it.
LEMMA InitTokens == Init => TokensEnd
<1> SUFFICES ASSUME NEW l \in Lines, NEW e \in Ends, tokens = Append(l, e)
             PROVE  TokensEnd
  BY DEF Init
<1>1. l \in Seq(TokenTypes)
  BY LinesAssumption
<1>2. \A i \in 1 .. Len(l) : l[i] \in TokenTypes /\ l[i] \notin Ends
  BY <1>1 DEF TokenTypes, Separators, Angles, Ends
<1>3. /\ Len(tokens) = Len(l) + 1 /\ tokens[Len(tokens)] = e /\ Len(l) \in Nat
      /\ \A i \in 1 .. Len(l) : tokens[i] = l[i]
  BY <1>1
<1>4. tokens \in Seq(TokenTypes \cup Ends) /\ tokens # <<>>
  BY <1>1, <1>3
<1>5. ASSUME NEW i \in 1 .. Len(tokens) PROVE tokens[i] \in Ends <=> i = Len(tokens)
  BY <1>2, <1>3
<1>6. QED
  BY <1>4, <1>5 DEF TokensEnd

\* There is a token after one that is not the end.
LEMMA TokenFollows ==
    ASSUME TokensEnd, NEW i \in 1 .. Len(tokens), tokens[i] \notin Ends
    PROVE  i + 1 \in 1 .. Len(tokens) /\ Len(tokens) \in Nat
BY DEF TokensEnd

-----------------------------------------------------------------------------
(* Memory that is owned has a position. *)

LEMMA OwnedType ==
    ASSUME NEW job, job.cmds \in Seq(Commands)
    PROVE  Owned(job) \subseteq Positions
<1> SUFFICES ASSUME NEW i \in 1 .. Len(job.cmds)
             PROVE  job.cmds[i].argv[1] \in Positions
  BY DEF Owned
<1>1. job.cmds[i] \in Commands
  OBVIOUS
<1>2. job.cmds[i].argv \in Seq(Positions) /\ job.cmds[i].argv # <<>>
  BY <1>1 DEF Commands
<1>3. QED
  BY <1>2

LEMMA LostType ==
    ASSUME TypeOk
    PROVE  Lost \subseteq Positions /\ Owned(Job("FG")) \subseteq Positions
<1>1. Job("FG").cmds \in Seq(Commands)
  BY DEF Job, TypeOk
<1>2. QED
  BY <1>1, OwnedType DEF Lost

\* A job of the commands parsed so far.
LEMMA JobType ==
    ASSUME TypeOk, NEW kind \in {"BG", "FG"}
    PROVE  Job(kind) \in Jobs
BY DEF TypeOk, Job, Jobs

LEMMA GrowthType ==
    ASSUME NEW cap \in Nat, NEW count \in Nat
    PROVE  Growth(cap, count) \in Nat
BY DEF Growth

-----------------------------------------------------------------------------
(* Types. *)

\* Returning keeps the types, whatever part of the memory is kept.
LEMMA ReturnType ==
    ASSUME TypeInv, NEW value \in Results, NEW memory \in SUBSET Positions,
           Return(value, memory), idx' \in Positions, jobs' \in Seq(Jobs)
    PROVE  TypeInv'
BY DEF TypeInv, TypeOk, Return, HasWord, TokensEnd, Positions, Commands,
       Redirections, Jobs

LEMMA FailType ==
    ASSUME TypeInv, NEW value \in Results, Fail(value)
    PROVE  TypeInv'
<1>1. KeptOnError \in SUBSET Positions
  BY DEF KeptOnError, TypeInv, TypeOk
<1>2. Return(value, KeptOnError) /\ idx' \in Positions /\ jobs' \in Seq(Jobs)
  BY DEF Fail, TypeInv, TypeOk
<1>3. QED
  BY <1>1, <1>2, ReturnType

LEMMA StepType == TypeInv /\ [Next]_vars => TypeInv'
<1> SUFFICES ASSUME TypeInv, [Next]_vars PROVE TypeInv'
  OBVIOUS
<1> USE DEF TypeInv, Ends
<1>a. idx \in 1 .. Len(tokens) /\ Len(tokens) \in Nat
  BY DEF TypeOk, Positions, TokensEnd
<1>b. {} \in SUBSET Positions /\ held \in SUBSET Positions /\ KeptOnError \in SUBSET Positions
  BY DEF TypeOk, KeptOnError
<1>c. ASSUME Token \notin Ends PROVE idx + 1 \in Positions
  BY <1>a, <1>c, TokenFollows DEF Token, Positions
<1>1. CASE ParseEmpty
  <2>1. Return("SUCCESS", {}) /\ idx' \in Positions /\ jobs' \in Seq(Jobs)
    BY <1>1 DEF ParseEmpty, TypeOk
  <2>2. QED
    BY <2>1, <1>b, ReturnType DEF Results
<1>2. CASE ParseRepeat
  <2>1. idx + 1 \in Positions /\ jobs' \in Seq(Jobs)
    BY <1>2, <1>c DEF ParseRepeat, TypeOk
  <2>2. CASE tokens[idx + 1] # "WORD"
    BY <1>2, <2>1, <2>2, <1>b, ReturnType DEF ParseRepeat, Results
  <2>3. CASE tokens[idx + 1] = "WORD"
    <3>1. idx + 2 \in Positions
      BY <2>1, <2>3, <1>a, TokenFollows DEF Positions
    <3>2. PICK v \in {"SUCCESS", "UNEXPECTED_TOKENS"} : Return(v, {}) /\ idx' = idx + 2
      BY <1>2, <2>3 DEF ParseRepeat, Verdict
    <3>3. QED
      BY <2>1, <3>1, <3>2, <1>b, ReturnType DEF Results
  <2>4. QED
    BY <2>2, <2>3
<1>3. CASE ParseJobs
  BY <1>3 DEF ParseJobs, TypeOk, HasWord, TokensEnd, Positions, Commands, Redirections, Jobs
<1>4. CASE NoCommand
  <2>1. PICK v \in {"UNEXPECTED_END", "SIMPLE_COMMAND_FAIL"} : Fail(v)
    BY <1>4 DEF NoCommand
  <2>2. QED
    BY <2>1, FailType DEF Results
<1>5. CASE Word
  <2>1. idx' \in Positions /\ argv' \in Seq(Positions)
    BY <1>5, <1>c DEF Word, TypeOk
  <2>2. QED
    BY <1>5, <2>1 DEF Word, TypeOk, HasWord, TokensEnd, Positions, Commands, Redirections, Jobs
<1>6. CASE EndWords
  <2>1. held' \in SUBSET Positions
    BY <1>6 DEF EndWords, TypeOk
  <2>2. QED
    BY <1>6, <2>1 DEF EndWords, TypeOk, HasWord, TokensEnd, Positions, Commands, Redirections, Jobs
<1>7. CASE Redirect
  <2>1. idx + 1 \in Positions
    BY <1>7, <1>c DEF Redirect, Angles
  <2>2. idx + 2 \in Positions
    BY <1>7, <2>1, <1>a, TokenFollows DEF Redirect, IsTarget, Positions
  <2>3. redirs' \in Seq(Redirections)
    BY <1>7, <2>1 DEF Redirect, TypeOk, Redirections
  <2>4. QED
    BY <1>7, <2>2, <2>3 DEF Redirect, TypeOk, HasWord, TokensEnd, Positions, Commands, Redirections, Jobs
<1>8. CASE NoTarget
  <2>1. idx' \in Positions /\ jobs' \in Seq(Jobs)
    BY <1>8, <1>c DEF NoTarget, Angles, TypeOk
  <2>2. KeptOnError \ {argv[1]} \in SUBSET Positions
    BY <1>b
  <2>3. QED
    BY <1>8, <2>1, <2>2, ReturnType DEF NoTarget, Results
<1>9. CASE EndCommand
  <2>1. [argv |-> argv, redirections |-> redirs] \in Commands
    BY <1>9 DEF EndCommand, TypeOk, HasWord, Commands
  <2>2. cmds' \in Seq(Commands) /\ Len(cmds') \in Nat
    BY <1>9, <2>1 DEF EndCommand, TypeOk
  <2>3. cmdsCap' \in Nat
    BY <1>9, <2>2, GrowthType DEF EndCommand, TypeOk
  <2>4. idx' \in Positions
    BY <1>9, <1>a, <1>c DEF EndCommand, Positions
  <2>5. pc' \in {"command", "job"} /\ argv' = <<>> /\ redirs' = <<>>
    BY <1>9 DEF EndCommand
  <2>6. QED
    BY <1>9, <2>2, <2>3, <2>4, <2>5
    DEF EndCommand, TypeOk, HasWord, TokensEnd, Positions, Commands, Redirections, Jobs
<1>10. CASE EndJob
  <2>1. idx' \in Positions
    BY <1>10, <1>c DEF EndJob, Separators
  <2>2. jobs' \in Seq(Jobs) /\ Len(jobs') \in Nat
    BY <1>10, JobType DEF EndJob, TypeOk
  <2>3. jobsCap' \in Nat /\ cmds' = <<>> /\ cmdsCap' \in Nat
    BY <1>10, <2>2, GrowthType, CapacityAssumption DEF EndJob, TypeOk
  <2>4. pc' \in {"command", "done"} /\ result' \in Results
    BY <1>10 DEF EndJob, Verdict, TypeOk, Results
  <2>5. held' \subseteq Positions'
    BY <1>10 DEF EndJob, TypeOk, Positions
  <2>6. UNCHANGED <<tokens, argv, redirs>>
    BY <1>10 DEF EndJob
  <2>7. QED
    BY <2>1, <2>2, <2>3, <2>4, <2>5, <2>6
    DEF TypeOk, HasWord, TokensEnd, Positions, Commands, Redirections, Jobs
<1>11. CASE LastJob
  <2>1. jobs' \in Seq(Jobs)
    BY <1>11, JobType DEF LastJob, JobsAtEnd, TypeOk
  <2>2. idx' \in Positions
    BY <1>11 DEF LastJob, TypeOk
  <2>3. Return("SUCCESS", held) \/ Return("UNEXPECTED_TOKENS", Lost)
    BY <1>11 DEF LastJob, Verdict
  <2>4. QED
    BY <2>1, <2>2, <2>3, <1>b, LostType, ReturnType DEF Results
<1>12. CASE AllocationFails \/ CommandsFail
  <2>1. Fail("MEMORY_ERROR")
    BY <1>12 DEF AllocationFails, CommandsFail
  <2>2. QED
    BY <2>1, FailType DEF Results
<1>13. CASE RedirectionsFail
  <2>1. idx + 1 \in Positions
    BY <1>13, <1>c DEF RedirectionsFail, Angles
  <2>2. idx' \in Positions /\ jobs' \in Seq(Jobs)
    BY <1>13, <2>1, <1>a, TokenFollows DEF RedirectionsFail, IsTarget, Positions, TypeOk
  <2>3. KeptOnError \ {argv[1]} \in SUBSET Positions
    BY <1>b
  <2>4. QED
    BY <1>13, <2>2, <2>3, ReturnType DEF RedirectionsFail, Results
<1>14. CASE JobsFail
  <2>1. idx' \in Positions
    BY <1>14, <1>c DEF JobsFail, Separators
  <2>2. jobs' \in Seq(Jobs)
    BY <1>14, JobType DEF JobsFail, TypeOk
  <2>3. KeptOnError \ Owned(Job("FG")) \in SUBSET Positions
    BY <1>b
  <2>4. QED
    BY <1>14, <2>1, <2>2, <2>3, ReturnType DEF JobsFail, Results
<1>15. CASE Returned \/ UNCHANGED vars
  BY <1>15 DEF Returned, vars, TypeOk, HasWord, TokensEnd, Positions, Commands,
               Redirections, Jobs
<1>16. QED
  BY <1>1, <1>2, <1>3, <1>4, <1>5, <1>6, <1>7, <1>8, <1>9, <1>10, <1>11, <1>12,
     <1>13, <1>14, <1>15 DEF Next

LEMMA InitType == Init => TypeInv
<1> SUFFICES ASSUME Init PROVE TypeInv
  OBVIOUS
<1>1. TokensEnd
  BY InitTokens
<1>2. 1 \in Positions
  BY <1>1 DEF TokensEnd, Positions
<1>3. HasWord /\ TypeOk
  BY <1>2, CapacityAssumption DEF Init, HasWord, TypeOk, Results
<1>4. QED
  BY <1>1, <1>3 DEF TypeInv

\* Every variable keeps its type; the parser never reads past the end token.
THEOREM TypeCorrect == Spec => []TypeOk
<1>1. TypeInv => TypeOk
  BY DEF TypeInv
<1>2. QED
  BY InitType, StepType, <1>1, PTL DEF Spec

-----------------------------------------------------------------------------
(* The arrays.  Both start with room for two and are only grown once they     *)
(* are full, after the write; parse_job does not even look after its first.   *)

Room ==
    /\ cmdsCap >= 2 /\ jobsCap >= 2
    /\ pc = "parse" => Len(cmds) < cmdsCap /\ Len(jobs) < jobsCap
    /\ ArraysFit

LEMMA StepRoom == TypeOk /\ Room /\ [Next]_vars => Room'
<1> SUFFICES ASSUME TypeOk, Room, [Next]_vars PROVE Room'
  OBVIOUS
<1>a. /\ Len(cmds) \in Nat /\ Len(jobs) \in Nat /\ cmdsCap \in Nat /\ jobsCap \in Nat
  BY DEF TypeOk
<1>1. ASSUME NEW value, NEW memory, Return(value, memory) PROVE Room'
  BY <1>1 DEF Return, Room, ArraysFit
<1>2. CASE ParseEmpty \/ ParseRepeat \/ NoCommand \/ NoTarget \/ LastJob
  BY <1>2, <1>1 DEF ParseEmpty, ParseRepeat, NoCommand, NoTarget, LastJob, Fail
<1>3. CASE AllocationFails \/ RedirectionsFail \/ CommandsFail \/ JobsFail
  BY <1>3, <1>1 DEF AllocationFails, RedirectionsFail, CommandsFail, JobsFail, Fail
<1>4. CASE ParseJobs
  BY <1>4 DEF ParseJobs, Room, ArraysFit
<1>5. CASE Word \/ EndWords \/ Redirect
  BY <1>5 DEF Word, EndWords, Redirect, Room, ArraysFit
<1>6. CASE EndCommand
  <2>1. Len(cmds') = Len(cmds) + 1 /\ Len(cmds) < cmdsCap /\ Len(jobs) < jobsCap
    BY <1>6, <1>a DEF EndCommand, Room, ArraysFit, TypeOk
  <2>2. CASE cmds = <<>>
    BY <1>6, <2>1, <2>2, <1>a DEF EndCommand, Room, ArraysFit
  <2>3. CASE cmds # <<>>
    BY <1>6, <2>1, <2>3, <1>a DEF EndCommand, Room, ArraysFit, Growth
  <2>4. QED
    BY <2>2, <2>3
<1>7. CASE EndJob
  <2>1. Len(jobs') = Len(jobs) + 1 /\ Len(jobs) < jobsCap
    BY <1>7, <1>a DEF EndJob, Room, ArraysFit, TypeOk
  <2>2. cmds' = <<>> /\ cmdsCap' = InitCapacity /\ jobsCap' = Growth(jobsCap, Len(jobs'))
    BY <1>7 DEF EndJob
  <2>3. Len(cmds') = 0
    BY <2>2
  <2>4. QED
    BY <2>1, <2>2, <2>3, <1>a, CapacityAssumption DEF Room, ArraysFit, Growth
<1>8. CASE Returned \/ UNCHANGED vars
  BY <1>8 DEF Returned, vars, Room, ArraysFit
<1>9. QED
  BY <1>2, <1>3, <1>4, <1>5, <1>6, <1>7, <1>8 DEF Next

LEMMA InitRoom == Init => TypeInv /\ Room
<1>1. Init => Len(cmds) = 0 /\ Len(jobs) = 0
  BY DEF Init
<1>2. QED
  BY <1>1, InitType, CapacityAssumption DEF Init, Room, ArraysFit

\* A command and a job are always written inside their arrays.
THEOREM ArraysCorrect == Spec => []ArraysFit
<1>1. TypeInv /\ Room /\ [Next]_vars => (TypeInv /\ Room)'
  BY StepType, StepRoom DEF TypeInv
<1>2. Room => ArraysFit
  BY DEF Room
<1>3. QED
  BY InitRoom, <1>1, <1>2, PTL DEF Spec

-----------------------------------------------------------------------------
(* The grammar.  What is behind the index is what the grammar allows; a word  *)
(* after a redirection is not, and ends the loop over the redirections.       *)

\* The tokens before position i start with a word, and each follows its
\* predecessor.
AllowedBefore(i) ==
    /\ i > 1 /\ tokens[1] = "WORD"
    /\ \A k \in 1 .. i - 2 : MayFollow(k, tokens[k + 1])

AfterWord(i) == AllowedBefore(i) /\ tokens[i - 1] = "WORD"

\* Where parse_simple_cmd is called.
AtCommand(i) ==
    IF i = 1 THEN tokens[1] \notin Ends \cup {"EXCLAM"}
    ELSE /\ AllowedBefore(i)
         /\ \/ tokens[i - 1] = "PIPE"
            \/ tokens[i - 1] \in Separators /\ tokens[i] \notin Ends

\* Where the index is in each loop.
GrammarAt(i) ==
    /\ pc = "parse" => i = 1 /\ argv = <<>>
    /\ pc = "command" =>
          IF argv = <<>> THEN AtCommand(i) ELSE AfterWord(i) /\ ~AfterRedirection(i)
    /\ pc \in {"redirections", "job"} =>
          AfterWord(i) /\ (tokens[i] = "WORD" => AfterRedirection(i))
    /\ pc = "job" => tokens[i] \notin Angles \cup {"PIPE"} /\ argv = <<>>

GrammarInv == DecidesGrammar /\ (TargetsAreWords => GrammarAt(idx))

\* A redirection before the next token: this one, or one before it in the
\* same command.
LEMMA AfterNext ==
    ASSUME TokensEnd, NEW i \in 1 .. Len(tokens)
    PROVE  AfterRedirection(i + 1) <=>
              \/ tokens[i] \in Angles
              \/ AfterRedirection(i) /\ tokens[i] \notin Separators \cup {"PIPE"}
<1>0. Len(tokens) \in Nat /\ i \in Nat
  BY DEF TokensEnd
<1>1. ASSUME tokens[i] \in Angles PROVE AfterRedirection(i + 1)
  <2>1. i \in 1 .. (i + 1) - 1 /\ \A k \in i .. (i + 1) - 1 : tokens[k] \notin Separators \cup {"PIPE"}
    BY <1>0, <1>1 DEF Angles, Separators
  <2>2. QED
    BY <2>1, <1>1 DEF AfterRedirection
<1>2. ASSUME AfterRedirection(i), tokens[i] \notin Separators \cup {"PIPE"}
      PROVE  AfterRedirection(i + 1)
  <2>1. PICK j \in 1 .. i - 1 : /\ tokens[j] \in Angles
                                /\ \A k \in j .. i - 1 : tokens[k] \notin Separators \cup {"PIPE"}
    BY <1>2 DEF AfterRedirection
  <2>2. j \in 1 .. (i + 1) - 1 /\ \A k \in j .. (i + 1) - 1 : tokens[k] \notin Separators \cup {"PIPE"}
    BY <1>0, <1>2, <2>1
  <2>3. QED
    BY <2>1, <2>2 DEF AfterRedirection
<1>3. ASSUME AfterRedirection(i + 1), tokens[i] \notin Angles
      PROVE  AfterRedirection(i) /\ tokens[i] \notin Separators \cup {"PIPE"}
  <2>1. PICK j \in 1 .. (i + 1) - 1 :
               /\ tokens[j] \in Angles
               /\ \A k \in j .. (i + 1) - 1 : tokens[k] \notin Separators \cup {"PIPE"}
    BY <1>3 DEF AfterRedirection
  <2>2. j # i /\ j \in 1 .. i - 1
    BY <2>1, <1>3, <1>0
  <2>3. i \in j .. (i + 1) - 1 /\ \A k \in j .. i - 1 : k \in j .. (i + 1) - 1
    BY <2>2, <1>0
  <2>4. QED
    BY <2>1, <2>2, <2>3 DEF AfterRedirection
<1>4. QED
  BY <1>1, <1>2, <1>3

\* A position at which the next token is allowed makes one more.
LEMMA AllowedNext ==
    ASSUME TokensEnd, NEW i \in 1 .. Len(tokens), AllowedBefore(i),
           MayFollow(i - 1, tokens[i])
    PROVE  AllowedBefore(i + 1)
<1>0. Len(tokens) \in Nat /\ i \in Nat
  BY DEF TokensEnd
<1>1. ASSUME NEW k \in 1 .. (i + 1) - 2 PROVE MayFollow(k, tokens[k + 1])
  <2>1. CASE k = i - 1
    BY <2>1, <1>0
  <2>2. CASE k # i - 1
    BY <2>2, <1>0 DEF AllowedBefore
  <2>3. QED
    BY <2>1, <2>2
<1>2. QED
  BY <1>0, <1>1 DEF AllowedBefore

\* One token that may not follow, and the line is not in the grammar.
LEMMA NotAllowed ==
    ASSUME TokensEnd, NEW i \in 1 .. Len(tokens) - 1, ~MayFollow(i, tokens[i + 1]),
           tokens[1] = "WORD"
    PROVE  ~InGrammar
<1>1. ~IsJobs
  BY DEF IsJobs
<1>2. tokens \notin {<<"END">>, <<"NONE">>, <<"EXCLAM", "WORD", "END">>}
  OBVIOUS
<1>3. QED
  BY <1>1, <1>2 DEF InGrammar

\* The line is in the grammar once all of it is allowed and ends.
LEMMA AllAllowed ==
    ASSUME TokensEnd, NEW i \in 1 .. Len(tokens), tokens[i] \in Ends,
           AllowedBefore(i), MayFollow(i - 1, "END")
    PROVE  InGrammar <=> tokens[i] = "END"
<1>0. Len(tokens) \in Nat /\ i \in Nat /\ i = Len(tokens) /\ i > 1
  BY DEF TokensEnd, AllowedBefore
<1>1. ASSUME tokens[i] = "END" PROVE IsJobs
  <2>1. AllowedBefore(i + 1)
    BY <1>1, AllowedNext
  <2>2. Last(tokens) = "END"
    BY <1>0, <1>1 DEF Last
  <2>3. QED
    BY <2>1, <2>2, <1>0 DEF IsJobs, AllowedBefore
<1>2. ASSUME tokens[i] # "END" PROVE ~InGrammar
  <2>1. Last(tokens) # "END"
    BY <1>0, <1>2 DEF Last
  <2>2. tokens \notin {<<"END">>, <<"NONE">>, <<"EXCLAM", "WORD", "END">>}
    BY DEF AllowedBefore
  <2>3. QED
    BY <2>1, <2>2 DEF InGrammar, IsJobs
<1>3. QED
  BY <1>1, <1>2 DEF InGrammar

\* Whether the redirections name words, and the grammar, depend on the tokens.
LEMMA SameTokens ==
    ASSUME tokens' = tokens, NEW i
    PROVE  /\ TargetsAreWords' = TargetsAreWords
           /\ InGrammar' = InGrammar
           /\ AfterRedirection(i)' = AfterRedirection(i)
           /\ AllowedBefore(i)' = AllowedBefore(i)
<1>1. TargetsAreWords' = TargetsAreWords
  BY DEF TargetsAreWords
<1>2. ASSUME NEW k PROVE AfterRedirection(k)' = AfterRedirection(k)
  BY DEF AfterRedirection
<1>3. ASSUME NEW k, NEW t PROVE MayFollow(k, t)' = MayFollow(k, t)
  BY <1>2 DEF MayFollow
<1>4. AllowedBefore(i)' = AllowedBefore(i)
  BY <1>3 DEF AllowedBefore
<1>5. IsJobs' = IsJobs
  <2>1. (\A k \in 1 .. Len(tokens) - 1 : MayFollow(k, tokens[k + 1]))' =
        (\A k \in 1 .. Len(tokens) - 1 : MayFollow(k, tokens[k + 1]))
    BY <1>3
  <2>2. QED
    BY <2>1 DEF IsJobs
<1>6. InGrammar' = InGrammar
  BY <1>5 DEF InGrammar
<1>7. QED
  BY <1>1, <1>2, <1>4, <1>6

\* A step that does not return keeps the invariant when it is at a place that
\* the grammar allows.
LEMMA GoesOn ==
    ASSUME tokens' = tokens, pc' # "done", NEW i, idx' = i,
           TargetsAreWords => GrammarAt(i)'
    PROVE  GrammarInv'
<1>1. DecidesGrammar'
  BY DEF DecidesGrammar
<1>2. GrammarAt(i)' = GrammarAt(idx)'
  BY DEF GrammarAt, AtCommand, AfterWord, AllowedBefore, AfterRedirection
<1>3. QED
  BY <1>1, <1>2, SameTokens DEF GrammarInv

\* A step that returns keeps it when it decides.
LEMMA Decides ==
    ASSUME tokens' = tokens, pc' = "done",
           result' = "MEMORY_ERROR" \/
             (TargetsAreWords => (result' = "SUCCESS" <=> InGrammar))
    PROVE  GrammarInv'
<1>1. DecidesGrammar'
  BY SameTokens DEF DecidesGrammar
<1>2. GrammarAt(idx)'
  BY DEF GrammarAt
<1>3. QED
  BY <1>1, <1>2 DEF GrammarInv

LEMMA StepGrammar == TypeInv /\ GrammarInv /\ [Next]_vars => GrammarInv'
<1> SUFFICES ASSUME TypeInv, GrammarInv, [Next]_vars PROVE GrammarInv'
  OBVIOUS
<1>a. TokensEnd /\ idx \in 1 .. Len(tokens) /\ Len(tokens) \in Nat
  BY DEF TypeInv, TypeOk, Positions, TokensEnd
<1>b. TargetsAreWords => GrammarAt(idx)
  BY DEF GrammarInv
<1>c. ASSUME idx > 1, TargetsAreWords, AfterWord(idx), ~MayFollow(idx - 1, Token)
      PROVE  ~InGrammar
  <2>1. idx - 1 \in 1 .. Len(tokens) - 1
    BY <1>a, <1>c
  <2>2. QED
    BY <1>a, <1>c, <2>1, NotAllowed DEF AfterWord, AllowedBefore, Token
<1>1. CASE ParseEmpty
  <2>1. tokens' = tokens /\ pc' = "done" /\ result' = "SUCCESS"
    BY <1>1 DEF ParseEmpty, Return
  <2>2. ASSUME TargetsAreWords PROVE InGrammar
    <3>1. idx = 1 /\ tokens[1] \in Ends /\ Len(tokens) = 1
      BY <1>1, <1>a, <1>b, <2>2 DEF ParseEmpty, GrammarAt, Token, TokensEnd
    <3>2. tokens = <<tokens[1]>>
      BY <3>1, <1>a DEF TokensEnd
    <3>3. QED
      BY <3>1, <3>2 DEF InGrammar, Ends
  <2>3. QED
    BY <2>1, <2>2, Decides
<1>2. CASE ParseRepeat
  <2>1. tokens' = tokens /\ pc' = "done"
    BY <1>2 DEF ParseRepeat, Return
  <2>2. ASSUME TargetsAreWords PROVE result' = "SUCCESS" <=> InGrammar
    <3>1. idx = 1 /\ tokens[1] = "EXCLAM"
      BY <1>2, <1>b, <2>2 DEF ParseRepeat, GrammarAt, Token
    <3>2. ~IsJobs /\ tokens \notin {<<"END">>, <<"NONE">>}
      BY <3>1 DEF IsJobs
    <3>3. CASE tokens[2] # "WORD"
      <4>1. result' = "COMMAND_LINE_FAIL"
        BY <1>2, <3>1, <3>3 DEF ParseRepeat, Return
      <4>2. tokens # <<"EXCLAM", "WORD", "END">>
        BY <3>3
      <4>3. QED
        BY <3>2, <4>1, <4>2 DEF InGrammar
    <3>4. CASE tokens[2] = "WORD"
      <4>1. result' = Verdict(3)
        BY <1>2, <3>1, <3>4 DEF ParseRepeat, Return
      <4>2. ASSUME tokens[3] = "END" PROVE tokens = <<"EXCLAM", "WORD", "END">>
        <5>1. 2 \in 1 .. Len(tokens) /\ 3 \in 1 .. Len(tokens)
          BY <1>a, <3>1, <3>4, TokenFollows DEF Ends
        <5>2. Len(tokens) = 3
          BY <1>a, <5>1, <4>2 DEF TokensEnd, Ends
        <5>3. QED
          BY <3>1, <3>4, <4>2, <5>2, <1>a DEF TokensEnd
      <4>3. tokens = <<"EXCLAM", "WORD", "END">> => tokens[3] = "END"
        OBVIOUS
      <4>4. QED
        BY <3>2, <4>1, <4>2, <4>3 DEF InGrammar, Verdict, AtEnd
    <3>5. QED
      BY <3>3, <3>4
  <2>3. QED
    BY <2>1, <2>2, Decides
<1>3. CASE ParseJobs
  <2>1. tokens' = tokens /\ pc' = "command" /\ idx' = idx /\ argv' = argv
    BY <1>3 DEF ParseJobs
  <2>2. TargetsAreWords => GrammarAt(idx)'
    BY <1>3, <1>b, <2>1 DEF ParseJobs, GrammarAt, AtCommand, Token
  <2>3. QED
    BY <2>1, <2>2, GoesOn
<1>4. CASE NoCommand
  <2>1. tokens' = tokens /\ pc' = "done" /\ result' # "SUCCESS"
    BY <1>4 DEF NoCommand, Fail, Return
  <2>2. ASSUME TargetsAreWords PROVE ~InGrammar
    <3>1. AtCommand(idx) /\ tokens[idx] # "WORD"
      BY <1>4, <1>b, <2>2 DEF NoCommand, GrammarAt, Token
    <3>2. CASE idx = 1
      BY <3>1, <3>2 DEF AtCommand, InGrammar, IsJobs, Ends
    <3>3. CASE idx # 1
      <4>1. idx - 1 \in 1 .. Len(tokens) - 1 /\ tokens[1] = "WORD" /\ (idx - 1) + 1 = idx
        BY <1>a, <3>1, <3>3 DEF AtCommand, AllowedBefore
      <4>2. ~MayFollow(idx - 1, tokens[idx])
        BY <3>1, <3>3 DEF AtCommand, MayFollow, Ends, Separators, Angles
      <4>3. QED
        BY <4>1, <4>2, <1>a, NotAllowed
    <3>4. QED
      BY <3>2, <3>3
  <2>3. QED
    BY <2>1, <2>2, Decides
<1>5. CASE Word
  <2> PICK i : i = idx + 1
    OBVIOUS
  <2>1. /\ tokens' = tokens /\ pc' = "command" /\ idx' = i
        /\ argv' = Append(argv, idx) /\ tokens[idx] = "WORD" /\ pc = "command"
    BY <1>5 DEF Word, Token
  <2>2. argv' # <<>>
    BY <2>1 DEF TypeInv, TypeOk
  <2>3. ASSUME TargetsAreWords PROVE AfterWord(i) /\ ~AfterRedirection(i)
    <3>1. CASE idx = 1
      <4>1. AfterWord(i)
        BY <3>1, <2>1 DEF AfterWord, AllowedBefore
      <4>2. ~AfterRedirection(i)
        BY <3>1, <2>1 DEF AfterRedirection, Angles
      <4>3. QED
        BY <4>1, <4>2
    <3>2. CASE idx # 1 /\ argv = <<>>
      <4>1. /\ AllowedBefore(idx) /\ idx - 1 \in 1 .. Len(tokens)
            /\ tokens[idx - 1] \in Separators \cup {"PIPE"}
        BY <1>a, <1>b, <2>1, <2>3, <3>2 DEF GrammarAt, AtCommand, AllowedBefore
      <4>2. MayFollow(idx - 1, "WORD")
        BY <4>1 DEF MayFollow, Separators, Angles
      <4>3. AllowedBefore(i)
        BY <4>1, <4>2, <2>1, <1>a, AllowedNext
      <4>4. ~AfterRedirection(idx - 1 + 1)
        BY <4>1, <1>a, AfterNext DEF Separators, Angles
      <4>5. ~AfterRedirection(i)
        BY <4>4, <2>1, <1>a, AfterNext DEF Angles
      <4>6. QED
        BY <4>3, <4>5, <2>1, <1>a DEF AfterWord
    <3>3. CASE idx # 1 /\ argv # <<>>
      <4>1. /\ AfterWord(idx) /\ ~AfterRedirection(idx) /\ idx - 1 \in 1 .. Len(tokens)
        BY <1>a, <1>b, <2>1, <2>3, <3>3 DEF GrammarAt, AfterWord, AllowedBefore
      <4>2. ~AfterRedirection(idx - 1)
        <5>1. ~AfterRedirection(idx - 1 + 1)
          BY <4>1, <1>a
        <5>2. QED
          BY <4>1, <5>1, <1>a, AfterNext DEF AfterWord, Separators
      <4>3. MayFollow(idx - 1, "WORD")
        BY <4>1, <4>2 DEF MayFollow, AfterWord, Separators, Angles
      <4>4. AllowedBefore(i)
        BY <4>1, <4>3, <2>1, <1>a, AllowedNext DEF AfterWord
      <4>5. ~AfterRedirection(i)
        BY <4>1, <2>1, <1>a, AfterNext DEF Angles
      <4>6. QED
        BY <4>4, <4>5, <2>1, <1>a DEF AfterWord
    <3>4. QED
      BY <3>1, <3>2, <3>3
  <2>4. TargetsAreWords => GrammarAt(i)'
    BY <2>1, <2>2, <2>3, SameTokens DEF GrammarAt, AfterWord
  <2>5. QED
    BY <2>1, <2>4, GoesOn
<1>6. CASE EndWords
  <2>1. /\ tokens' = tokens /\ pc' = "redirections" /\ idx' = idx
        /\ argv # <<>> /\ tokens[idx] # "WORD" /\ pc = "command"
    BY <1>6 DEF EndWords, Token
  <2>2. TargetsAreWords => GrammarAt(idx)'
    BY <2>1, <1>b, SameTokens DEF GrammarAt, AfterWord
  <2>3. QED
    BY <2>1, <2>2, GoesOn
<1>7. CASE Redirect
  <2> PICK i : i = idx + 2
    OBVIOUS
  <2>1. /\ tokens' = tokens /\ pc' = "redirections" /\ idx' = i
        /\ tokens[idx] \in Angles /\ tokens[idx + 1] \notin Ends /\ pc = "redirections"
    BY <1>7 DEF Redirect, Token, IsTarget
  <2>2. ASSUME TargetsAreWords PROVE AfterWord(i) /\ AfterRedirection(i)
    <3>1. idx + 1 \in 1 .. Len(tokens)
      BY <2>1, <1>a, TokenFollows DEF Angles, Ends
    <3>2. tokens[idx + 1] = "WORD"
      BY <2>1, <2>2, <3>1, <1>a DEF TargetsAreWords
    <3>3. AfterWord(idx) /\ MayFollow(idx - 1, tokens[idx])
      BY <1>b, <2>1, <2>2 DEF GrammarAt, AfterWord, MayFollow, Angles, Separators
    <3>4. AllowedBefore(idx + 1)
      BY <1>a, <3>3, AllowedNext DEF AfterWord
    <3>5. MayFollow(idx, "WORD")
      BY <2>1 DEF MayFollow, Angles
    <3>6. AllowedBefore(idx + 1 + 1)
      <4>1. MayFollow(idx + 1 - 1, tokens[idx + 1])
        BY <3>2, <3>5, <1>a
      <4>2. QED
        BY <1>a, <3>1, <3>4, <4>1, AllowedNext
    <3>7. AfterRedirection(idx + 1)
      BY <1>a, <2>1, AfterNext
    <3>8. AfterRedirection(idx + 1 + 1)
      BY <1>a, <3>1, <3>2, <3>7, AfterNext DEF Separators
    <3>9. idx + 1 + 1 = i /\ i - 1 = idx + 1
      BY <1>a
    <3>10. QED
      BY <3>2, <3>6, <3>8, <3>9 DEF AfterWord
  <2>3. TargetsAreWords => GrammarAt(i)'
    BY <2>1, <2>2, SameTokens DEF GrammarAt, AfterWord
  <2>4. QED
    BY <2>1, <2>3, GoesOn
<1>8. CASE NoTarget
  <2>1. /\ tokens' = tokens /\ pc' = "done" /\ result' = "COMMAND_FAIL"
        /\ tokens[idx] \in Angles /\ tokens[idx + 1] \in Ends /\ pc = "redirections"
    BY <1>8 DEF NoTarget, Return, Token, IsTarget
  <2>2. ASSUME TargetsAreWords PROVE ~InGrammar
    <3>1. idx \in 1 .. Len(tokens) - 1
      BY <2>1, <1>a, TokenFollows DEF Angles, Ends
    <3>2. ~MayFollow(idx, tokens[idx + 1])
      BY <2>1 DEF MayFollow, Angles, Separators, Ends
    <3>3. QED
      BY <1>a, <1>b, <2>1, <2>2, <3>1, <3>2, NotAllowed DEF GrammarAt, AfterWord, AllowedBefore
  <2>3. QED
    BY <2>1, <2>2, Decides
<1>9. CASE EndCommand
  <2>0. /\ tokens' = tokens /\ argv' = <<>> /\ pc = "redirections" /\ tokens[idx] \notin Angles
    BY <1>9 DEF EndCommand, Token
  <2>1. CASE tokens[idx] = "PIPE"
    <3> PICK i : i = idx + 1
      OBVIOUS
    <3>1. pc' = "command" /\ idx' = i
      BY <1>9, <2>1 DEF EndCommand, Token
    <3>2. ASSUME TargetsAreWords PROVE AllowedBefore(i) /\ i # 1 /\ i - 1 = idx
      <4>1. AfterWord(idx) /\ MayFollow(idx - 1, tokens[idx])
        BY <1>b, <2>0, <2>1, <3>2 DEF GrammarAt, AfterWord, MayFollow, Angles, Separators
      <4>2. QED
        BY <1>a, <4>1, AllowedNext DEF AfterWord
    <3>3. TargetsAreWords => GrammarAt(i)'
      BY <2>0, <2>1, <3>1, <3>2, SameTokens DEF GrammarAt, AtCommand
    <3>4. QED
      BY <2>0, <3>1, <3>3, GoesOn
  <2>2. CASE tokens[idx] # "PIPE"
    <3>1. pc' = "job" /\ idx' = idx
      BY <1>9, <2>2 DEF EndCommand, Token
    <3>2. TargetsAreWords => GrammarAt(idx)'
      BY <1>b, <2>0, <2>2, <3>1, SameTokens DEF GrammarAt, AfterWord
    <3>3. QED
      BY <2>0, <3>1, <3>2, GoesOn
  <2>3. QED
    BY <2>1, <2>2
<1>10. CASE EndJob
  <2> PICK i : i = idx + 1
    OBVIOUS
  <2>0. tokens' = tokens /\ argv' = argv /\ idx' = i /\ pc = "job" /\ tokens[idx] \in Separators
    BY <1>10 DEF EndJob, Token
  <2>1. i \in 1 .. Len(tokens) /\ i # 1 /\ i - 1 = idx
    BY <2>0, <1>a, TokenFollows DEF Separators, Ends
  <2>2. ASSUME TargetsAreWords PROVE AllowedBefore(i)
    <3>1. AfterWord(idx) /\ MayFollow(idx - 1, tokens[idx])
      BY <1>b, <2>0, <2>2 DEF GrammarAt, AfterWord, MayFollow, Angles, Separators
    <3>2. QED
      BY <1>a, <3>1, AllowedNext DEF AfterWord
  <2>3. CASE tokens[i] \in Ends
    <3>1. pc' = "done" /\ result' = Verdict(i)
      BY <1>10, <2>3 DEF EndJob
    <3>2. MayFollow(i - 1, "END")
      BY <2>0, <2>1 DEF MayFollow, Separators, Angles
    <3>3. TargetsAreWords => (InGrammar <=> tokens[i] = "END")
      BY <1>a, <2>1, <2>2, <2>3, <3>2, AllAllowed
    <3>4. QED
      BY <2>0, <3>1, <3>3, Decides DEF Verdict, AtEnd
  <2>4. CASE tokens[i] \notin Ends
    <3>1. pc' = "command" /\ (TargetsAreWords => argv = <<>>)
      BY <1>10, <1>b, <2>0, <2>4 DEF EndJob, GrammarAt
    <3>2. TargetsAreWords => GrammarAt(i)'
      BY <2>0, <2>1, <2>2, <2>4, <3>1, SameTokens DEF GrammarAt, AtCommand
    <3>3. QED
      BY <2>0, <3>1, <3>2, GoesOn
  <2>5. QED
    BY <2>3, <2>4
<1>11. CASE LastJob
  <2>1. /\ tokens' = tokens /\ pc' = "done" /\ result' = Verdict(idx)
        /\ pc = "job" /\ tokens[idx] \notin Separators
    BY <1>11 DEF LastJob, Return, Token
  <2>2. ASSUME TargetsAreWords PROVE InGrammar <=> tokens[idx] = "END"
    <3>1. /\ AfterWord(idx) /\ (tokens[idx] = "WORD" => AfterRedirection(idx))
          /\ tokens[idx] \notin Angles \cup {"PIPE"}
      BY <1>b, <2>1, <2>2 DEF GrammarAt
    <3>2. CASE tokens[idx] \in Ends
      <4>1. MayFollow(idx - 1, "END")
        BY <3>1 DEF MayFollow, AfterWord, Angles, Separators
      <4>2. QED
        BY <1>a, <3>1, <3>2, <4>1, AllAllowed DEF AfterWord
    <3>3. CASE tokens[idx] \notin Ends
      <4>1. idx - 1 \in 1 .. Len(tokens) - 1 /\ idx - 1 + 1 = idx
        BY <1>a, <3>1 DEF AfterWord, AllowedBefore
      <4>2. tokens[idx] \in {"WORD", "EXCLAM"}
        BY <1>a, <2>1, <3>1, <3>3 DEF TokensEnd, TokenTypes
      <4>3. tokens[idx] = "WORD" => AfterRedirection(idx - 1)
        <5>1. tokens[idx] = "WORD" => AfterRedirection(idx - 1 + 1)
          BY <3>1, <4>1
        <5>2. QED
          BY <5>1, <3>1, <4>1, <1>a, AfterNext DEF AfterWord, Angles
      <4>4. ~MayFollow(idx - 1, tokens[idx])
        BY <3>1, <4>2, <4>3 DEF AfterWord, MayFollow, Angles, Separators
      <4>5. QED
        BY <1>a, <3>1, <3>3, <4>1, <4>4, NotAllowed DEF AfterWord, AllowedBefore, Ends
    <3>4. QED
      BY <3>2, <3>3
  <2>3. QED
    BY <2>1, <2>2, Decides DEF Verdict, AtEnd
<1>12. CASE AllocationFails \/ RedirectionsFail \/ CommandsFail \/ JobsFail
  <2>1. tokens' = tokens /\ pc' = "done" /\ result' = "MEMORY_ERROR"
    BY <1>12 DEF AllocationFails, RedirectionsFail, CommandsFail, JobsFail, Fail, Return
  <2>2. QED
    BY <2>1, Decides
<1>13. CASE Returned \/ UNCHANGED vars
  <2>1. tokens' = tokens /\ pc' = pc /\ idx' = idx /\ argv' = argv /\ result' = result
    BY <1>13 DEF Returned, vars
  <2>2. DecidesGrammar'
    BY <2>1, SameTokens DEF GrammarInv, DecidesGrammar
  <2>3. TargetsAreWords => GrammarAt(idx)'
    BY <2>1, <1>b, SameTokens DEF GrammarAt, AtCommand, AfterWord
  <2>4. QED
    BY <2>1, <2>2, <2>3, SameTokens DEF GrammarInv
<1>14. QED
  BY <1>1, <1>2, <1>3, <1>4, <1>5, <1>6, <1>7, <1>8, <1>9, <1>10, <1>11, <1>12,
     <1>13 DEF Next

LEMMA InitGrammar == Init => TypeInv /\ GrammarInv
BY InitType DEF Init, GrammarInv, GrammarAt, DecidesGrammar

\* What parse accepts is the grammar, for every line in which redirections name
\* words; only a failed allocation keeps it from deciding.
THEOREM GrammarCorrect == Spec => []DecidesGrammar
<1>1. TypeInv /\ GrammarInv /\ [Next]_vars => (TypeInv /\ GrammarInv)'
  BY StepType, StepGrammar
<1>2. GrammarInv => DecidesGrammar
  BY DEF GrammarInv
<1>3. QED
  BY InitGrammar, <1>1, <1>2, PTL DEF Spec

-----------------------------------------------------------------------------
(* Memory.  What is allocated is owned by the jobs, by the job that is being  *)
(* parsed, or by its last command.                                            *)

HasPipe == \E i \in DOMAIN tokens : tokens[i] = "PIPE"

HeldIsOwned ==
    /\ pc = "parse" => held = {} /\ jobs = <<>> /\ cmds = <<>>
    /\ pc \in {"command", "job"} => held = OwnedByJobs \cup Owned(Job("FG"))
    /\ pc = "redirections" =>
          held = OwnedByJobs \cup Owned(Job("FG")) \cup {argv[1]}
    /\ pc \in {"command", "redirections"} /\ cmds # <<>> => HasPipe

MemoryInv == NothingLeaks /\ (TargetsAreWords => HeldIsOwned)

\* The kind of a job does not matter to what it owns.
LEMMA JobOwns ==
    ASSUME NEW kind
    PROVE  Owned(Job(kind)) = Owned(Job("FG"))
BY DEF Owned, Job

\* A new job adds what it owns.
LEMMA JobAdded ==
    ASSUME jobs \in Seq(Jobs), NEW job, jobs' = Append(jobs, job), job \in Jobs
    PROVE  OwnedByJobs' = OwnedByJobs \cup Owned(job)
<1> DEFINE owned(i) == Owned(jobs'[i])
<1>1. /\ Len(jobs') = Len(jobs) + 1 /\ Len(jobs) \in Nat /\ jobs'[Len(jobs')] = job
      /\ \A i \in 1 .. Len(jobs) : jobs'[i] = jobs[i]
  OBVIOUS
<1>2. OwnedByJobs' = UNION {owned(i) : i \in 1 .. Len(jobs')}
  BY DEF OwnedByJobs, Owned
<1>3. \A i \in 1 .. Len(jobs) : owned(i) = Owned(jobs[i])
  BY <1>1
<1>4. owned(Len(jobs) + 1) = Owned(job)
  BY <1>1
<1>5. 1 .. Len(jobs') = 1 .. Len(jobs) \cup {Len(jobs) + 1}
  BY <1>1
<1> HIDE DEF owned
<1>6. QED
  BY <1>2, <1>3, <1>4, <1>5 DEF OwnedByJobs

\* A new command adds its words.
LEMMA CommandAdded ==
    ASSUME cmds \in Seq(Commands), NEW c \in Commands, cmds' = Append(cmds, c)
    PROVE  Owned(Job("FG"))' = Owned(Job("FG")) \cup {c.argv[1]}
<1>1. /\ Len(cmds') = Len(cmds) + 1 /\ Len(cmds) \in Nat /\ cmds'[Len(cmds')] = c
      /\ \A i \in 1 .. Len(cmds) : cmds'[i] = cmds[i]
  OBVIOUS
<1>2. 1 .. Len(cmds') = 1 .. Len(cmds) \cup {Len(cmds) + 1}
  BY <1>1
<1>3. Owned(Job("FG"))' = {cmds'[i].argv[1] : i \in 1 .. Len(cmds')}
  BY DEF Owned, Job
<1>4. Owned(Job("FG")) = {cmds[i].argv[1] : i \in 1 .. Len(cmds)}
  BY DEF Owned, Job
<1>5. QED
  BY <1>1, <1>2, <1>3, <1>4

\* What stays allocated when a command cannot be parsed is of that pipeline.
LEMMA KeptInPipeline ==
    ASSUME TypeOk, HeldIsOwned, pc \in {"parse", "command"},
           NEW mem, mem \subseteq KeptOnError
    PROVE  mem = {} \/ (HasPipe /\ mem \subseteq Owned(Job("FG")))
<1>1. cmds = <<>> => Owned(Job("FG")) = {}
  BY DEF Owned, Job
<1>2. QED
  BY <1>1 DEF HeldIsOwned, KeptOnError

\* Returning an error keeps the invariant when what stays allocated is of the
\* pipeline that was being parsed.
LEMMA ReturnsError ==
    ASSUME NEW memory, NEW value, value # "SUCCESS", Return(value, memory),
           TargetsAreWords =>
              memory = {} \/ (HasPipe /\ memory \subseteq Owned(Job("FG")))
    PROVE  MemoryInv'
<1>1. /\ tokens' = tokens /\ argv' = argv /\ cmds' = cmds /\ held' = memory
      /\ pc' = "done" /\ result' = value
  BY DEF Return
<1>2. Owned(Job("FG"))' = Owned(Job("FG"))
  BY <1>1 DEF Owned, Job
<1>3. HasPipe' = HasPipe /\ TargetsAreWords' = TargetsAreWords
  BY <1>1, SameTokens DEF HasPipe
<1>4. Owned(Job("FG"))' \subseteq InPipeline'
  BY DEF InPipeline
<1>5. NothingLeaks'
  BY <1>1, <1>2, <1>3, <1>4 DEF NothingLeaks, HasPipe
<1>6. HeldIsOwned'
  BY <1>1 DEF HeldIsOwned
<1>7. QED
  BY <1>5, <1>6 DEF MemoryInv

LEMMA StepMemory == TypeInv /\ GrammarInv /\ MemoryInv /\ [Next]_vars => MemoryInv'
<1> SUFFICES ASSUME TypeInv, GrammarInv, MemoryInv, [Next]_vars PROVE MemoryInv'
  OBVIOUS
<1>a. TokensEnd /\ TypeOk /\ HasWord
  BY DEF TypeInv
<1>b. TargetsAreWords => GrammarAt(idx) /\ HeldIsOwned
  BY DEF GrammarInv, MemoryInv
<1>c. cmds = <<>> => Owned(Job("FG")) = {}
  BY DEF Owned, Job
<1>1. CASE ParseEmpty \/ ParseRepeat
  <2>1. PICK value : Return(value, {})
    BY <1>1 DEF ParseEmpty, ParseRepeat
  <2>2. /\ tokens' = tokens /\ held' = {} /\ pc' = "done" /\ result' = value
    BY <2>1 DEF Return
  <2>3. TargetsAreWords => tokens[1] # "WORD"
    BY <1>1, <1>b DEF ParseEmpty, ParseRepeat, GrammarAt, Token, Ends
  <2>4. NothingLeaks'
    BY <2>2, <2>3, SameTokens DEF NothingLeaks
  <2>5. QED
    BY <2>2, <2>4 DEF MemoryInv, HeldIsOwned
<1>2. CASE ParseJobs
  <2>1. /\ tokens' = tokens /\ pc' = "command" /\ held' = held /\ cmds' = cmds
        /\ jobs' = jobs /\ pc = "parse"
    BY <1>2 DEF ParseJobs
  <2>2. TargetsAreWords => held = {} /\ jobs = <<>> /\ cmds = <<>>
    BY <1>b, <2>1 DEF HeldIsOwned
  <2>3. TargetsAreWords => OwnedByJobs' = {} /\ Owned(Job("FG"))' = {}
    BY <2>1, <2>2 DEF OwnedByJobs, Owned, Job
  <2>4. TargetsAreWords => HeldIsOwned'
    BY <2>1, <2>2, <2>3 DEF HeldIsOwned
  <2>5. QED
    BY <2>1, <2>4, SameTokens DEF MemoryInv, NothingLeaks
<1>3. CASE NoCommand \/ AllocationFails
  <2>1. PICK value : value # "SUCCESS" /\ Return(value, KeptOnError)
    BY <1>3 DEF NoCommand, AllocationFails, Fail
  <2>2. pc \in {"parse", "command"}
    BY <1>3 DEF NoCommand, AllocationFails
  <2>3. QED
    BY <2>1, <2>2, <1>a, <1>b, KeptInPipeline, ReturnsError
<1>4. CASE Word
  <2>1. /\ tokens' = tokens /\ pc' = pc /\ held' = held /\ cmds' = cmds
        /\ jobs' = jobs /\ pc = "command"
    BY <1>4 DEF Word
  <2>2. OwnedByJobs' = OwnedByJobs /\ Owned(Job("FG"))' = Owned(Job("FG")) /\ HasPipe' = HasPipe
    BY <2>1 DEF OwnedByJobs, Owned, Job, HasPipe
  <2>3. TargetsAreWords => HeldIsOwned'
    BY <1>b, <2>1, <2>2 DEF HeldIsOwned
  <2>4. QED
    BY <2>1, <2>3, SameTokens DEF MemoryInv, NothingLeaks
<1>5. CASE EndWords
  <2>1. /\ tokens' = tokens /\ pc' = "redirections" /\ held' = held \cup {argv[1]}
        /\ cmds' = cmds /\ jobs' = jobs /\ pc = "command" /\ argv' = argv
    BY <1>5 DEF EndWords
  <2>2. OwnedByJobs' = OwnedByJobs /\ Owned(Job("FG"))' = Owned(Job("FG")) /\ HasPipe' = HasPipe
    BY <2>1 DEF OwnedByJobs, Owned, Job, HasPipe
  <2>3. TargetsAreWords => HeldIsOwned'
    BY <1>b, <2>1, <2>2 DEF HeldIsOwned
  <2>4. QED
    BY <2>1, <2>3, SameTokens DEF MemoryInv, NothingLeaks
<1>6. CASE Redirect
  <2>1. /\ tokens' = tokens /\ pc' = pc /\ held' = held /\ cmds' = cmds
        /\ jobs' = jobs /\ pc = "redirections" /\ argv' = argv
    BY <1>6 DEF Redirect
  <2>2. OwnedByJobs' = OwnedByJobs /\ Owned(Job("FG"))' = Owned(Job("FG")) /\ HasPipe' = HasPipe
    BY <2>1 DEF OwnedByJobs, Owned, Job, HasPipe
  <2>3. TargetsAreWords => HeldIsOwned'
    BY <1>b, <2>1, <2>2 DEF HeldIsOwned
  <2>4. QED
    BY <2>1, <2>3, SameTokens DEF MemoryInv, NothingLeaks
<1>7. CASE NoTarget \/ RedirectionsFail
  <2> DEFINE kept == KeptOnError \ {argv[1]}
  <2>1. PICK value : value # "SUCCESS" /\ Return(value, kept)
    BY <1>7 DEF NoTarget, RedirectionsFail
  <2>2. pc = "redirections"
    BY <1>7 DEF NoTarget, RedirectionsFail
  <2>3. TargetsAreWords => kept = {} \/ (HasPipe /\ kept \subseteq Owned(Job("FG")))
    BY <2>2, <1>b, <1>c DEF HeldIsOwned, KeptOnError
  <2> HIDE DEF kept
  <2>4. QED
    BY <2>1, <2>3, ReturnsError
<1>8. CASE EndCommand
  <2> PICK c : c = [argv |-> argv, redirections |-> redirs]
    OBVIOUS
  <2>1. /\ tokens' = tokens /\ held' = held /\ cmds' = Append(cmds, c)
        /\ jobs' = jobs /\ pc = "redirections"
    BY <1>8 DEF EndCommand
  <2>2. c \in Commands /\ c.argv[1] = argv[1]
    BY <1>a, <2>1 DEF TypeOk, HasWord, Commands
  <2>3. Owned(Job("FG"))' = Owned(Job("FG")) \cup {argv[1]}
    BY <1>a, <2>1, <2>2, CommandAdded DEF TypeOk
  <2>4. OwnedByJobs' = OwnedByJobs
    BY <2>1 DEF OwnedByJobs, Owned
  <2>5. pc' \in {"command", "job"} /\ (pc' = "command" => Token = "PIPE")
    BY <1>8 DEF EndCommand
  <2>6. pc' = "command" => HasPipe'
    BY <1>a, <2>1, <2>5 DEF HasPipe, Token, TypeOk, Positions, TokensEnd
  <2>7. TargetsAreWords => HeldIsOwned'
    BY <1>b, <2>1, <2>3, <2>4, <2>5, <2>6 DEF HeldIsOwned
  <2>8. QED
    BY <2>1, <2>5, <2>7, SameTokens DEF MemoryInv, NothingLeaks
<1>9. CASE EndJob
  <2> PICK kind \in {"BG", "FG"} : jobs' = Append(jobs, Job(kind))
    BY <1>9 DEF EndJob
  <2>1. tokens' = tokens /\ cmds' = <<>> /\ pc = "job"
    BY <1>9 DEF EndJob
  <2>2. OwnedByJobs' = OwnedByJobs \cup Owned(Job("FG"))
    BY <1>a, JobType, JobAdded, JobOwns DEF TypeOk
  <2>3. Owned(Job("FG"))' = {}
    BY <2>1 DEF Owned, Job
  <2>4. TargetsAreWords => held = OwnedByJobs'
    BY <1>b, <2>1, <2>2 DEF HeldIsOwned
  <2>5. CASE pc' = "command"
    <3>1. held' = held
      BY <1>9, <2>5 DEF EndJob
    <3>2. TargetsAreWords => HeldIsOwned'
      BY <2>1, <2>3, <2>4, <2>5, <3>1 DEF HeldIsOwned
    <3>3. QED
      BY <2>1, <2>5, <3>2, SameTokens DEF MemoryInv, NothingLeaks
  <2>6. CASE pc' = "done"
    <3>1. \/ result' = "SUCCESS" /\ held' = held
          \/ result' # "SUCCESS" /\ held' = {}
      BY <1>9, <2>6 DEF EndJob, Verdict
    <3>2. TargetsAreWords => tokens[1] = "WORD"
      BY <1>b, <2>1 DEF GrammarAt, AfterWord, AllowedBefore
    <3>3. NothingLeaks'
      BY <2>1, <2>4, <3>1, <3>2, SameTokens DEF NothingLeaks
    <3>4. QED
      BY <2>6, <3>3 DEF MemoryInv, HeldIsOwned
  <2>7. QED
    BY <1>9, <2>5, <2>6 DEF EndJob
<1>10. CASE LastJob
  <2>1. tokens' = tokens /\ pc = "job" /\ pc' = "done" /\ jobs' = JobsAtEnd
    BY <1>10 DEF LastJob, Return
  <2>2. ASSUME TargetsAreWords PROVE NothingLeaks'
    <3>1. tokens[1] = "WORD" /\ tokens[idx - 1] = "WORD"
      BY <1>b, <2>1, <2>2 DEF GrammarAt, AfterWord, AllowedBefore
    <3>2. LastJobAdded
      BY <3>1 DEF LastJobAdded, Separators
    <3>3. jobs' = Append(jobs, Job("FG")) /\ Lost = {}
      BY <2>1, <3>2 DEF JobsAtEnd, Lost
    <3>4. OwnedByJobs' = OwnedByJobs \cup Owned(Job("FG"))
      BY <1>a, <3>3, JobType, JobAdded DEF TypeOk
    <3>5. held = OwnedByJobs'
      BY <1>b, <2>1, <2>2, <3>4 DEF HeldIsOwned
    <3>6. \/ result' = "SUCCESS" /\ held' = held
          \/ result' # "SUCCESS" /\ held' = {}
      BY <1>10, <3>3 DEF LastJob, Return, Verdict
    <3>7. QED
      BY <2>1, <3>1, <3>5, <3>6 DEF NothingLeaks
  <2>3. NothingLeaks'
    BY <2>1, <2>2, SameTokens DEF NothingLeaks
  <2>4. QED
    BY <2>1, <2>3 DEF MemoryInv, HeldIsOwned
<1>11. CASE CommandsFail
  <2>1. Return("MEMORY_ERROR", KeptOnError) /\ pc = "redirections" /\ cmds # <<>>
    BY <1>11 DEF CommandsFail, Fail
  <2>2. HeldIsOwned => KeptOnError \subseteq InPipeline /\ HasPipe
    BY <2>1, <1>a DEF HeldIsOwned, KeptOnError, InPipeline, HasWord
  <2>3. /\ tokens' = tokens /\ held' = KeptOnError /\ pc' = "done"
        /\ result' = "MEMORY_ERROR" /\ InPipeline' = InPipeline /\ HasPipe' = HasPipe
    BY <2>1 DEF Return, InPipeline, Owned, Job, HasPipe
  <2>4. NothingLeaks'
    BY <1>b, <2>2, <2>3, SameTokens DEF NothingLeaks, HasPipe
  <2>5. QED
    BY <2>3, <2>4 DEF MemoryInv, HeldIsOwned
<1>12. CASE JobsFail
  <2> DEFINE kept == KeptOnError \ Owned(Job("FG"))
  <2>1. Return("MEMORY_ERROR", kept) /\ pc = "job"
    BY <1>12 DEF JobsFail
  <2>2. TargetsAreWords => kept = {}
    BY <1>b, <2>1 DEF HeldIsOwned, KeptOnError
  <2> HIDE DEF kept
  <2>3. QED
    BY <2>1, <2>2, ReturnsError
<1>13. CASE Returned \/ UNCHANGED vars
  <2>1. /\ tokens' = tokens /\ pc' = pc /\ held' = held /\ cmds' = cmds
        /\ jobs' = jobs /\ argv' = argv /\ result' = result
    BY <1>13 DEF Returned, vars
  <2>2. OwnedByJobs' = OwnedByJobs /\ Owned(Job("FG"))' = Owned(Job("FG")) /\ HasPipe' = HasPipe
    BY <2>1 DEF OwnedByJobs, Owned, Job, HasPipe
  <2>3. InPipeline' = InPipeline
    BY <2>1, <2>2 DEF InPipeline
  <2>4. HeldIsOwned' = HeldIsOwned
    BY <2>1, <2>2 DEF HeldIsOwned
  <2>5. NothingLeaks' = NothingLeaks
    BY <2>1, <2>2, <2>3, SameTokens DEF NothingLeaks
  <2>6. QED
    BY <2>1, <2>4, <2>5, SameTokens DEF MemoryInv
<1>14. QED
  BY <1>1, <1>2, <1>3, <1>4, <1>5, <1>6, <1>7, <1>8, <1>9, <1>10, <1>11, <1>12,
     <1>13 DEF Next

LEMMA InitMemory == Init => MemoryInv
BY DEF Init, MemoryInv, HeldIsOwned, NothingLeaks

\* When parse returns, only destroy_ast's arrays are allocated, or commands of
\* the pipeline in which the error is.
THEOREM MemoryCorrect == Spec => []NothingLeaks
<1>1. TypeInv /\ GrammarInv /\ MemoryInv /\ [Next]_vars
         => (TypeInv /\ GrammarInv /\ MemoryInv)'
  BY StepType, StepGrammar, StepMemory
<1>2. MemoryInv => NothingLeaks
  BY DEF MemoryInv
<1>3. QED
  BY InitGrammar, InitMemory, <1>1, <1>2, PTL DEF Spec

-----------------------------------------------------------------------------
(* The tree.  The words behind the index are in the jobs, in the job that is  *)
(* being parsed and in its last command, in this order.                       *)

Current == [argv |-> argv, redirections |-> redirs]
WordsBefore(i) == {k \in 1 .. i - 1 : tokens[k] = "WORD"}

TreeAt(i) ==
    /\ pc \in {"parse", "command", "job"} => redirs = <<>>
    /\ pc \in {"parse", "job"} => argv = <<>>
    /\ TreeWords(jobs) \cup WordsOf(cmds) \cup CommandWords(Current) = WordsBefore(i)
    /\ TreeInOrder(jobs) /\ JobInOrder(cmds) /\ CommandInOrder(Current)
    /\ Before(TreeWords(jobs), WordsOf(cmds) \cup CommandWords(Current))
    /\ Before(WordsOf(cmds), CommandWords(Current))

TreeInv == NothingDropped /\ (TargetsAreWords /\ pc # "done" => TreeAt(idx))

\* What a sequence with one more element has.
LEMMA RangeAppended ==
    ASSUME NEW S, NEW s \in Seq(S), NEW x \in S
    PROVE  Range(Append(s, x)) = Range(s) \cup {x}
<1>1. /\ DOMAIN s = 1 .. Len(s) /\ Len(s) \in Nat
      /\ DOMAIN Append(s, x) = 1 .. Len(s) + 1
      /\ Append(s, x)[Len(s) + 1] = x
      /\ \A i \in 1 .. Len(s) : Append(s, x)[i] = s[i]
  OBVIOUS
<1>2. 1 .. Len(s) + 1 = 1 .. Len(s) \cup {Len(s) + 1}
  BY <1>1
<1>3. QED
  BY <1>1, <1>2 DEF Range

LEMMA IncreasingAppended ==
    ASSUME NEW s \in Seq(Nat), NEW x \in Nat, Increasing(s), Before(Range(s), {x})
    PROVE  Increasing(Append(s, x))
<1>1. /\ DOMAIN s = 1 .. Len(s) /\ Len(s) \in Nat
      /\ DOMAIN Append(s, x) = 1 .. Len(s) + 1
      /\ Append(s, x)[Len(s) + 1] = x
      /\ \A i \in 1 .. Len(s) : Append(s, x)[i] = s[i]
  OBVIOUS
<1>2. \A i \in 1 .. Len(s) : s[i] < x
  BY <1>1 DEF Before, Range
<1>3. QED
  BY <1>1, <1>2 DEF Increasing

LEMMA FilesAppended ==
    ASSUME NEW rs \in Seq(Redirections), NEW r \in Redirections
    PROVE  /\ FilesOf(rs) \in Seq(Positions)
           /\ FilesOf(Append(rs, r)) = Append(FilesOf(rs), r.file)
<1>1. ASSUME NEW i \in 1 .. Len(rs) PROVE rs[i].file \in Positions
  <2>1. rs[i] \in Redirections
    OBVIOUS
  <2>2. QED
    BY <2>1 DEF Redirections
<1>2. FilesOf(rs) \in Seq(Positions) /\ Len(FilesOf(rs)) = Len(rs)
  BY <1>1 DEF FilesOf
<1>3. FilesOf(Append(rs, r)) = Append(FilesOf(rs), r.file)
  BY <1>2 DEF FilesOf
<1>4. QED
  BY <1>2, <1>3

LEMMA NoCommands == WordsOf(<<>>) = {} /\ JobInOrder(<<>>)
BY DEF WordsOf, JobInOrder

LEMMA NoJobs == TreeWords(<<>>) = {} /\ TreeInOrder(<<>>)
BY DEF TreeWords, TreeInOrder

LEMMA NoWords ==
    LET c == [argv |-> <<>>, redirections |-> <<>>]
    IN  CommandWords(c) = {} /\ CommandInOrder(c)
BY DEF CommandWords, CommandInOrder, FilesOf, Range, Increasing, Before

\* A command after the ones of a job.
LEMMA CommandAppended ==
    ASSUME NEW cs \in Seq(Commands), NEW c \in Commands
    PROVE  /\ WordsOf(Append(cs, c)) = WordsOf(cs) \cup CommandWords(c)
           /\ JobInOrder(cs) /\ CommandInOrder(c) /\ Before(WordsOf(cs), CommandWords(c))
                => JobInOrder(Append(cs, c))
<1>1. /\ DOMAIN cs = 1 .. Len(cs) /\ Len(cs) \in Nat
      /\ DOMAIN Append(cs, c) = 1 .. Len(cs) + 1
      /\ Append(cs, c)[Len(cs) + 1] = c
      /\ \A i \in 1 .. Len(cs) : Append(cs, c)[i] = cs[i]
  OBVIOUS
<1>2. 1 .. Len(cs) + 1 = 1 .. Len(cs) \cup {Len(cs) + 1}
  BY <1>1
<1>3. WordsOf(Append(cs, c)) = WordsOf(cs) \cup CommandWords(c)
  BY <1>1, <1>2 DEF WordsOf
<1>4. ASSUME JobInOrder(cs), CommandInOrder(c), Before(WordsOf(cs), CommandWords(c))
      PROVE  JobInOrder(Append(cs, c))
  <2>1. \A i \in 1 .. Len(cs) : CommandWords(cs[i]) \subseteq WordsOf(cs)
    BY <1>1 DEF WordsOf
  <2>2. \A i \in 1 .. Len(cs) : Before(CommandWords(cs[i]), CommandWords(c))
    BY <1>4, <2>1 DEF Before
  <2>3. QED
    BY <1>1, <1>2, <1>4, <2>2 DEF JobInOrder
<1>5. QED
  BY <1>3, <1>4

\* A job after the ones of a line.
LEMMA JobAppended ==
    ASSUME NEW js \in Seq(Jobs), NEW job \in Jobs
    PROVE  /\ TreeWords(Append(js, job)) = TreeWords(js) \cup WordsOf(job.cmds)
           /\ TreeInOrder(js) /\ JobInOrder(job.cmds) /\ Before(TreeWords(js), WordsOf(job.cmds))
                => TreeInOrder(Append(js, job))
<1>1. /\ DOMAIN js = 1 .. Len(js) /\ Len(js) \in Nat
      /\ DOMAIN Append(js, job) = 1 .. Len(js) + 1
      /\ Append(js, job)[Len(js) + 1] = job
      /\ \A i \in 1 .. Len(js) : Append(js, job)[i] = js[i]
  OBVIOUS
<1>2. 1 .. Len(js) + 1 = 1 .. Len(js) \cup {Len(js) + 1}
  BY <1>1
<1>3. TreeWords(Append(js, job)) = TreeWords(js) \cup WordsOf(job.cmds)
  BY <1>1, <1>2 DEF TreeWords
<1>4. ASSUME TreeInOrder(js), JobInOrder(job.cmds), Before(TreeWords(js), WordsOf(job.cmds))
      PROVE  TreeInOrder(Append(js, job))
  <2>1. \A i \in 1 .. Len(js) : WordsOf(js[i].cmds) \subseteq TreeWords(js)
    BY <1>1 DEF TreeWords
  <2>2. \A i \in 1 .. Len(js) : Before(WordsOf(js[i].cmds), WordsOf(job.cmds))
    BY <1>4, <2>1 DEF Before
  <2>3. QED
    BY <1>1, <1>2, <1>4, <2>2 DEF TreeInOrder
<1>5. QED
  BY <1>3, <1>4

\* The command with one more word, or with one more redirection.
LEMMA WordAppended ==
    ASSUME TypeOk, redirs = <<>>, CommandInOrder(Current), NEW x \in Positions,
           Before(CommandWords(Current), {x}), NEW c,
           c = [argv |-> Append(argv, x), redirections |-> redirs]
    PROVE  CommandInOrder(c) /\ CommandWords(c) = CommandWords(Current) \cup {x}
<1>1. FilesOf(redirs) = <<>> /\ Range(FilesOf(redirs)) = {}
  BY DEF FilesOf, Range
<1>2. argv \in Seq(Positions) /\ argv \in Seq(Nat) /\ x \in Nat
  BY DEF TypeOk, Positions
<1>3. Range(Append(argv, x)) = Range(argv) \cup {x}
  BY <1>2, RangeAppended
<1>4. CommandWords(Current) = Range(argv)
  BY <1>1 DEF CommandWords, Current
<1>5. CommandWords(c) = CommandWords(Current) \cup {x}
  BY <1>1, <1>3, <1>4 DEF CommandWords
<1>6. Increasing(Append(argv, x))
  BY <1>2, <1>4, IncreasingAppended DEF CommandInOrder, Current
<1>7. Increasing(FilesOf(redirs)) /\ Before(Range(Append(argv, x)), Range(FilesOf(redirs)))
  BY <1>1 DEF Increasing, Before
<1>8. QED
  BY <1>5, <1>6, <1>7 DEF CommandInOrder

LEMMA RedirectionAppended ==
    ASSUME TypeOk, CommandInOrder(Current), NEW r \in Redirections,
           Before(CommandWords(Current), {r.file}), NEW c,
           c = [argv |-> argv, redirections |-> Append(redirs, r)]
    PROVE  CommandInOrder(c) /\ CommandWords(c) = CommandWords(Current) \cup {r.file}
<1> DEFINE files == FilesOf(redirs)
           x == r.file
<1>1. /\ files \in Seq(Positions) /\ FilesOf(Append(redirs, r)) = Append(files, x)
      /\ x \in Positions
  BY FilesAppended DEF TypeOk, Redirections
<1>2. files \in Seq(Nat) /\ x \in Nat
  BY <1>1 DEF Positions
<1>3. Range(Append(files, x)) = Range(files) \cup {x}
  BY <1>1, RangeAppended
<1>4. CommandWords(Current) = Range(argv) \cup Range(files)
  BY DEF CommandWords, Current
<1>5. CommandWords(c) = CommandWords(Current) \cup {x}
  BY <1>1, <1>3, <1>4 DEF CommandWords
<1>6. Increasing(argv) /\ Increasing(files) /\ Before(Range(argv), Range(files))
  BY DEF CommandInOrder, Current
<1>7. Before(Range(argv), {x}) /\ Before(Range(files), {x})
  BY <1>4 DEF Before
<1>8. Increasing(Append(files, x))
  BY <1>2, <1>6, <1>7, IncreasingAppended
<1>9. Before(Range(argv), Range(Append(files, x)))
  BY <1>3, <1>6, <1>7 DEF Before
<1>10. QED
  BY <1>1, <1>5, <1>6, <1>8, <1>9 DEF CommandInOrder

\* A step that does not return keeps the invariant when the tree holds what is
\* behind the index.
LEMMA TreeGoesOn ==
    ASSUME tokens' = tokens, pc' # "done", NEW i, idx' = i,
           TargetsAreWords => TreeAt(i)'
    PROVE  TreeInv'
<1>1. NothingDropped'
  BY DEF NothingDropped, AllInTree
<1>2. TreeAt(i)' = TreeAt(idx)'
  BY DEF TreeAt, WordsBefore
<1>3. QED
  BY <1>1, <1>2, SameTokens DEF TreeInv

\* A token more, that is a word.
LEMMA OneWordMore ==
    ASSUME TokensEnd, NEW i \in 1 .. Len(tokens), tokens[i] = "WORD"
    PROVE  /\ WordsBefore(i + 1) = WordsBefore(i) \cup {i}
           /\ \A k \in WordsBefore(i) : k < i
<1>1. Len(tokens) \in Nat /\ i \in Nat
  BY DEF TokensEnd
<1>2. QED
  BY <1>1 DEF WordsBefore

\* A token more, that is no word.
LEMMA SameWords ==
    ASSUME TokensEnd, NEW i \in 1 .. Len(tokens), tokens[i] # "WORD"
    PROVE  WordsBefore(i + 1) = WordsBefore(i)
<1>1. Len(tokens) \in Nat /\ i \in Nat
  BY DEF TokensEnd
<1>2. QED
  BY <1>1 DEF WordsBefore

\* With the parsed commands made a job, or one command added to them, the tree
\* holds the same words in the same order.
LEMMA CommandEnds ==
    ASSUME TypeOk, Current \in Commands, NEW i, TreeAt(i), NEW cs,
           cs = Append(cmds, Current)
    PROVE  /\ TreeWords(jobs) \cup WordsOf(cs) = WordsBefore(i)
           /\ JobInOrder(cs) /\ Before(TreeWords(jobs), WordsOf(cs))
<1>1. /\ WordsOf(cs) = WordsOf(cmds) \cup CommandWords(Current)
      /\ JobInOrder(cs)
  BY CommandAppended DEF TypeOk, TreeAt
<1>2. QED
  BY <1>1 DEF TreeAt

LEMMA JobEnds ==
    ASSUME TypeOk, pc = "job", NEW i, TreeAt(i), NEW kind \in {"BG", "FG"}, NEW js,
           js = Append(jobs, Job(kind))
    PROVE  TreeWords(js) = WordsBefore(i) /\ TreeInOrder(js)
<1>1. argv = <<>> /\ redirs = <<>>
  BY DEF TreeAt
<1>2. CommandWords(Current) = {}
  BY <1>1, NoWords DEF Current
<1>3. Job(kind) \in Jobs /\ jobs \in Seq(Jobs) /\ Job(kind).cmds = cmds
  BY JobType DEF TypeOk, Job
<1>4. Before(TreeWords(jobs), WordsOf(cmds))
  BY <1>2 DEF TreeAt
<1>5. /\ TreeWords(js) = TreeWords(jobs) \cup WordsOf(cmds)
      /\ TreeInOrder(js)
  BY <1>3, <1>4, JobAppended DEF TreeAt
<1>6. QED
  BY <1>2, <1>5 DEF TreeAt

\* A tree that is complete at the end token.
LEMMA TreeEnds ==
    ASSUME TokensEnd, NEW i \in 1 .. Len(tokens), tokens' = tokens,
           tokens[i] = "END" => TreeWords(jobs') = WordsBefore(i) /\ TreeInOrder(jobs'),
           result' = Verdict(i), pc' = "done"
    PROVE  AllInTree'
<1>1. CASE tokens[i] = "END"
  <2>1. Len(tokens) \in Nat /\ i = Len(tokens) /\ DOMAIN tokens = 1 .. Len(tokens)
    BY <1>1 DEF TokensEnd, Ends
  <2>2. WordsBefore(i) = {k \in DOMAIN tokens : tokens[k] = "WORD"}
    BY <1>1, <2>1 DEF WordsBefore
  <2>3. QED
    BY <1>1, <2>2 DEF AllInTree
<1>2. CASE tokens[i] # "END"
  BY <1>2 DEF AllInTree, Verdict, AtEnd
<1>3. QED
  BY <1>1, <1>2

LEMMA StepTree == TypeInv /\ GrammarInv /\ TreeInv /\ [Next]_vars => TreeInv'
<1> SUFFICES ASSUME TypeInv, GrammarInv, TreeInv, [Next]_vars PROVE TreeInv'
  OBVIOUS
<1>a. /\ TokensEnd /\ TypeOk /\ HasWord
      /\ idx \in 1 .. Len(tokens) /\ Len(tokens) \in Nat
  BY DEF TypeInv, TypeOk, Positions, TokensEnd
<1>b. TargetsAreWords => GrammarAt(idx) /\ (pc # "done" => TreeAt(idx))
  BY DEF GrammarInv, TreeInv
<1>c. ASSUME pc' = "done", tokens' = tokens, TargetsAreWords => AllInTree'
      PROVE  TreeInv'
  BY <1>c, SameTokens DEF TreeInv, NothingDropped
<1>1. CASE ParseEmpty \/ ParseRepeat
  <2>1. tokens' = tokens /\ pc' = "done" /\ (TargetsAreWords => tokens[1] # "WORD")
    BY <1>1, <1>b DEF ParseEmpty, ParseRepeat, Return, GrammarAt, Token, Ends
  <2>2. QED
    BY <2>1, <1>c DEF AllInTree
<1>2. CASE NoCommand \/ NoTarget \/ AllocationFails \/ RedirectionsFail \/ CommandsFail \/ JobsFail
  <2>1. tokens' = tokens /\ pc' = "done" /\ result' # "SUCCESS"
    BY <1>2 DEF NoCommand, NoTarget, AllocationFails, RedirectionsFail, CommandsFail,
                JobsFail, Fail, Return
  <2>2. QED
    BY <2>1, <1>c DEF AllInTree
<1>3. CASE ParseJobs \/ EndWords
  <2>1. /\ tokens' = tokens /\ idx' = idx /\ jobs' = jobs /\ cmds' = cmds
        /\ argv' = argv /\ redirs' = redirs /\ pc' \in {"command", "redirections"}
        /\ pc \in {"parse", "command"}
    BY <1>3 DEF ParseJobs, EndWords
  <2>2. TargetsAreWords => TreeAt(idx)'
    BY <1>b, <2>1 DEF TreeAt, Current, WordsBefore
  <2>3. QED
    BY <2>1, <2>2, TreeGoesOn
<1>4. CASE Word
  <2> PICK i : i = idx + 1
    OBVIOUS
  <2> PICK c : c = [argv |-> Append(argv, idx), redirections |-> redirs]
    OBVIOUS
  <2>1. /\ tokens' = tokens /\ idx' = i /\ jobs' = jobs /\ cmds' = cmds
        /\ argv' = Append(argv, idx) /\ redirs' = redirs /\ pc' = "command"
        /\ pc = "command" /\ tokens[idx] = "WORD" /\ Current' = c
    BY <1>4 DEF Word, Token, Current
  <2>2. ASSUME TargetsAreWords PROVE TreeAt(i)'
    <3>1. TreeAt(idx) /\ redirs = <<>>
      BY <1>b, <2>1, <2>2 DEF TreeAt
    <3>2. idx \in Positions /\ Before(CommandWords(Current), {idx})
      BY <1>a, <3>1 DEF TreeAt, WordsBefore, Before, Positions
    <3>3. CommandInOrder(c) /\ CommandWords(c) = CommandWords(Current) \cup {idx}
      BY <1>a, <3>1, <3>2, WordAppended DEF TreeAt
    <3>4. /\ TreeWords(jobs) \cup WordsOf(cmds) \cup CommandWords(c) = WordsBefore(idx + 1)
          /\ Before(TreeWords(jobs), WordsOf(cmds) \cup CommandWords(c))
          /\ Before(WordsOf(cmds), CommandWords(c))
      <4>1. /\ WordsBefore(idx + 1) = WordsBefore(idx) \cup {idx}
            /\ \A k \in WordsBefore(idx) : k < idx
        BY <1>a, <2>1, OneWordMore
      <4>2. /\ TreeWords(jobs) \cup WordsOf(cmds) \cup CommandWords(Current) = WordsBefore(idx)
            /\ Before(TreeWords(jobs), WordsOf(cmds) \cup CommandWords(Current))
            /\ Before(WordsOf(cmds), CommandWords(Current))
        BY <3>1 DEF TreeAt
      <4>3. CommandWords(c) = CommandWords(Current) \cup {idx}
        BY <3>3
      <4>4. \A k \in TreeWords(jobs) \cup WordsOf(cmds) : k < idx
        BY <4>1, <4>2
      <4>5. TreeWords(jobs) \cup WordsOf(cmds) \cup CommandWords(c) = WordsBefore(idx + 1)
        BY <4>1, <4>2, <4>3
      <4>6. Before(TreeWords(jobs), WordsOf(cmds) \cup CommandWords(c))
        BY <4>2, <4>3, <4>4 DEF Before
      <4>7. Before(WordsOf(cmds), CommandWords(c))
        BY <4>2, <4>3, <4>4 DEF Before
      <4>8. QED
        BY <4>5, <4>6, <4>7
    <3>5. WordsBefore(i)' = WordsBefore(i)
      BY <2>1 DEF WordsBefore
    <3>6. QED
      BY <2>1, <3>1, <3>3, <3>4, <3>5 DEF TreeAt
  <2>3. QED
    BY <2>1, <2>2, TreeGoesOn
<1>5. CASE Redirect
  <2> PICK i : i = idx + 2
    OBVIOUS
  <2> PICK r : r = [type |-> Token, file |-> idx + 1]
    OBVIOUS
  <2> PICK c : c = [argv |-> argv, redirections |-> Append(redirs, r)]
    OBVIOUS
  <2>1. /\ tokens' = tokens /\ idx' = i /\ jobs' = jobs /\ cmds' = cmds
        /\ argv' = argv /\ redirs' = Append(redirs, r) /\ pc' = "redirections"
        /\ pc = "redirections" /\ tokens[idx] \in Angles /\ Current' = c
        /\ tokens[idx + 1] \notin Ends
    BY <1>5 DEF Redirect, Token, Current, IsTarget
  <2>2. idx + 1 \in 1 .. Len(tokens) /\ idx + 1 \in Positions
    BY <1>a, <2>1, TokenFollows DEF Angles, Ends, Positions
  <2>3. r \in Redirections /\ r.file = idx + 1
    BY <2>1, <2>2 DEF Redirections, Token
  <2>4. ASSUME TargetsAreWords PROVE TreeAt(i)'
    <3>1. TreeAt(idx)
      BY <1>b, <2>1, <2>4
    <3>2. tokens[idx + 1] = "WORD"
      BY <1>a, <2>1, <2>2, <2>4 DEF TargetsAreWords
    <3>3. WordsBefore(idx) = WordsBefore(idx + 1)
      BY <1>a, <2>1, SameWords DEF Angles
    <3>4. Before(CommandWords(Current), {idx + 1})
      BY <1>a, <3>1 DEF TreeAt, WordsBefore, Before
    <3>5. CommandInOrder(c) /\ CommandWords(c) = CommandWords(Current) \cup {idx + 1}
      BY <1>a, <2>3, <3>1, <3>4, RedirectionAppended DEF TreeAt
    <3>6. /\ TreeWords(jobs) \cup WordsOf(cmds) \cup CommandWords(Current) = WordsBefore(idx + 1)
          /\ Before(TreeWords(jobs), WordsOf(cmds) \cup CommandWords(Current))
          /\ Before(WordsOf(cmds), CommandWords(Current))
      BY <3>1, <3>3 DEF TreeAt
    <3>7. /\ TreeWords(jobs) \cup WordsOf(cmds) \cup CommandWords(c) = WordsBefore(idx + 1 + 1)
          /\ Before(TreeWords(jobs), WordsOf(cmds) \cup CommandWords(c))
          /\ Before(WordsOf(cmds), CommandWords(c))
      <4>1. /\ WordsBefore(idx + 1 + 1) = WordsBefore(idx + 1) \cup {idx + 1}
            /\ \A k \in WordsBefore(idx + 1) : k < idx + 1
        BY <1>a, <2>2, <3>2, OneWordMore
      <4>2. CommandWords(c) = CommandWords(Current) \cup {idx + 1}
        BY <3>5
      <4>3. \A k \in TreeWords(jobs) \cup WordsOf(cmds) : k < idx + 1
        BY <3>6, <4>1
      <4>4. TreeWords(jobs) \cup WordsOf(cmds) \cup CommandWords(c) = WordsBefore(idx + 1 + 1)
        BY <3>6, <4>1, <4>2
      <4>5. Before(TreeWords(jobs), WordsOf(cmds) \cup CommandWords(c))
        BY <3>6, <4>2, <4>3 DEF Before
      <4>6. Before(WordsOf(cmds), CommandWords(c))
        BY <3>6, <4>2, <4>3 DEF Before
      <4>7. QED
        BY <4>4, <4>5, <4>6
    <3>8. WordsBefore(i)' = WordsBefore(i) /\ i = idx + 1 + 1
      BY <1>a, <2>1 DEF WordsBefore
    <3>9. QED
      BY <2>1, <3>1, <3>5, <3>7, <3>8 DEF TreeAt
  <2>5. QED
    BY <2>1, <2>4, TreeGoesOn
<1>6. CASE EndCommand
  <2> PICK i : i = IF Token = "PIPE" THEN idx + 1 ELSE idx
    OBVIOUS
  <2> PICK cs : cs = Append(cmds, Current)
    OBVIOUS
  <2>1. /\ tokens' = tokens /\ idx' = i /\ jobs' = jobs /\ cmds' = cs
        /\ argv' = <<>> /\ redirs' = <<>> /\ pc' \in {"command", "job"} /\ pc = "redirections"
    BY <1>6 DEF EndCommand, Current
  <2>2. CommandWords(Current') = {} /\ CommandInOrder(Current')
    BY <2>1, NoWords DEF Current
  <2>3. Current \in Commands
    BY <1>a, <2>1 DEF HasWord, TypeOk, Current, Commands
  <2>4. WordsBefore(i)' = WordsBefore(idx)
    <3>1. WordsBefore(i)' = WordsBefore(i)
      BY <2>1 DEF WordsBefore
    <3>2. CASE Token = "PIPE"
      BY <1>a, <3>1, <3>2, SameWords DEF Token
    <3>3. CASE Token # "PIPE"
      BY <3>1, <3>3
    <3>4. QED
      BY <3>2, <3>3
  <2>5. ASSUME TargetsAreWords PROVE TreeAt(i)'
    <3>1. TreeAt(idx)
      BY <1>b, <2>1, <2>5
    <3>2. /\ TreeWords(jobs) \cup WordsOf(cs) = WordsBefore(idx)
          /\ JobInOrder(cs) /\ Before(TreeWords(jobs), WordsOf(cs))
      BY <1>a, <2>3, <3>1, CommandEnds
    <3>3. Before(WordsOf(cs), {})
      BY DEF Before
    <3>4. QED
      BY <2>1, <2>2, <2>4, <3>1, <3>2, <3>3 DEF TreeAt
  <2>6. QED
    BY <2>1, <2>5, TreeGoesOn
<1>7. CASE EndJob
  <2> PICK i : i = idx + 1
    OBVIOUS
  <2> PICK kind \in {"BG", "FG"} : jobs' = Append(jobs, Job(kind))
    BY <1>7 DEF EndJob
  <2>1. /\ tokens' = tokens /\ idx' = i /\ cmds' = <<>> /\ argv' = argv /\ redirs' = redirs
        /\ pc = "job" /\ tokens[idx] \in Separators
    BY <1>7 DEF EndJob, Token
  <2>2. i \in 1 .. Len(tokens) /\ WordsBefore(i) = WordsBefore(idx)
    BY <1>a, <2>1, TokenFollows, SameWords DEF Separators, Ends
  <2>3. TargetsAreWords => TreeWords(jobs') = WordsBefore(i) /\ TreeInOrder(jobs')
    BY <1>a, <1>b, <2>1, <2>2, JobEnds
  <2>4. CASE pc' = "command"
    <3>1. ASSUME TargetsAreWords PROVE TreeAt(i)'
      <4>1. argv' = <<>> /\ redirs' = <<>>
        BY <1>b, <2>1, <3>1 DEF TreeAt
      <4>2. CommandWords(Current') = {} /\ CommandInOrder(Current')
        BY <4>1, NoWords DEF Current
      <4>3. WordsOf(cmds') = {} /\ JobInOrder(cmds')
        BY <2>1, NoCommands
      <4>4. Before(TreeWords(jobs'), {}) /\ Before({}, {})
        BY DEF Before
      <4>5. WordsBefore(i)' = WordsBefore(i)
        BY <2>1 DEF WordsBefore
      <4>6. QED
        BY <2>3, <2>4, <3>1, <4>1, <4>2, <4>3, <4>4, <4>5 DEF TreeAt
    <3>2. QED
      BY <2>1, <2>4, <3>1, TreeGoesOn
  <2>5. CASE pc' = "done"
    <3>1. result' = Verdict(i)
      BY <1>7, <2>5 DEF EndJob
    <3>2. TargetsAreWords => AllInTree'
      BY <1>a, <2>1, <2>2, <2>3, <2>5, <3>1, TreeEnds
    <3>3. QED
      BY <2>1, <2>5, <3>2, <1>c
  <2>6. QED
    BY <1>7, <2>4, <2>5 DEF EndJob
<1>8. CASE LastJob
  <2>1. tokens' = tokens /\ pc = "job" /\ pc' = "done" /\ jobs' = JobsAtEnd /\ result' = Verdict(idx)
    BY <1>8 DEF LastJob, Return
  <2>2. ASSUME TargetsAreWords PROVE AllInTree'
    <3>1. LastJobAdded
      BY <1>b, <2>1, <2>2 DEF GrammarAt, AfterWord, LastJobAdded, Separators
    <3>2. jobs' = Append(jobs, Job("FG"))
      BY <2>1, <3>1 DEF JobsAtEnd
    <3>3. TreeWords(jobs') = WordsBefore(idx) /\ TreeInOrder(jobs')
      BY <1>a, <1>b, <2>1, <2>2, <3>2, JobEnds
    <3>4. QED
      BY <1>a, <2>1, <3>3, TreeEnds
  <2>3. QED
    BY <2>1, <2>2, <1>c
<1>9. CASE Returned \/ UNCHANGED vars
  <2>1. /\ tokens' = tokens /\ idx' = idx /\ jobs' = jobs /\ cmds' = cmds
        /\ argv' = argv /\ redirs' = redirs /\ pc' = pc /\ result' = result
    BY <1>9 DEF Returned, vars
  <2>2. TreeAt(idx)' = TreeAt(idx)
    BY <2>1 DEF TreeAt, Current, WordsBefore
  <2>3. AllInTree' = AllInTree
    BY <2>1 DEF AllInTree
  <2>4. QED
    BY <2>1, <2>2, <2>3, SameTokens DEF TreeInv, NothingDropped
<1>10. QED
  BY <1>1, <1>2, <1>3, <1>4, <1>5, <1>6, <1>7, <1>8, <1>9 DEF Next

LEMMA InitTree == Init => TreeInv
<1> SUFFICES ASSUME Init PROVE TreeInv
  OBVIOUS
<1>1. /\ idx = 1 /\ pc = "parse" /\ argv = <<>> /\ redirs = <<>> /\ cmds = <<>> /\ jobs = <<>>
  BY DEF Init
<1>2. CommandWords(Current) = {} /\ CommandInOrder(Current)
  BY <1>1, NoWords DEF Current
<1>3. WordsBefore(1) = {} /\ Before({}, {})
  BY DEF WordsBefore, Before
<1>4. TreeAt(idx)
  BY <1>1, <1>2, <1>3, NoCommands, NoJobs DEF TreeAt
<1>5. NothingDropped
  BY <1>1 DEF NothingDropped, AllInTree
<1>6. QED
  BY <1>4, <1>5 DEF TreeInv

\* A line parsed as jobs is in the tree: every word of it, once and in order.
THEOREM TreeCorrect == Spec => []NothingDropped
<1>1. TypeInv /\ GrammarInv /\ TreeInv /\ [Next]_vars
         => (TypeInv /\ GrammarInv /\ TreeInv)'
  BY StepType, StepGrammar, StepTree
<1>2. TreeInv => NothingDropped
  BY DEF TreeInv
<1>3. QED
  BY InitGrammar, InitTree, <1>1, <1>2, PTL DEF Spec
=============================================================================
