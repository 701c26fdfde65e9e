--------------------------- MODULE HistoryProofs ---------------------------
(***************************************************************************)
(* Theorems about the history, for every set of lines, every number of     *)
(* states of the files and every word size.                                *)
(***************************************************************************)
EXTENDS History, WellFoundedInduction, TLAPS

\* Whether a line is a repetition does not depend on the files: the query of a
\* '!' has no pattern in it.
Repeats(d, t) == Meaning[d][t].kind \in {"number", "prefix"}
NoPatternInQueries == \A c, d \in Dirs, t \in Texts : Repeats(c, t) => Repeats(d, t)

-----------------------------------------------------------------------------
(* What the lookups return. *)

\* A set of positions has a greatest element.
LEMMA GreatestExists ==
    ASSUME NEW n \in Nat, NEW S, S \subseteq 1 .. n, S # {}
    PROVE  \E i \in S : \A j \in S : j <= i
<1> DEFINE T == {n - i : i \in S}
           R == {ss \in Nat \X Nat : ss[1] < ss[2]}
<1>1. T \subseteq Nat /\ T # {}
  <2>1. \A i \in S : i \in Nat /\ i <= n
    OBVIOUS
  <2>2. \A i \in S : n - i \in Nat
    BY <2>1
  <2>3. QED
    BY <2>2
<1>2. \E x \in T : \A y \in T : ~(<<y, x>> \in R)
  <2> HIDE DEF T, R
  <2>1. IsWellFoundedOn(R, Nat)
    BY NatLessThanWellFounded, Zenon DEF R, OpToRel
  <2>2. QED
    BY <1>1, <2>1, WFMin
<1>3. PICK x \in T : \A y \in T : ~(<<y, x>> \in R)
  BY <1>2
<1>4. \A y \in T : x <= y
  <2> TAKE y \in T
  <2>1. x \in Nat /\ y \in Nat /\ <<y, x>> \notin R
    BY <1>1, <1>3
  <2>2. QED
    BY <2>1
<1>5. PICK i \in S : x = n - i
  OBVIOUS
<1>6. \A j \in S : n - j \in T
  OBVIOUS
<1>7. \A j \in S : j <= i
  <2> TAKE j \in S
  <2>1. x <= n - j /\ i \in Nat /\ j \in Nat
    BY <1>4, <1>6
  <2>2. QED
    BY <1>5, <2>1
<1>8. QED
  BY <1>7

LEMMA ByNumberExact ==
    ASSUME history \in Seq(Texts), Len(history) < Word, NEW n \in 0 .. Word - 1
    PROVE  ByNumber(n) = IF n \in 1 .. Len(history) THEN history[n] ELSE NotFound
<1>1. Word \in Nat \ {0} /\ Len(history) \in Nat /\ n \in Nat
  BY NumbersAssumption
<1>2. CASE n = 0
  <2>1. (n - 1) % Word = Word - 1
    BY <1>1, <1>2
  <2>2. QED
    BY <1>1, <1>2, <2>1 DEF ByNumber
<1>3. CASE n # 0
  <2>1. (n - 1) % Word = n - 1
    BY <1>1, <1>3
  <2>2. QED
    BY <1>1, <1>3, <2>1 DEF ByNumber
<1>4. QED
  BY <1>2, <1>3

\* A line that is found is in the history.
LEMMA FoundInHistory ==
    ASSUME history \in Seq(Texts), Here \in Meanings, Found # NotFound, IsRepeat
    PROVE  \E i \in 1 .. Len(history) : Found = history[i]
<1>1. Word \in Nat \ {0} /\ Len(history) \in Nat
  BY NumbersAssumption
<1>2. CASE Here.kind = "number"
  <2>1. Here.query \in 0 .. Word - 1
    BY <1>2 DEF Meanings
  <2> DEFINE i == (Here.query - 1) % Word
  <2>2. i \in 0 .. Word - 1
    BY <1>1, <2>1
  <2>3. i < Len(history) /\ Found = history[i + 1]
    BY <1>1, <1>2, <2>2 DEF Found, ByNumber
  <2> HIDE DEF i
  <2>4. i + 1 \in 1 .. Len(history)
    BY <1>1, <2>2, <2>3
  <2>5. QED
    BY <2>3, <2>4
<1>3. CASE Here.kind # "number"
  <2> DEFINE matches == {i \in 1 .. Len(history) : history[i] \in Begins[Here.query]}
  <2>1. matches # {} /\ Found = history[Newest(matches)]
    BY <1>3 DEF Found, ByPrefix
  <2>2. Newest(matches) \in matches
    <3>1. matches # {} /\ matches \subseteq 1 .. Len(history)
      BY <2>1
    <3> HIDE DEF matches
    <3>2. \E i \in matches : \A j \in matches : j <= i
      BY <1>1, <3>1, GreatestExists
    <3>3. QED
      BY <3>2 DEF Newest
  <2>3. QED
    BY <2>1, <2>2
<1>4. QED
  BY <1>2, <1>3

-----------------------------------------------------------------------------
(* Types. *)

LEMMA RecordType ==
    ASSUME TypeOk, NEW l \in Texts, Record(l)
    PROVE  /\ history' \in Seq(Texts) /\ capacity' \in Nat
           /\ history' \in {history, Append(history, l)}
           /\ Len(history') <= capacity'
<1>1. Grown \in Nat
  BY NumbersAssumption DEF TypeOk, Grown
<1>2. Len(history) + 1 <= Grown
  BY NumbersAssumption DEF TypeOk, Grown
<1>3. QED
  BY <1>1, <1>2 DEF Record, TypeOk

LEMMA HereType ==
    ASSUME TypeOk, line # NotFound
    PROVE  Here \in Meanings /\ line \in Texts /\ depth \in 1 .. MaxDepth
BY MeaningAssumption DEF TypeOk, Here, MaxDepth

LEMMA FoundType ==
    ASSUME TypeOk, line # NotFound, IsRepeat, Found # NotFound
    PROVE  Found \in Texts
BY HereType, FoundInHistory DEF TypeOk

LEMMA StepType == TypeOk /\ [Next]_vars => TypeOk'
<1> SUFFICES ASSUME TypeOk, [Next]_vars PROVE TypeOk'
  OBVIOUS
<1>1. CASE ReadLine
  BY <1>1, NotFoundAssumption DEF ReadLine, TypeOk, MaxDepth
<1>2. CASE RunNothing \/ RepeatNothing
  BY <1>2 DEF RunNothing, RepeatNothing, Return, TypeOk, MaxDepth
<1>3. CASE RunBad
  <2>1. Record(line) /\ line \in Texts
    BY <1>3, HereType DEF RunBad
  <2>2. QED
    BY <1>3, <2>1, RecordType DEF RunBad, Return, TypeOk, MaxDepth
<1>4. CASE RunJobs
  <2>1. Record(line) /\ line \in Texts
    BY <1>4, HereType DEF RunJobs, Kept
  <2>2. QED
    BY <1>4, <2>1, RecordType DEF RunJobs, Return, TypeOk, MaxDepth
<1>5. CASE Repeat
  <2>1. line' \in Texts /\ line' # NotFound
    BY <1>5, FoundType, NotFoundAssumption DEF Repeat, Repeated
  <2>2. depth' \in 0 .. MaxDepth /\ depth' # 0
    BY <1>5, HereType DEF Repeat, Deeper, MaxDepth
  <2>3. QED
    BY <1>5, <2>1, <2>2 DEF Repeat, RecordRepeat, TypeOk
<1>6. CASE Full \/ UNCHANGED vars
  BY <1>6 DEF Full, vars, TypeOk
<1>7. QED
  BY <1>1, <1>2, <1>3, <1>4, <1>5, <1>6 DEF Next, Run

LEMMA InitType == Init => TypeOk
BY DEF Init, TypeOk, MaxDepth

\* Every variable keeps its type.
THEOREM TypeCorrect == Spec => []TypeOk
BY InitType, StepType, PTL DEF Spec

-----------------------------------------------------------------------------
(* A number finds the entry with that number.  The history stays below the     *)
(* bound, so that the index that wraps around for 0 is beyond it.              *)

BelowBound == Len(history) <= MaxHistory /\ (line # NotFound => Len(history) < MaxHistory)

LEMMA StepBound == TypeOk /\ BelowBound /\ [Next]_vars => BelowBound'
<1> SUFFICES ASSUME TypeOk, BelowBound, [Next]_vars PROVE BelowBound'
  OBVIOUS
<1>a. Len(history) \in Nat /\ MaxHistory \in Nat
  BY NumbersAssumption DEF TypeOk
<1>1. CASE ReadLine
  BY <1>1, <1>a DEF ReadLine, BelowBound
<1>2. CASE RunNothing \/ RepeatNothing
  BY <1>2, <1>a DEF RunNothing, RepeatNothing, Return, BelowBound
<1>3. CASE RunBad \/ RunJobs
  <2>1. line # NotFound /\ line \in Texts /\ Record(line) /\ line' = NotFound
    BY <1>3, HereType DEF RunBad, RunJobs, Kept, Return
  <2>2. Len(history') \in {Len(history), Len(history) + 1}
    BY <2>1, RecordType DEF TypeOk
  <2>3. QED
    BY <2>1, <2>2, <1>a DEF BelowBound
<1>4. CASE Repeat
  BY <1>4, <1>a DEF Repeat, RecordRepeat, BelowBound
<1>5. CASE Full \/ UNCHANGED vars
  BY <1>5 DEF Full, vars, BelowBound
<1>6. QED
  BY <1>1, <1>2, <1>3, <1>4, <1>5 DEF Next, Run

\* '!' and a number finds that entry, and nothing for 0 or past the end.
THEOREM NumberCorrect == Spec => []NumberExact
<1>1. Init => TypeOk /\ BelowBound
  BY InitType, NumbersAssumption DEF Init, BelowBound
<1>2. TypeOk /\ BelowBound /\ [Next]_vars => (TypeOk /\ BelowBound)'
  BY StepType, StepBound
<1>3. TypeOk /\ BelowBound => NumberExact
  <2>1. TypeOk /\ BelowBound => history \in Seq(Texts) /\ Len(history) < Word
    BY NumbersAssumption DEF TypeOk, BelowBound
  <2>2. QED
    BY <2>1, ByNumberExact DEF NumberExact
<1>4. QED
  BY <1>1, <1>2, <1>3, PTL DEF Spec

-----------------------------------------------------------------------------
(* The recursion of run.  No entry of the history is a repetition: it was      *)
(* recorded as a line of jobs or as an error, and stays one.                   *)

NoRepeatRecorded ==
    /\ \A i \in 1 .. Len(history), d \in Dirs : ~Repeats(d, history[i])
    /\ depth <= 2
    /\ depth = 2 => \A d \in Dirs : ~Repeats(d, line)

LEMMA StepRecursion ==
    ASSUME NoPatternInQueries, TypeOk, NoRepeatRecorded, [Next]_vars
    PROVE  NoRepeatRecorded'
<1>1. CASE ReadLine
  BY <1>1 DEF ReadLine, NoRepeatRecorded
<1>2. CASE RunNothing \/ RepeatNothing
  BY <1>2 DEF RunNothing, RepeatNothing, Return, NoRepeatRecorded
<1>3. CASE RunBad \/ RunJobs
  <2>1. /\ line \in Texts /\ Record(line) /\ depth' = 0
        /\ Here.kind \in {"bad", "jobs"}
    BY <1>3, HereType DEF RunBad, RunJobs, Kept, Return
  <2>2. \A d \in Dirs : ~Repeats(d, line)
    BY <2>1 DEF NoPatternInQueries, Repeats, Here, TypeOk
  <2>3. history' \in {history, Append(history, line)}
    BY <2>1, RecordType
  <2>4. \A i \in 1 .. Len(history'), d \in Dirs : ~Repeats(d, history'[i])
    BY <2>2, <2>3 DEF NoRepeatRecorded, TypeOk
  <2>5. QED
    BY <2>1, <2>4 DEF NoRepeatRecorded
<1>4. CASE Repeat
  <2>1. line # NotFound /\ IsRepeat /\ Found # NotFound /\ line' = Found
    BY <1>4 DEF Repeat, Repeated
  <2>2. PICK i \in 1 .. Len(history) : line' = history[i]
    BY <2>1, HereType, FoundInHistory DEF TypeOk
  <2>3. \A d \in Dirs : ~Repeats(d, line')
    BY <2>2 DEF NoRepeatRecorded
  <2>4. depth = 1
    <3>1. Repeats(dir, line) /\ dir \in Dirs
      BY <2>1 DEF IsRepeat, Repeats, Here, TypeOk
    <3>2. depth \in 1 .. MaxDepth
      BY <2>1, HereType
    <3>3. QED
      BY <3>1, <3>2 DEF NoRepeatRecorded, MaxDepth
  <2>5. depth' = 2 /\ history' = history
    BY <1>4, <2>4 DEF Repeat, Deeper, RecordRepeat, MaxDepth
  <2>6. QED
    BY <2>3, <2>5 DEF NoRepeatRecorded
<1>5. CASE Full \/ UNCHANGED vars
  BY <1>5 DEF Full, vars, NoRepeatRecorded
<1>6. QED
  BY <1>1, <1>2, <1>3, <1>4, <1>5 DEF Next, Run

\* Without patterns after a '!', run calls itself once at most.
THEOREM RecursionCorrect ==
    ASSUME NoPatternInQueries
    PROVE  Spec => []RecursionBounded
<1>1. Init => TypeOk /\ NoRepeatRecorded
  BY InitType DEF Init, NoRepeatRecorded
<1>2. TypeOk /\ NoRepeatRecorded /\ [Next]_vars => (TypeOk /\ NoRepeatRecorded)'
  BY StepType, StepRecursion
<1>3. NoRepeatRecorded => RecursionBounded
  BY DEF NoRepeatRecorded, RecursionBounded
<1>4. QED
  BY <1>1, <1>2, <1>3, PTL DEF Spec

-----------------------------------------------------------------------------
(* One line read leaves one entry, and the right one: nothing is recorded      *)
(* before run returns, whatever it calls itself on.                            *)

NothingRecordedYet ==
    line # NotFound => Len(history) = entries /\ executed = NotFound

NewestInv == NothingRecordedYet /\ NewestIsExecuted

LEMMA StepNewest == TypeOk /\ NewestInv /\ [Next]_vars => NewestInv'
<1> SUFFICES ASSUME TypeOk, NewestInv, [Next]_vars PROVE NewestInv'
  OBVIOUS
<1>a. Len(history) \in Nat /\ entries \in Nat
  BY DEF TypeOk
<1>1. CASE ReadLine
  <2>1. line' \in Texts /\ Len(history') = entries' /\ executed' = NotFound
    BY <1>1 DEF ReadLine
  <2>2. QED
    BY <2>1, NotFoundAssumption DEF NewestInv, NothingRecordedYet, NewestIsExecuted
<1>2. CASE RunNothing \/ RepeatNothing
  <2>1. /\ line' = NotFound /\ history' = history /\ entries' = entries
        /\ executed' = executed /\ line # NotFound
    BY <1>2 DEF RunNothing, RepeatNothing, Return
  <2>2. QED
    BY <2>1, <1>a DEF NewestInv, NothingRecordedYet, NewestIsExecuted
<1>3. CASE RunBad \/ RunJobs
  <2>1. /\ line # NotFound /\ line \in Texts /\ Record(line)
        /\ line' = NotFound /\ entries' = entries
        /\ executed' \in {executed, line}
    BY <1>3, HereType DEF RunBad, RunJobs, Kept, Return
  <2>2. Len(history) = entries /\ executed = NotFound
    BY <2>1 DEF NewestInv, NothingRecordedYet
  <2>3. \/ history' = Append(history, line)
        \/ AllocFails /\ history' = history
    BY <2>1 DEF Record
  <2>4. CASE history' = Append(history, line)
    <3>1. Len(history') = entries + 1 /\ history'[Len(history')] = line
      BY <2>1, <2>2, <2>4 DEF TypeOk
    <3>2. QED
      BY <3>1, <2>1, <2>2 DEF NewestInv, NothingRecordedYet, NewestIsExecuted
  <2>5. CASE AllocFails /\ history' = history
    BY <2>1, <2>2, <2>5 DEF NewestInv, NothingRecordedYet, NewestIsExecuted
  <2>6. QED
    BY <2>3, <2>4, <2>5
<1>4. CASE Repeat
  <2>1. /\ line # NotFound /\ line' \in Texts
        /\ history' = history /\ entries' = entries /\ executed' = executed
    BY <1>4, FoundType DEF Repeat, Repeated, RecordRepeat
  <2>2. QED
    BY <2>1, NotFoundAssumption DEF NewestInv, NothingRecordedYet, NewestIsExecuted
<1>5. CASE Full \/ UNCHANGED vars
  BY <1>5 DEF Full, vars, NewestInv, NothingRecordedYet, NewestIsExecuted
<1>6. QED
  BY <1>1, <1>2, <1>3, <1>4, <1>5 DEF Next, Run

\* Whatever run makes of a line read (nothing, a parse error, jobs, a
\* repetition), the line leaves one entry at most, and what ran is the newest.
THEOREM NewestCorrect == Spec => []NewestIsExecuted
<1>1. Init => NewestInv
  BY DEF Init, NewestInv, NothingRecordedYet, NewestIsExecuted
<1>2. NewestInv => NewestIsExecuted
  BY DEF NewestInv
<1>3. QED
  BY <1>1, <1>2, InitType, StepType, StepNewest, PTL DEF Spec
=============================================================================
