---------------------------- MODULE PipeFdsProofs ----------------------------
(***************************************************************************)
(* Theorems about the file descriptors of a job, for any jobs in any       *)
(* order, any number of descriptors and any failures: what the shell is    *)
(* left with, and, where no number is closed twice, what every child has.  *)
(***************************************************************************)
EXTENDS PipeFds, FiniteSetTheorems, WellFoundedInduction, TLAPS

\* What a number can refer to.
Objects == {None, Tty, File, Leaked} \cup ({"r", "w"} \X Nat)
Tables == [Fds -> Objects]

-----------------------------------------------------------------------------
(* Free numbers. *)

\* A set of numbers that is not empty has a least one.
LEMMA SmallestNat ==
    ASSUME NEW T, T \subseteq Nat, T # {}
    PROVE  \E x \in T : \A y \in T : x <= y
<1> DEFINE R == {ss \in Nat \X Nat : ss[1] < ss[2]}
<1>1. \E x \in T : \A y \in T : ~(<<y, x>> \in R)
  <2> HIDE DEF R
  <2>1. IsWellFoundedOn(R, Nat)
    BY NatLessThanWellFounded, Zenon DEF R, OpToRel
  <2>2. QED
    BY <2>1, WFMin
<1>2. ASSUME NEW x \in T, NEW y \in T, ~(<<y, x>> \in R) PROVE x <= y
  <2>1. x \in Nat /\ y \in Nat
    OBVIOUS
  <2>2. ~(y < x)
    BY <1>2, <2>1
  <2>3. QED
    BY <2>1, <2>2
<1>3. QED
  BY <1>1, <1>2

\* The number that open returns is free, and no free one is lower.
LEMMA LowestIsFree ==
    ASSUME NEW t, Free(t) # {}
    PROVE  /\ Lowest(t) \in Fds /\ t[Lowest(t)] = None
           /\ \A fd \in Fds : t[fd] = None => Lowest(t) <= fd
<1>1. Free(t) \subseteq Nat
  BY DEF Free, Fds
<1>2. \E x \in Free(t) : \A y \in Free(t) : x <= y
  BY <1>1, SmallestNat
<1>3. Lowest(t) \in Free(t) /\ \A y \in Free(t) : Lowest(t) <= y
  BY <1>2 DEF Lowest, Min
<1>4. QED
  BY <1>3 DEF Free

\* Of two free numbers one is left when the first is taken.
LEMMA TwoFree ==
    ASSUME NEW t, Cardinality(Free(t)) >= 2, NEW x
    PROVE  Free(t) # {} /\ Free(t) \ {x} # {}
<1>1. IsFiniteSet(Free(t))
  <2>1. IsFiniteSet(Fds)
    BY FS_Interval, LimitsAssumption DEF Fds
  <2>2. QED
    BY <2>1, FS_Subset DEF Free
<1>2. Cardinality(Free(t)) \in Nat /\ Free(t) # {}
  BY <1>1, FS_CardinalityType, FS_EmptySet
<1>3. CASE x \in Free(t)
  <2>1. Cardinality(Free(t) \ {x}) = Cardinality(Free(t)) - 1
    BY <1>1, <1>3, FS_RemoveElement
  <2>2. QED
    BY <1>2, <2>1, FS_EmptySet
<1>4. CASE x \notin Free(t)
  BY <1>2, <1>4
<1>5. QED
  BY <1>2, <1>3, <1>4

LEMMA StreamsAreFds == Streams \subseteq Fds
BY LimitsAssumption DEF Streams, Fds

-----------------------------------------------------------------------------
(* The redirections of a child. *)

\* The redirections of a child up to the k-th of them.
ChildRun(g, start, redirs, n) ==
    g = [k \in 0 .. n |-> IF k = 0 THEN start
                          ELSE RedirectChild(g[k - 1], redirs[k])]

LEMMA ChildRunExists ==
    ASSUME NEW start, NEW redirs, NEW n \in Nat
    PROVE  \E g : ChildRun(g, start, redirs, n)
<1> DEFINE T == {m \in Nat : ~\E g : ChildRun(g, start, redirs, m)}
<1>1. SUFFICES ASSUME T # {} PROVE FALSE
  BY <1>1
<1>2. PICK m \in T : \A y \in T : m <= y
  BY <1>1, SmallestNat
<1>3. CASE m = 0
  <2>1. ChildRun([k \in 0 .. 0 |-> start], start, redirs, 0)
    BY DEF ChildRun
  <2>2. QED
    BY <1>2, <1>3, <2>1
<1>4. CASE m # 0
  <2>1. m - 1 \in Nat /\ m - 1 \notin T
    BY <1>2, <1>4
  <2>2. PICK g : ChildRun(g, start, redirs, m - 1)
    BY <2>1
  <2> DEFINE h == [k \in 0 .. m |-> IF k = m THEN RedirectChild(g[m - 1], redirs[m]) ELSE g[k]]
  <2>3. \A k \in 0 .. m - 1 : h[k] = g[k]
    BY <2>1
  <2>4. \A k \in 0 .. m : h[k] = IF k = 0 THEN start ELSE RedirectChild(h[k - 1], redirs[k])
    <3>1. \A k \in 0 .. m - 1 : g[k] = IF k = 0 THEN start ELSE RedirectChild(g[k - 1], redirs[k])
      BY <2>2 DEF ChildRun
    <3>2. QED
      BY <1>4, <2>1, <2>3, <3>1
  <2>5. ChildRun(h, start, redirs, m)
    <3> HIDE DEF h
    <3>1. h = [k \in 0 .. m |-> h[k]]
      BY DEF h
    <3>2. QED
      BY <2>4, <3>1 DEF ChildRun
  <2>6. QED
    BY <1>2, <2>5
<1>5. QED
  BY <1>3, <1>4

LEMMA ChildRuns ==
    ASSUME NEW start, NEW redirs, Len(redirs) \in Nat
    PROVE  \E g : /\ g[0] = start
                  /\ \A k \in 1 .. Len(redirs) : g[k] = RedirectChild(g[k - 1], redirs[k])
                  /\ RedirectedChild(start, redirs) = g[Len(redirs)]
<1> DEFINE f == CHOOSE g : ChildRun(g, start, redirs, Len(redirs))
<1>1. ChildRun(f, start, redirs, Len(redirs))
  BY ChildRunExists
<1>2. RedirectedChild(start, redirs) = f[Len(redirs)]
  BY DEF RedirectedChild, ChildRun
<1> HIDE DEF f
<1>3. QED
  BY <1>1, <1>2 DEF ChildRun

LEMMA ChildRedirect ==
    ASSUME NEW t \in Tables, \A s \in Streams : t[s] # None, NEW redir \in Redirections,
           NEW u, u = RedirectChild(t, redir)
    PROVE  /\ u \in Tables
           /\ \A fd \in Fds : fd \notin Streams => u[fd] = t[fd]
           /\ \A s \in Streams : /\ u[s] # None
                                 /\ u[s] = t[s] \/ redir = [stream |-> s, opens |-> TRUE]
<1>1. CASE ~redir.opens \/ Free(t) = {}
  BY <1>1 DEF RedirectChild
<1>2. CASE redir.opens /\ Free(t) # {}
  <2> DEFINE new == Lowest(t)
  <2>1. new \in Fds /\ t[new] = None /\ new \notin Streams
    BY <1>2, LowestIsFree
  <2>2. u = Close(Dup2([t EXCEPT ![new] = File], new, redir.stream), new)
    BY <1>2 DEF RedirectChild
  <2>3. redir.stream \in Streams /\ redir.opens = TRUE
    BY <1>2 DEF Redirections
  <2> HIDE DEF new
  <2>4. u = [[[t EXCEPT ![new] = File] EXCEPT ![redir.stream] = File] EXCEPT ![new] = None]
    BY <2>1, <2>2 DEF Dup2, Close, File, None, Tables
  <2>5. /\ File # None /\ {File, None} \subseteq Objects
    BY DEF File, None, Objects
  <2>6. /\ u \in Tables
        /\ \A fd \in Fds : u[fd] = IF fd = redir.stream THEN File ELSE t[fd]
    BY <2>1, <2>3, <2>4, <2>5, StreamsAreFds DEF Tables
  <2>7. redir = [stream |-> redir.stream, opens |-> TRUE]
    BY <2>3 DEF Redirections
  <2>8. QED
    BY <2>3, <2>5, <2>6, <2>7, StreamsAreFds
<1>3. QED
  BY <1>1, <1>2 DEF Redirections

\* They change nothing but the streams they are for.
LEMMA ChildRedirected ==
    ASSUME NEW t \in Tables, \A s \in Streams : t[s] # None, NEW rs \in Seq(Redirections),
           NEW u, u = RedirectedChild(t, rs)
    PROVE  /\ u \in Tables
           /\ \A fd \in Fds : fd \notin Streams => u[fd] = t[fd]
           /\ \A s \in Streams :
                 u[s] = t[s] \/ \E k \in DOMAIN rs : rs[k] = [stream |-> s, opens |-> TRUE]
<1> DEFINE Good(v) == /\ v \in Tables
                      /\ \A fd \in Fds : fd \notin Streams => v[fd] = t[fd]
                      /\ \A s \in Streams :
                            /\ v[s] # None
                            /\ \/ v[s] = t[s]
                               \/ \E k \in DOMAIN rs : rs[k] = [stream |-> s, opens |-> TRUE]
<1>1. PICK g : /\ g[0] = t
               /\ \A k \in 1 .. Len(rs) : g[k] = RedirectChild(g[k - 1], rs[k])
               /\ u = g[Len(rs)]
  BY ChildRuns
<1>2. Good(g[0])
  BY <1>1
<1>3. ASSUME NEW k \in 1 .. Len(rs), Good(g[k - 1]) PROVE Good(g[k])
  <2>1. rs[k] \in Redirections /\ k \in DOMAIN rs /\ g[k] = RedirectChild(g[k - 1], rs[k])
    BY <1>1
  <2>2. /\ g[k] \in Tables
        /\ \A fd \in Fds : fd \notin Streams => g[k][fd] = g[k - 1][fd]
        /\ \A s \in Streams :
              /\ g[k][s] # None
              /\ g[k][s] = g[k - 1][s] \/ rs[k] = [stream |-> s, opens |-> TRUE]
    BY <1>3, <2>1, ChildRedirect
  <2>3. QED
    BY <1>3, <2>1, <2>2
<1> HIDE DEF Good
<1>4. \A k \in 0 .. Len(rs) : Good(g[k])
  <2> DEFINE T == {k \in 0 .. Len(rs) : ~Good(g[k])}
  <2>1. SUFFICES ASSUME T # {} PROVE FALSE
    BY <2>1
  <2>a. T \subseteq Nat
    OBVIOUS
  <2>2. PICK k \in T : \A y \in T : k <= y
    <3> HIDE DEF T
    <3>1. QED
      BY <2>1, <2>a, SmallestNat
  <2>3. k # 0 /\ k \in 1 .. Len(rs) /\ k - 1 \in 0 .. Len(rs) /\ k - 1 \notin T
    BY <1>2, <2>2
  <2>4. QED
    BY <1>3, <2>2, <2>3
<1>5. Good(u)
  BY <1>1, <1>4
<1>6. QED
  BY <1>5 DEF Good

-----------------------------------------------------------------------------
(* The redirections of a builtin. *)

\* The redirections of a builtin up to the k-th of them.
BuiltinRun(g, start, redirs, n) ==
    g = [k \in 0 .. n |-> IF k = 0 THEN start
                          ELSE RedirectBuiltin(g[k - 1], redirs[k])]

LEMMA BuiltinRunExists ==
    ASSUME NEW start, NEW redirs, NEW n \in Nat
    PROVE  \E g : BuiltinRun(g, start, redirs, n)
<1> DEFINE T == {m \in Nat : ~\E g : BuiltinRun(g, start, redirs, m)}
<1>1. SUFFICES ASSUME T # {} PROVE FALSE
  BY <1>1
<1>2. PICK m \in T : \A y \in T : m <= y
  BY <1>1, SmallestNat
<1>3. CASE m = 0
  <2>1. BuiltinRun([k \in 0 .. 0 |-> start], start, redirs, 0)
    BY DEF BuiltinRun
  <2>2. QED
    BY <1>2, <1>3, <2>1
<1>4. CASE m # 0
  <2>1. m - 1 \in Nat /\ m - 1 \notin T
    BY <1>2, <1>4
  <2>2. PICK g : BuiltinRun(g, start, redirs, m - 1)
    BY <2>1
  <2> DEFINE h == [k \in 0 .. m |-> IF k = m THEN RedirectBuiltin(g[m - 1], redirs[m]) ELSE g[k]]
  <2>3. \A k \in 0 .. m - 1 : h[k] = g[k]
    BY <2>1
  <2>4. \A k \in 0 .. m : h[k] = IF k = 0 THEN start ELSE RedirectBuiltin(h[k - 1], redirs[k])
    <3>1. \A k \in 0 .. m - 1 : g[k] = IF k = 0 THEN start ELSE RedirectBuiltin(g[k - 1], redirs[k])
      BY <2>2 DEF BuiltinRun
    <3>2. QED
      BY <1>4, <2>1, <2>3, <3>1
  <2>5. BuiltinRun(h, start, redirs, m)
    <3> HIDE DEF h
    <3>1. h = [k \in 0 .. m |-> h[k]]
      BY DEF h
    <3>2. QED
      BY <2>4, <3>1 DEF BuiltinRun
  <2>6. QED
    BY <1>2, <2>5
<1>5. QED
  BY <1>3, <1>4

LEMMA BuiltinRuns ==
    ASSUME NEW start, NEW redirs, Len(redirs) \in Nat
    PROVE  \E g : /\ g[0] = start
                  /\ \A k \in 1 .. Len(redirs) : g[k] = RedirectBuiltin(g[k - 1], redirs[k])
                  /\ RedirectedBuiltin(start, redirs) = g[Len(redirs)]
<1> DEFINE f == CHOOSE g : BuiltinRun(g, start, redirs, Len(redirs))
<1>1. BuiltinRun(f, start, redirs, Len(redirs))
  BY BuiltinRunExists
<1>2. RedirectedBuiltin(start, redirs) = f[Len(redirs)]
  BY DEF RedirectedBuiltin, BuiltinRun
<1> HIDE DEF f
<1>3. QED
  BY <1>1, <1>2 DEF BuiltinRun

Accs == [t : Tables, fds : [Streams -> Fds]]

\* What a builtin may have open beside what was open at base, which it leaves
\* alone: some number of keep, referring to one of values, and its descriptors.
OpensOnly(acc, base, keep, values) ==
    /\ acc \in Accs
    /\ \A fd \in Fds : base[fd] # None => acc.t[fd] = base[fd]
    /\ \A s \in Streams : acc.fds[s] = s \/ base[acc.fds[s]] = None
    /\ \A fd \in Fds : acc.t[fd] # base[fd] =>
          \/ fd \in keep /\ acc.t[fd] \in values
          \/ \E s \in Streams : acc.fds[s] = fd /\ fd # s

\* What opening redirections leaves alone: an open number that is no stream's
\* stays what it is.
KeepsRest(u, acc) ==
    /\ \A fd \in Fds : u.t[fd] \in {acc.t[fd], None, File}
    /\ \A fd \in Fds : acc.t[fd] # None /\ (\A s \in Streams : acc.fds[s] # fd)
          => u.t[fd] = acc.t[fd] /\ (\A s \in Streams : u.fds[s] # fd)

LEMMA BuiltinRedirect ==
    ASSUME NEW base \in Tables, \A s \in Streams : base[s] # None,
           NEW keep, NEW values, NEW acc, OpensOnly(acc, base, keep, values),
           NEW redir \in Redirections, NEW u, u = RedirectBuiltin(acc, redir)
    PROVE  OpensOnly(u, base, keep, values) /\ KeepsRest(u, acc)
<1>1. CASE ~redir.opens \/ Free(acc.t) = {}
  <2>1. u = acc
    BY <1>1 DEF RedirectBuiltin
  <2>2. QED
    BY <2>1 DEF KeepsRest
<1>2. CASE redir.opens /\ Free(acc.t) # {}
  <2> DEFINE new == Lowest(acc.t)
             stream == redir.stream
             old == acc.fds[redir.stream]
             t == [acc.t EXCEPT ![new] = File]
  <2>1. new \in Fds /\ acc.t[new] = None
    BY <1>2, LowestIsFree
  <2>2. /\ acc.t \in Tables /\ acc.fds \in [Streams -> Fds]
        /\ stream \in Streams /\ old \in Fds
    BY DEF OpensOnly, Accs, Redirections
  <2>3. /\ u.t = IF old # stream THEN [t EXCEPT ![old] = None] ELSE t
        /\ u.fds = [acc.fds EXCEPT ![stream] = new]
        /\ u = [t |-> u.t, fds |-> u.fds]
    BY <1>2 DEF RedirectBuiltin, Close
  <2>4. File # None /\ {File, None} \subseteq Objects
    BY DEF File, None, Objects
  <2>5. /\ u.t \in Tables
        /\ \A fd \in Fds : u.t[fd] = IF fd = old /\ old # stream THEN None
                                      ELSE IF fd = new THEN File ELSE acc.t[fd]
    <3> HIDE DEF new, old, stream
    <3>1. QED
      BY <2>1, <2>2, <2>3, <2>4 DEF Tables
  <2>6. /\ u.fds \in [Streams -> Fds]
        /\ \A s \in Streams : u.fds[s] = IF s = stream THEN new ELSE acc.fds[s]
    <3> HIDE DEF new, old, stream
    <3>1. QED
      BY <2>1, <2>2, <2>3
  <2>7. \A fd \in Fds : base[fd] # None => acc.t[fd] = base[fd]
    BY DEF OpensOnly
  <2>8. \A s \in Streams : acc.fds[s] = s \/ base[acc.fds[s]] = None
    BY DEF OpensOnly
  <2>9. \A fd \in Fds : acc.t[fd] # base[fd] =>
          \/ fd \in keep /\ acc.t[fd] \in values
          \/ \E s \in Streams : acc.fds[s] = fd /\ fd # s
    BY DEF OpensOnly
  <2>10. base[new] = None /\ new \notin Streams
    BY <2>1, <2>7, StreamsAreFds
  <2>11. old = stream \/ base[old] = None
    BY <2>2, <2>8
  <2> HIDE DEF new, old, t
  <2>12. \A fd \in Fds : base[fd] # None => u.t[fd] = base[fd]
    BY <2>5, <2>7, <2>10, <2>11
  <2>13. \A s \in Streams : u.fds[s] = s \/ base[u.fds[s]] = None
    BY <2>6, <2>8, <2>10
  <2>14. ASSUME NEW fd \in Fds, u.t[fd] # base[fd]
         PROVE  \/ fd \in keep /\ u.t[fd] \in values
                \/ \E s \in Streams : u.fds[s] = fd /\ fd # s
    <3>1. CASE fd = new
      BY <3>1, <2>2, <2>6, <2>10
    <3>2. CASE fd # new
      <4>1. u.t[fd] = acc.t[fd] /\ (fd = old => old = stream)
        BY <2>5, <2>11, <2>14, <3>2
      <4>2. CASE fd \in keep /\ acc.t[fd] \in values
        BY <4>1, <4>2
      <4>3. CASE \E s \in Streams : acc.fds[s] = fd /\ fd # s
        BY <4>1, <4>3, <2>6 DEF old
      <4>4. QED
        BY <4>1, <4>2, <4>3, <2>9, <2>14
    <3>3. QED
      BY <3>1, <3>2
  <2>15. OpensOnly(u, base, keep, values)
    BY <2>3, <2>5, <2>6, <2>12, <2>13, <2>14 DEF OpensOnly, Accs
  <2>16. \A fd \in Fds : u.t[fd] \in {acc.t[fd], None, File}
    BY <2>5
  <2>17. ASSUME NEW fd \in Fds, acc.t[fd] # None, \A s \in Streams : acc.fds[s] # fd
         PROVE  u.t[fd] = acc.t[fd] /\ (\A s \in Streams : u.fds[s] # fd)
    BY <2>1, <2>2, <2>5, <2>6, <2>17 DEF old
  <2>18. QED
    BY <2>15, <2>16, <2>17 DEF KeepsRest
<1>3. QED
  BY <1>1, <1>2 DEF Redirections

LEMMA BuiltinRedirected ==
    ASSUME NEW base \in Tables, \A s \in Streams : base[s] # None,
           NEW keep, NEW values, NEW acc, OpensOnly(acc, base, keep, values),
           NEW rs \in Seq(Redirections), NEW u, u = RedirectedBuiltin(acc, rs)
    PROVE  OpensOnly(u, base, keep, values) /\ KeepsRest(u, acc)
<1> DEFINE Good(v) == OpensOnly(v, base, keep, values) /\ KeepsRest(v, acc)
<1>1. PICK g : /\ g[0] = acc
               /\ \A k \in 1 .. Len(rs) : g[k] = RedirectBuiltin(g[k - 1], rs[k])
               /\ u = g[Len(rs)]
  BY BuiltinRuns
<1>2. Good(g[0])
  BY <1>1 DEF KeepsRest
<1>3. ASSUME NEW k \in 1 .. Len(rs), Good(g[k - 1]) PROVE Good(g[k])
  <2>1. rs[k] \in Redirections /\ g[k] = RedirectBuiltin(g[k - 1], rs[k])
    BY <1>1
  <2>2. OpensOnly(g[k], base, keep, values) /\ KeepsRest(g[k], g[k - 1])
    BY <1>3, <2>1, BuiltinRedirect
  <2>3. QED
    BY <1>3, <2>2 DEF KeepsRest
<1> HIDE DEF Good
<1>4. \A k \in 0 .. Len(rs) : Good(g[k])
  <2> DEFINE T == {k \in 0 .. Len(rs) : ~Good(g[k])}
  <2>1. SUFFICES ASSUME T # {} PROVE FALSE
    BY <2>1
  <2>a. T \subseteq Nat
    OBVIOUS
  <2>2. PICK k \in T : \A y \in T : k <= y
    <3> HIDE DEF T
    <3>1. QED
      BY <2>1, <2>a, SmallestNat
  <2>3. k # 0 /\ k \in 1 .. Len(rs) /\ k - 1 \in 0 .. Len(rs) /\ k - 1 \notin T
    BY <1>2, <2>2
  <2>4. QED
    BY <1>3, <2>2, <2>3
<1>5. Good(u)
  BY <1>1, <1>4
<1>6. QED
  BY <1>5 DEF Good

-----------------------------------------------------------------------------
(* Types. *)

TypeInv ==
    /\ job \in RunnableJobs \cup LaterJobs
    /\ pc \in {"pipe", "cmd", "builtin", "wait", "done", "killed"}
    /\ idx \in Positions
    /\ pipes \in Seq([r : Fds, w : Fds]) /\ pipesLen = Len(pipes)
    /\ pc = "pipe" => pipesLen = idx - 1
    /\ pc \in {"cmd", "builtin"} => pipesLen = IF LastCmd THEN idx - 1 ELSE idx
    /\ fds \in [Streams -> Fds]
    /\ shell \in Tables /\ before \in [Fds -> {None, Tty, Leaked}]
    /\ stage \in [Positions -> {"none", "setup", "run", "ended"}]
    /\ table \in [Positions -> Tables]
    /\ pc \in {"pipe", "cmd", "builtin"} =>
          \A c \in Positions : c >= idx => stage[c] = "none"

LEMMA ObjectTypes ==
    /\ {None, Tty, File, Leaked} \subseteq Objects
    /\ \A i \in Nat : ReadEnd(i) \in Objects /\ WriteEnd(i) \in Objects
    /\ StdTable \in Tables
BY DEF Objects, ReadEnd, WriteEnd, StdTable, Tables

LEMMA CloseBothType ==
    ASSUME NEW t \in Tables, NEW p \in [r : Fds, w : Fds]
    PROVE  /\ CloseBoth(t, p) \in Tables
           /\ \A fd \in Fds : CloseBoth(t, p)[fd] = IF fd \in {p.r, p.w} THEN None ELSE t[fd]
BY ObjectTypes DEF CloseBoth, Close, Tables

LEMMA CloseType ==
    ASSUME NEW t \in Tables, NEW x \in Fds
    PROVE  /\ Close(t, x) \in Tables
           /\ \A fd \in Fds : Close(t, x)[fd] = IF fd = x THEN None ELSE t[fd]
BY ObjectTypes DEF Close, Tables

\* The commands of a job that may be run.
LEMMA JobType ==
    ASSUME NEW j \in RunnableJobs \cup LaterJobs
    PROVE  /\ Len(j.cmds) \in Nat /\ Len(j.cmds) >= 1
           /\ \A c \in 1 .. Len(j.cmds) : j.cmds[c].redirs \in Seq(Redirections)
<1>1. j.cmds \in Seq(Commands) /\ j.cmds # <<>>
  BY JobsAssumption
<1>2. Len(j.cmds) \in Nat /\ Len(j.cmds) >= 1
  BY <1>1
<1>3. ASSUME NEW c \in 1 .. Len(j.cmds) PROVE j.cmds[c].redirs \in Seq(Redirections)
  <2>1. j.cmds[c] \in Commands
    BY <1>1
  <2>2. QED
    BY <2>1 DEF Commands
<1>4. QED
  BY <1>2, <1>3

\* The pipes that exist at the side of the command whose turn it is.
LEMMA PipeType ==
    ASSUME TypeInv
    PROVE  /\ N \in Nat /\ N >= 1 /\ idx \in 1 .. N
           /\ \A i \in 1 .. pipesLen : pipes[i] \in [r : Fds, w : Fds]
           /\ pc \in {"pipe", "cmd", "builtin"} /\ idx > 1 => idx - 1 \in 1 .. pipesLen
           /\ pc \in {"cmd", "builtin"} /\ idx < N => idx \in 1 .. pipesLen
<1>1. N \in Nat /\ N >= 1 /\ idx \in 1 .. N
  BY JobType DEF TypeInv, N, Positions
<1>2. pipes \in Seq([r : Fds, w : Fds]) /\ pipesLen = Len(pipes) /\ pipesLen \in Nat
  BY DEF TypeInv
<1>3. ASSUME NEW i \in 1 .. pipesLen PROVE pipes[i] \in [r : Fds, w : Fds]
  <2> DEFINE P == [r : Fds, w : Fds]
  <2>1. pipes \in Seq(P) /\ i \in 1 .. Len(pipes)
    BY <1>2
  <2> HIDE DEF P
  <2>2. pipes[i] \in P
    BY <2>1
  <2>3. QED
    BY <2>2 DEF P
<1>4. pc = "pipe" => pipesLen = idx - 1
  BY DEF TypeInv
<1>5. pc \in {"cmd", "builtin"} => pipesLen = IF idx = N THEN idx - 1 ELSE idx
  BY DEF TypeInv, LastCmd
<1>6. pc \in {"pipe", "cmd", "builtin"} /\ idx > 1 => idx - 1 \in 1 .. pipesLen
  BY <1>1, <1>2, <1>4, <1>5
<1>7. pc \in {"cmd", "builtin"} /\ idx < N => idx \in 1 .. pipesLen
  BY <1>1, <1>2, <1>5
<1>8. QED
  BY <1>1, <1>3, <1>6, <1>7

LEMMA CleanedUpType ==
    ASSUME TypeInv, NEW t \in Tables
    PROVE  /\ CleanedUp(t) \in Tables
           /\ CleanedUp(t) = t \/ (pipesLen > 0 /\ pipesLen < N - 1)
           /\ pipesLen > 0 /\ pipesLen < N - 1 =>
                 \A fd \in Fds : CleanedUp(t)[fd] =
                     IF fd \in {pipes[pipesLen].r, pipes[pipesLen].w} THEN None ELSE t[fd]
<1>1. pipesLen \in Nat
  BY DEF TypeInv
<1>2. CASE pipesLen > 0 /\ pipesLen < N - 1
  <2>1. pipes[pipesLen] \in [r : Fds, w : Fds] /\ CleanedUp(t) = CloseBoth(t, pipes[pipesLen])
    BY <1>1, <1>2, PipeType DEF CleanedUp
  <2>2. QED
    BY <1>2, <2>1, CloseBothType
<1>3. CASE ~(pipesLen > 0 /\ pipesLen < N - 1)
  <2>1. CleanedUp(t) = t
    BY <1>3 DEF CleanedUp
  <2>2. CleanedUp(t) \in Tables
    BY <2>1
  <2>3. QED
    BY <1>3, <2>1, <2>2, Zenon
<1>4. QED
  BY <1>2, <1>3

\* A command is done.
LEMMA DoneType ==
    ASSUME TypeInv, NEW t \in Tables, NEW exiting, CommandDone(t, exiting),
           pc \in {"cmd", "builtin"}, UNCHANGED <<job, pipes, pipesLen, before>>,
           fds' \in [Streams -> Fds], table' \in [Positions -> Tables],
           stage' \in [Positions -> {"none", "setup", "run", "ended"}],
           \A c \in Positions : c > idx => stage'[c] = stage[c]
    PROVE  TypeInv'
<1>a. N' = N /\ Positions' = Positions
  BY DEF N, Positions
<1>1. CASE LastCmd \/ exiting
  <2>1. pc' = "wait" /\ shell' = CleanedUp(t) /\ idx' = idx
    BY <1>1 DEF CommandDone, LeaveLoop
  <2>2. shell' \in Tables
    BY <2>1, CleanedUpType
  <2>3. QED
    BY <1>a, <2>1, <2>2 DEF TypeInv
<1>2. CASE ~(LastCmd \/ exiting)
  <2>1. pc' = "pipe" /\ shell' = t /\ idx' = idx + 1 /\ idx # N
    BY <1>2 DEF CommandDone, LastCmd
  <2>2. idx' \in Positions /\ pipesLen' = idx' - 1
    BY <2>1, PipeType DEF TypeInv, LastCmd, Positions
  <2>3. \A c \in Positions : c >= idx' => stage'[c] = "none"
    <3>1. \A c \in Positions : c >= idx + 1 => c > idx /\ c >= idx
      BY PipeType DEF Positions
    <3>2. QED
      BY <2>1, <3>1 DEF TypeInv
  <2>4. QED
    BY <1>a, <2>1, <2>2, <2>3 DEF TypeInv
<1>3. QED
  BY <1>1, <1>2

\* A new pipe takes the two lowest free numbers.
LEMMA NewPipe ==
    ASSUME TypeInv, MakePipe
    PROVE  \E r, w \in Fds :
              /\ shell[r] = None /\ shell[w] = None /\ r < w
              /\ \A fd \in Fds : shell[fd] = None => fd = r \/ fd = w \/ fd > w
              /\ pipes' = Append(pipes, [r |-> r, w |-> w])
              /\ shell' = [shell EXCEPT ![r] = ReadEnd(idx), ![w] = WriteEnd(idx)]
<1> DEFINE r == Lowest(shell)
           u == [shell EXCEPT ![r] = ReadEnd(idx)]
           w == Lowest(u)
<1>1. /\ Cardinality(Free(shell)) >= 2
      /\ pipes' = Append(pipes, [r |-> r, w |-> w])
      /\ shell' = [shell EXCEPT ![r] = ReadEnd(idx), ![w] = WriteEnd(idx)]
  BY DEF MakePipe
<1>2. /\ r \in Fds /\ shell[r] = None
      /\ \A fd \in Fds : shell[fd] = None => r <= fd
  BY <1>1, TwoFree, LowestIsFree
<1>3. ReadEnd(idx) # None /\ shell \in [Fds -> Objects]
  BY DEF ReadEnd, None, TypeInv, Tables
<1>4. Free(u) = Free(shell) \ {r}
  <2> HIDE DEF r
  <2>1. \A fd \in Fds : u[fd] = IF fd = r THEN ReadEnd(idx) ELSE shell[fd]
    BY <1>2, <1>3
  <2> HIDE DEF u
  <2>2. QED
    BY <1>3, <2>1 DEF Free
<1>5. Free(u) # {}
  BY <1>1, <1>4, TwoFree
<1>6. /\ w \in Fds /\ u[w] = None
      /\ \A fd \in Fds : u[fd] = None => w <= fd
  <2> HIDE DEF u
  <2>1. QED
    BY <1>5, LowestIsFree
<1>7. /\ w \in Free(shell) \ {r}
      /\ \A fd \in Fds : shell[fd] = None /\ fd # r => w <= fd
  <2>1. \A fd \in Fds : u[fd] = None <=> fd \in Free(shell) \ {r}
    BY <1>4 DEF Free
  <2> HIDE DEF u, r, w
  <2>2. QED
    BY <1>6, <2>1 DEF Free
<1> HIDE DEF r, w, u
<1>8. r \in Nat /\ w \in Nat /\ Fds \subseteq Nat
  BY <1>2, <1>6 DEF Fds
<1>9. shell[w] = None /\ w # r /\ r < w
  BY <1>2, <1>6, <1>7, <1>8 DEF Free
<1>10. \A fd \in Fds : shell[fd] = None => fd = r \/ fd = w \/ fd > w
  BY <1>7, <1>8
<1>11. QED
  BY <1>1, <1>2, <1>6, <1>9, <1>10

LEMMA InitType == Init => TypeInv
<1> SUFFICES ASSUME Init PROVE TypeInv
  OBVIOUS
<1>2. job \in RunnableJobs \cup LaterJobs
  BY DEF Init
<1>3. N \in Nat /\ N >= 1
  BY <1>2, JobType DEF N
<1>4. StdFds \in [Streams -> Fds]
  BY StreamsAreFds DEF StdFds
<1>5. \A P : <<>> \in Seq(P) /\ Len(<<>>) = 0
  OBVIOUS
<1>6. pipes \in Seq([r : Fds, w : Fds]) /\ pipesLen = Len(pipes) /\ idx \in Positions
  BY <1>3, <1>5 DEF Init, Positions
<1>a. StdTable \in [Fds -> {None, Tty, Leaked}]
  BY DEF StdTable
<1>7. /\ pc = "pipe" /\ idx = 1 /\ pipesLen = 0 /\ fds = StdFds
      /\ shell = StdTable /\ before = StdTable
      /\ stage = [c \in Positions |-> "none"] /\ table = [c \in Positions |-> StdTable]
  BY DEF Init
<1>8. QED
  BY <1>2, <1>4, <1>6, <1>a, <1>7, ObjectTypes DEF TypeInv

LEMMA PipeStepType ==
    ASSUME TypeInv, MakePipe \/ MakeNoPipe \/ PipeFails
    PROVE  TypeInv'
<1>a. UNCHANGED job /\ N' = N /\ Positions' = Positions
  BY DEF MakePipe, MakeNoPipe, PipeFails, N, Positions
<1>1. CASE MakePipe
  <2>1. PICK r \in Fds, w \in Fds :
            /\ pipes' = Append(pipes, [r |-> r, w |-> w])
            /\ shell' = [shell EXCEPT ![r] = ReadEnd(idx), ![w] = WriteEnd(idx)]
    BY <1>1, NewPipe
  <2>2. shell' \in Tables
    BY <2>1, ObjectTypes, PipeType DEF TypeInv, Tables
  <2>3. pipes' \in Seq([r : Fds, w : Fds]) /\ Len(pipes') = Len(pipes) + 1
    <3> DEFINE P == [r : Fds, w : Fds]
    <3>1. PICK p : p = [r |-> r, w |-> w]
      OBVIOUS
    <3>2. p \in P /\ pipes \in Seq(P) /\ pipes' = Append(pipes, p)
      BY <2>1, <3>1 DEF TypeInv
    <3> HIDE DEF P
    <3>3. pipes' \in Seq(P) /\ Len(pipes') = Len(pipes) + 1
      BY <3>2
    <3>4. QED
      BY <3>3 DEF P
  <2>4. /\ pc' = "cmd" /\ pipesLen' = pipesLen + 1 /\ idx # N /\ pc = "pipe"
        /\ UNCHANGED <<idx, fds, stage, table, before>>
    BY <1>1 DEF MakePipe, LastCmd, lineVars
  <2>5. pipesLen' = IF LastCmd' THEN idx' - 1 ELSE idx'
    BY <1>a, <2>4, PipeType DEF LastCmd, TypeInv
  <2>6. QED
    BY <1>a, <2>2, <2>3, <2>4, <2>5 DEF TypeInv
<1>2. CASE MakeNoPipe
  <2>1. LastCmd' /\ pipesLen' = idx' - 1
    BY <1>2, <1>a DEF MakeNoPipe, LastCmd, TypeInv
  <2>2. QED
    BY <1>2, <1>a, <2>1 DEF MakeNoPipe, TypeInv, lineVars
<1>3. CASE PipeFails
  <2>1. shell' \in Tables
    BY <1>3, CleanedUpType DEF PipeFails, LeaveLoop, TypeInv
  <2>2. QED
    BY <1>3, <1>a, <2>1 DEF PipeFails, LeaveLoop, TypeInv, lineVars
<1>4. QED
  BY <1>1, <1>2, <1>3

-----------------------------------------------------------------------------
(* What the shell holds.  It only uses numbers that were free when the job    *)
(* began, and beside what it held then it holds at most the pipes on either   *)
(* side of the command whose turn it is.                                      *)

Numbers(i) == {pipes[i].r, pipes[i].w}

\* In t, beside what was there when the job began, is at most pipe i.
HoldsOnly(t, i) ==
    \A fd \in Fds : t[fd] # before[fd] =>
        i \in 1 .. N - 1 /\ fd \in Numbers(i) /\ t[fd] \in PipeEnds(i)

HoldsBoth ==
    \A fd \in Fds : shell[fd] # before[fd] =>
        \/ idx < N /\ fd \in Numbers(idx) /\ shell[fd] \in PipeEnds(idx)
        \/ /\ idx > 1 /\ fd \in Numbers(idx - 1) /\ shell[fd] \in PipeEnds(idx - 1)
           /\ ~(idx < N /\ fd \in Numbers(idx))

BuiltinKeeps == IF idx < N THEN {pipes[idx].r} ELSE {}

StreamsOpen == \A s \in Streams : before[s] = Tty
NumbersFree == \A i \in 1 .. pipesLen : \A fd \in Numbers(i) : before[fd] = None
OldKept == \A fd \in Fds : before[fd] # None => shell[fd] = before[fd]
HoldsPipes ==
    /\ pc = "pipe" => HoldsOnly(shell, idx - 1)
    /\ pc = "cmd" => HoldsBoth
    /\ pc = "builtin" =>
          OpensOnly([t |-> shell, fds |-> fds], before, BuiltinKeeps, PipeEnds(idx))
SetsUp ==
    \A c \in Positions : stage[c] = "setup" =>
        /\ c > 1 => c - 1 <= pipesLen
        /\ c < N => c <= pipesLen
        /\ \A s \in Streams : table[c][s] = Tty

KeepInv == /\ StreamsOpen /\ NumbersFree /\ OldKept /\ HoldsPipes /\ SetsUp
           /\ ShellKeepsNoFd

\* Where a builtin starts, and what it has done when its redirections are open.
LEMMA BuiltinStarted ==
    ASSUME TypeInv, KeepInv, StartBuiltin
    PROVE  \E start :
              /\ start = [t |-> BuiltinEntry(shell), fds |-> PipedFds]
              /\ OpensOnly(start, before, BuiltinKeeps, PipeEnds(idx))
              /\ OpensOnly([t |-> shell', fds |-> fds'], before, BuiltinKeeps, PipeEnds(idx))
              /\ \A fd \in Fds : shell'[fd] \in {start.t[fd], None, File}
              /\ \A fd \in Fds :
                    start.t[fd] # None /\ (\A s \in Streams : start.fds[s] # fd)
                       => shell'[fd] = start.t[fd] /\ (\A s \in Streams : fds'[s] # fd)
<1> DEFINE start == [t |-> BuiltinEntry(shell), fds |-> PipedFds]
<1>1. /\ N \in Nat /\ N >= 1 /\ idx \in 1 .. N /\ pc = "cmd"
      /\ idx > 1 => idx - 1 \in 1 .. pipesLen
      /\ idx < N => idx \in 1 .. pipesLen
      /\ \A i \in 1 .. pipesLen : pipes[i] \in [r : Fds, w : Fds]
  BY PipeType DEF StartBuiltin
<1>2. /\ idx > 1 => pipes[idx - 1].r \in Fds /\ pipes[idx - 1].w \in Fds
                    /\ before[pipes[idx - 1].r] = None /\ before[pipes[idx - 1].w] = None
      /\ idx < N => pipes[idx].r \in Fds /\ pipes[idx].w \in Fds
                    /\ before[pipes[idx].r] = None /\ before[pipes[idx].w] = None
  BY <1>1 DEF KeepInv, NumbersFree, Numbers
<1>3. \A s \in Streams : before[s] = Tty /\ before[s] # None
  BY DEF KeepInv, StreamsOpen, None, Tty
<1>4. /\ start.t \in Tables
      /\ \A fd \in Fds : start.t[fd] = IF idx > 1 /\ fd = pipes[idx - 1].w THEN None ELSE shell[fd]
  <2>1. shell \in Tables
    BY DEF TypeInv
  <2>2. CASE idx > 1
    <3>1. start.t = Close(shell, pipes[idx - 1].w)
      BY <2>2 DEF BuiltinEntry, RedirectStdin
    <3>2. QED
      BY <1>2, <2>1, <2>2, <3>1, CloseType
  <2>3. CASE ~(idx > 1)
    BY <2>1, <2>3 DEF BuiltinEntry, RedirectStdin
  <2>4. QED
    BY <2>2, <2>3
<1>5. /\ start.fds \in [Streams -> Fds]
      /\ \A s \in Streams : start.fds[s] = IF s = 0 /\ idx > 1 THEN pipes[idx - 1].r
                                           ELSE IF s = 1 /\ idx < N THEN pipes[idx].w ELSE s
  BY <1>1, <1>2, StreamsAreFds DEF PipedFds, RedirectStdin, RedirectStdout
<1>6. start \in Accs
  BY <1>4, <1>5 DEF Accs
<1>7. /\ \A fd \in Fds : before[fd] # None => shell[fd] = before[fd]
      /\ HoldsBoth
  BY <1>1 DEF KeepInv, OldKept, HoldsPipes
<1> HIDE DEF start
<1>8. \A fd \in Fds : before[fd] # None => start.t[fd] = before[fd]
  BY <1>2, <1>4, <1>7
<1>9. \A s \in Streams : start.fds[s] = s \/ before[start.fds[s]] = None
  BY <1>2, <1>5
<1>10. ASSUME NEW fd \in Fds, start.t[fd] # before[fd]
       PROVE  \/ fd \in BuiltinKeeps /\ start.t[fd] \in PipeEnds(idx)
              \/ \E s \in Streams : start.fds[s] = fd /\ fd # s
  <2>1. start.t[fd] = shell[fd] /\ shell[fd] # before[fd] /\ ~(idx > 1 /\ fd = pipes[idx - 1].w)
    BY <1>2, <1>4, <1>10
  <2>2. CASE idx < N /\ fd \in Numbers(idx) /\ shell[fd] \in PipeEnds(idx)
    <3>1. CASE fd = pipes[idx].r
      BY <2>1, <2>2, <3>1 DEF BuiltinKeeps
    <3>2. CASE fd = pipes[idx].w
      <4>1. 1 \in Streams /\ start.fds[1] = fd /\ fd # 1
        BY <1>2, <1>3, <1>5, <2>2, <3>2 DEF Streams
      <4>2. QED
        BY <4>1
    <3>3. QED
      BY <2>2, <3>1, <3>2 DEF Numbers
  <2>3. CASE idx > 1 /\ fd \in Numbers(idx - 1)
    <3>1. fd = pipes[idx - 1].r
      BY <2>1, <2>3 DEF Numbers
    <3>2. 0 \in Streams /\ start.fds[0] = fd /\ fd # 0
      BY <1>2, <1>3, <1>5, <2>3, <3>1 DEF Streams
    <3>3. QED
      BY <3>2
  <2>4. QED
    BY <1>7, <2>1, <2>2, <2>3 DEF HoldsBoth
<1>11. OpensOnly(start, before, BuiltinKeeps, PipeEnds(idx))
  BY <1>6, <1>8, <1>9, <1>10 DEF OpensOnly
<1>12. Cmd.redirs \in Seq(Redirections)
  <2>1. job.cmds[idx].redirs \in Seq(Redirections)
    BY <1>1, JobType DEF TypeInv, N
  <2>2. QED
    BY <2>1 DEF Cmd
<1>13. PICK u : u = RedirectedBuiltin(start, Cmd.redirs) /\ shell' = u.t /\ fds' = u.fds
  BY DEF StartBuiltin, start
<1>14. before \in Tables
  BY ObjectTypes DEF TypeInv, Tables
<1>15. OpensOnly(u, before, BuiltinKeeps, PipeEnds(idx)) /\ KeepsRest(u, start)
  BY <1>3, <1>11, <1>12, <1>13, <1>14, BuiltinRedirected
<1>16. u = [t |-> shell', fds |-> fds']
  BY <1>13, <1>15 DEF OpensOnly, Accs
<1>17. QED
  BY <1>11, <1>13, <1>15, <1>16 DEF start, KeepsRest

LEMMA BuiltinStepType ==
    ASSUME TypeInv, KeepInv, StartBuiltin \/ FinishBuiltin \/ ShellSigpipe
    PROVE  TypeInv'
<1>a. UNCHANGED job /\ N' = N /\ Positions' = Positions
  BY DEF StartBuiltin, FinishBuiltin, ShellSigpipe, N, Positions
<1>1. CASE StartBuiltin
  <2>1. [t |-> shell', fds |-> fds'] \in Accs
    BY <1>1, BuiltinStarted DEF OpensOnly
  <2>2. shell' \in Tables /\ fds' \in [Streams -> Fds]
    BY <2>1 DEF Accs
  <2>3. /\ pc = "cmd" /\ pc' = "builtin"
        /\ UNCHANGED <<job, idx, pipes, pipesLen, stage, table, before>>
    BY <1>1 DEF StartBuiltin, lineVars
  <2>4. LastCmd' = LastCmd
    BY <1>a, <2>3 DEF LastCmd
  <2>5. QED
    BY <1>a, <2>2, <2>3, <2>4 DEF TypeInv
<1>2. CASE FinishBuiltin
  <2>1. BuiltinClosed \in Tables
    BY ObjectTypes DEF BuiltinClosed, TypeInv, Tables
  <2>2. /\ CommandDone(BuiltinClosed, shouldExit') /\ pc = "builtin" /\ fds' = StdFds
        /\ UNCHANGED <<job, pipes, pipesLen, stage, table, before>>
    BY <1>2 DEF FinishBuiltin
  <2>3. fds' \in [Streams -> Fds]
    BY <2>2, StreamsAreFds DEF StdFds
  <2>4. PICK t, e : t = BuiltinClosed /\ e = shouldExit'
    OBVIOUS
  <2>5. t \in Tables /\ CommandDone(t, e)
    BY <2>1, <2>2, <2>4
  <2>6. table' \in [Positions -> Tables]
        /\ stage' \in [Positions -> {"none", "setup", "run", "ended"}]
        /\ \A c \in Positions : c > idx => stage'[c] = stage[c]
    BY <2>2 DEF TypeInv
  <2>7. QED
    BY <2>2, <2>3, <2>5, <2>6, DoneType
<1>3. CASE ShellSigpipe
  <2>1. pc = "builtin" /\ pc' = "killed"
        /\ UNCHANGED <<job, idx, pipes, pipesLen, fds, shell, stage, table, before>>
    BY <1>3 DEF ShellSigpipe, lineVars
  <2>2. QED
    BY <1>a, <2>1 DEF TypeInv
<1>4. QED
  BY <1>1, <1>2, <1>3

LEMMA SpawnStepType ==
    ASSUME TypeInv, Spawn \/ SpawnFails \/ Finish
    PROVE  TypeInv'
<1>a. UNCHANGED job /\ N' = N /\ Positions' = Positions
  BY DEF Spawn, SpawnFails, Finish, N, Positions
<1>1. CASE Spawn
  <2>1. /\ CommandDone(ParentCloses(shell, idx), shouldExit) /\ pc = "cmd"
        /\ stage' = [stage EXCEPT ![idx] = "setup"] /\ table' = [table EXCEPT ![idx] = shell]
        /\ UNCHANGED <<job, pipes, pipesLen, fds, before>>
    BY <1>1 DEF Spawn, lineVars
  <2>2. ParentCloses(shell, idx) \in Tables
    BY <2>1, PipeType, CloseBothType DEF ParentCloses, RedirectStdin, TypeInv
  <2>3. PICK t : t = ParentCloses(shell, idx)
    OBVIOUS
  <2>4. t \in Tables /\ CommandDone(t, shouldExit)
    BY <2>1, <2>2, <2>3
  <2>5. /\ table' \in [Positions -> Tables] /\ fds' \in [Streams -> Fds]
        /\ stage' \in [Positions -> {"none", "setup", "run", "ended"}]
        /\ \A c \in Positions : c > idx => stage'[c] = stage[c]
    <3>1. idx \in Nat
      BY PipeType
    <3>2. QED
      BY <2>1, <3>1 DEF TypeInv
  <2>6. QED
    BY <2>1, <2>4, <2>5, DoneType
<1>2. CASE SpawnFails
  <2>1. shell' \in Tables
    BY <1>2, CleanedUpType DEF SpawnFails, LeaveLoop, TypeInv
  <2>2. QED
    BY <1>2, <1>a, <2>1 DEF SpawnFails, LeaveLoop, TypeInv, lineVars
<1>3. CASE Finish
  BY <1>3, <1>a DEF Finish, TypeInv, lineVars
<1>4. QED
  BY <1>1, <1>2, <1>3

LEMMA NextJobType ==
    ASSUME TypeInv, NextJob
    PROVE  TypeInv'
<1>1. job' \in RunnableJobs \cup LaterJobs
  BY DEF NextJob
<1>2. N' \in Nat /\ N' >= 1 /\ N' = Len(job'.cmds) /\ Positions' = 1 .. N'
  BY <1>1, JobType DEF N, Positions
<1>3. before' \in [Fds -> {None, Tty, Leaked}] /\ shell' \in Tables
  <2>1. before' = [fd \in Fds |-> IF shell[fd] \in {None, Tty} THEN shell[fd] ELSE Leaked]
        /\ shell' = before'
    BY DEF NextJob
  <2>2. QED
    BY <2>1, ObjectTypes DEF TypeInv, Tables
<1>4. StdFds \in [Streams -> Fds]
  BY StreamsAreFds DEF StdFds
<1>5. \A P : <<>> \in Seq(P) /\ Len(<<>>) = 0
  OBVIOUS
<1>6. /\ pc' = "pipe" /\ idx' = 1 /\ pipes' = <<>> /\ pipesLen' = 0 /\ fds' = StdFds
      /\ stage' = [c \in 1 .. N' |-> "none"] /\ table' = [c \in 1 .. N' |-> StdTable]
  BY <1>2 DEF NextJob
<1>7. pipes' \in Seq([r : Fds, w : Fds]) /\ pipesLen' = Len(pipes') /\ idx' \in Positions'
  BY <1>2, <1>5, <1>6
<1>8. stage' \in [Positions' -> {"none", "setup", "run", "ended"}]
      /\ table' \in [Positions' -> Tables]
      /\ \A c \in Positions' : stage'[c] = "none"
  BY <1>2, <1>6, ObjectTypes
<1>9. QED
  BY <1>1, <1>3, <1>4, <1>6, <1>7, <1>8 DEF TypeInv

\* A child closes one end of a pipe and moves the other one to a stream.
Moves(u, t, x, y, s) ==
    /\ u \in Tables
    /\ \A fd \in Fds : u[fd] = IF fd \in {x, y} THEN None
                               ELSE IF fd = s /\ t[y] # None /\ x # y THEN t[y]
                               ELSE t[fd]

LEMMA EndMoved ==
    ASSUME NEW t \in Tables, NEW x \in Fds \ Streams, NEW y \in Fds \ Streams,
           NEW s \in Streams, NEW u, u = Close(Dup2(Close(t, x), y, s), y)
    PROVE  Moves(u, t, x, y, s)
<1> DEFINE v == Close(t, x)
           z == Dup2(v, y, s)
<1>1. v \in Tables /\ \A fd \in Fds : v[fd] = IF fd = x THEN None ELSE t[fd]
  BY CloseType
<1> HIDE DEF v
<1>2. z = IF v[y] = None THEN v ELSE [v EXCEPT ![s] = v[y]]
  BY DEF Dup2
<1> HIDE DEF z
<1>3. s \in Fds /\ v[y] \in Objects
  BY <1>1, StreamsAreFds DEF Tables
<1>4. /\ z \in Tables
      /\ \A fd \in Fds : z[fd] = IF fd = s /\ v[y] # None THEN v[y] ELSE v[fd]
  BY <1>1, <1>2, <1>3 DEF Tables
<1>5. u = Close(z, y)
  BY DEF z, v
<1>6. u \in Tables /\ \A fd \in Fds : u[fd] = IF fd = y THEN None ELSE z[fd]
  <2>1. z \in Tables /\ y \in Fds
    BY <1>4
  <2>2. u = [z EXCEPT ![y] = None]
    BY <1>5 DEF Close
  <2>3. QED
    BY <2>1, <2>2, ObjectTypes DEF Tables
<1>7. ASSUME NEW fd \in Fds
      PROVE  u[fd] = IF fd \in {x, y} THEN None
                     ELSE IF fd = s /\ t[y] # None /\ x # y THEN t[y] ELSE t[fd]
  <2>1. v[y] = IF y = x THEN None ELSE t[y]
    BY <1>1
  <2>2. CASE fd = x
    BY <1>1, <1>3, <1>4, <1>6, <2>2
  <2>3. CASE fd # x
    BY <1>1, <1>4, <1>6, <2>1, <2>3
  <2>4. QED
    BY <2>2, <2>3
<1>8. QED
  BY <1>6, <1>7 DEF Moves

\* The table a child has made for itself before it opens its redirections, and
\* the one it runs its program with.
LEMMA ChildTables ==
    ASSUME TypeInv, KeepInv, NEW c \in Positions, stage[c] = "setup"
    PROVE  \E t1, t2 \in Tables :
              /\ t1 = IF c > 1 THEN PipeIn(table[c], pipes[c - 1]) ELSE table[c]
              /\ t2 = IF c < N THEN PipeOut(t1, pipes[c]) ELSE t1
              /\ c > 1 => pipes[c - 1].r \in Fds \ Streams /\ pipes[c - 1].w \in Fds \ Streams
              /\ c < N => pipes[c].r \in Fds \ Streams /\ pipes[c].w \in Fds \ Streams
              /\ ChildTable(c) \in Tables
              /\ \A fd \in Fds : fd \notin Streams => ChildTable(c)[fd] = t2[fd]
              /\ \A s \in Streams : ChildTable(c)[s] = t2[s] \/ Redirected(c, s)
<1> DEFINE t1 == IF c > 1 THEN PipeIn(table[c], pipes[c - 1]) ELSE table[c]
           t2 == IF c < N THEN PipeOut(t1, pipes[c]) ELSE t1
<1>1. /\ table[c] \in Tables /\ \A s \in Streams : table[c][s] # None
      /\ c > 1 => c - 1 \in 1 .. pipesLen
      /\ c < N => c \in 1 .. pipesLen
  <2>1. c \in 1 .. N /\ N \in Nat /\ pipesLen \in Nat
    BY PipeType DEF TypeInv, Positions
  <2>2. QED
    BY <2>1 DEF TypeInv, KeepInv, SetsUp, Tty, None
<1>2. ASSUME NEW i \in 1 .. pipesLen
      PROVE  pipes[i].r \in Fds \ Streams /\ pipes[i].w \in Fds \ Streams
  <2>1. pipes[i] \in [r : Fds, w : Fds] /\ before[pipes[i].r] = None /\ before[pipes[i].w] = None
    BY PipeType DEF KeepInv, NumbersFree, Numbers
  <2>2. QED
    BY <2>1 DEF KeepInv, StreamsOpen, None, Tty
<1>3. t1 \in Tables /\ \A s \in Streams : t1[s] # None
  <2>1. CASE c > 1
    <3>1. t1 = Close(Dup2(Close(table[c], pipes[c - 1].w), pipes[c - 1].r, 0), pipes[c - 1].r)
      BY <2>1 DEF PipeIn
    <3>2. 0 \in Streams
      BY DEF Streams
    <3>3. PICK x, y, t : /\ x = pipes[c - 1].w /\ x \in Fds \ Streams
                         /\ y = pipes[c - 1].r /\ y \in Fds \ Streams
                         /\ t = table[c] /\ t \in Tables
      BY <1>1, <1>2, <2>1
    <3> HIDE DEF t1
    <3>4. t1 = Close(Dup2(Close(t, x), y, 0), y)
      BY <3>1, <3>3
    <3>5. Moves(t1, t, x, y, 0)
      BY <3>2, <3>3, <3>4, EndMoved
    <3>6. QED
      BY <1>1, <3>3, <3>5, StreamsAreFds DEF Moves
  <2>2. CASE ~(c > 1)
    BY <1>1, <2>2
  <2>3. QED
    BY <2>1, <2>2
<1> HIDE DEF t1
<1>4. t2 \in Tables /\ \A s \in Streams : t2[s] # None
  <2>1. CASE c < N
    <3>1. t2 = Close(Dup2(Close(t1, pipes[c].r), pipes[c].w, 1), pipes[c].w)
      BY <2>1 DEF PipeOut
    <3>2. 1 \in Streams
      BY DEF Streams
    <3>3. PICK x, y : /\ x = pipes[c].r /\ x \in Fds \ Streams
                      /\ y = pipes[c].w /\ y \in Fds \ Streams
      BY <1>1, <1>2, <2>1
    <3> HIDE DEF t2
    <3>4. t2 = Close(Dup2(Close(t1, x), y, 1), y)
      BY <3>1, <3>3
    <3>5. Moves(t2, t1, x, y, 1)
      BY <1>3, <3>2, <3>3, <3>4, EndMoved
    <3>6. QED
      BY <1>3, <3>3, <3>5, StreamsAreFds DEF Moves
  <2>2. CASE ~(c < N)
    BY <1>3, <2>2
  <2>3. QED
    BY <2>1, <2>2
<1>5. ChildTable(c) = RedirectedChild(t2, job.cmds[c].redirs)
  BY DEF ChildTable, RedirectStdin, RedirectStdout, t1
<1> HIDE DEF t2
<1>6. job.cmds[c].redirs \in Seq(Redirections)
  BY JobType DEF TypeInv, Positions, N
<1>7. PICK rs, u : /\ rs = job.cmds[c].redirs /\ rs \in Seq(Redirections)
                   /\ u = RedirectedChild(t2, rs)
  BY <1>6
<1>8. /\ u \in Tables
      /\ \A fd \in Fds : fd \notin Streams => u[fd] = t2[fd]
      /\ \A s \in Streams :
            u[s] = t2[s] \/ \E k \in DOMAIN rs : rs[k] = [stream |-> s, opens |-> TRUE]
  <2>1. PICK t : t = t2
    OBVIOUS
  <2>2. /\ t \in Tables /\ (\A s \in Streams : t[s] # None)
        /\ rs \in Seq(Redirections) /\ u = RedirectedChild(t, rs)
    BY <1>4, <1>7, <2>1
  <2>3. /\ u \in Tables
        /\ \A fd \in Fds : fd \notin Streams => u[fd] = t[fd]
    BY <2>2, ChildRedirected
  <2>4. \A s \in Streams :
            u[s] = t[s] \/ \E k \in DOMAIN rs : rs[k] = [stream |-> s, opens |-> TRUE]
    BY <2>2, ChildRedirected
  <2>5. QED
    BY <2>1, <2>3, <2>4
<1>9. ChildTable(c) = u
  BY <1>5, <1>7
<1>10. \A s \in Streams : u[s] = t2[s] \/ Redirected(c, s)
  BY <1>7, <1>8 DEF Redirected
<1>11. QED
  BY <1>1, <1>2, <1>3, <1>4, <1>8, <1>9, <1>10 DEF t1, t2

LEMMA ChildStepType ==
    ASSUME TypeInv, KeepInv, NEW c \in Positions, Child(c)
    PROVE  TypeInv'
<1>a. /\ UNCHANGED <<job, pc, idx, pipes, pipesLen, fds, shell, before>>
      /\ N' = N /\ Positions' = Positions /\ LastCmd' = LastCmd
  BY DEF Child, ChildSetup, ChildEnds, ChildQuits, lineVars, N, Positions, LastCmd
<1>1. /\ stage[c] # "none"
      /\ \E x \in {"run", "ended"} : stage' = [stage EXCEPT ![c] = x]
  BY DEF Child, ChildSetup, ChildEnds, ChildQuits
<1>2. /\ stage' \in [Positions -> {"none", "setup", "run", "ended"}]
      /\ \A i \in Positions : stage[i] = "none" => stage'[i] = "none"
  BY <1>1 DEF TypeInv
<1>3. table' \in [Positions -> Tables]
  <2>1. CASE ChildSetup(c)
    <3>1. ChildTable(c) \in Tables /\ table' = [table EXCEPT ![c] = ChildTable(c)]
      BY <2>1, ChildTables DEF ChildSetup
    <3>2. QED
      BY <3>1 DEF TypeInv
  <2>2. CASE ~ChildSetup(c)
    BY <2>2 DEF Child, ChildEnds, ChildQuits, TypeInv
  <2>3. QED
    BY <2>1, <2>2
<1>4. QED
  BY <1>a, <1>2, <1>3 DEF TypeInv

LEMMA StepType == TypeInv /\ KeepInv /\ [Next]_vars => TypeInv'
<1> SUFFICES ASSUME TypeInv, KeepInv, [Next]_vars PROVE TypeInv'
  OBVIOUS
<1>1. CASE UNCHANGED vars
  BY <1>1 DEF TypeInv, vars, lineVars, Positions, N, LastCmd
<1>2. CASE Shell
  BY <1>2, PipeStepType, BuiltinStepType, SpawnStepType DEF Shell
<1>3. CASE NextJob
  BY <1>3, NextJobType
<1>4. CASE \E c \in Positions : Child(c)
  BY <1>4, ChildStepType
<1>5. QED
  BY <1>1, <1>2, <1>3, <1>4 DEF Next, Quiet


\* A command is done, and the shell has kept nothing but the pipe to its right.
LEMMA DoneKeeps ==
    ASSUME TypeInv, KeepInv, NEW t \in Tables, NEW exiting, CommandDone(t, exiting),
           pc \in {"cmd", "builtin"}, UNCHANGED <<job, pipes, pipesLen, before>>,
           exiting => shouldExit', HoldsOnly(t, idx),
           \A fd \in Fds : before[fd] # None => t[fd] = before[fd]
    PROVE  OldKept' /\ HoldsPipes' /\ ShellKeepsNoFd'
<1>a. /\ N' = N /\ N \in Nat /\ idx \in 1 .. N /\ pipesLen \in Nat
      /\ pipesLen = IF idx = N THEN idx - 1 ELSE idx
  BY PipeType DEF TypeInv, N, LastCmd
<1>b. \A i \in 1 .. pipesLen : \A fd \in Numbers(i) : before[fd] = None
  BY DEF KeepInv, NumbersFree
<1>c. \A fd \in Fds : t[fd] # before[fd] =>
          idx < N /\ fd \in Numbers(idx) /\ t[fd] \in PipeEnds(idx)
  BY <1>a DEF HoldsOnly
<1>1. CASE LastCmd \/ exiting
  <2>1. pc' = "wait" /\ shell' = CleanedUp(t) /\ idx' = idx
    BY <1>1 DEF CommandDone, LeaveLoop
  <2>2. \A fd \in Fds :
            \/ shell'[fd] = before[fd]
            \/ idx = N - 1 /\ fd \in Numbers(idx) /\ shell'[fd] \in PipeEnds(idx)
    <3>1. CASE pipesLen > 0 /\ pipesLen < N - 1
      <4>1. \A fd \in Fds : shell'[fd] = IF fd \in Numbers(pipesLen) THEN None ELSE t[fd]
        BY <2>1, <3>1, CleanedUpType DEF Numbers
      <4>2. pipesLen = idx /\ pipesLen \in 1 .. pipesLen
        BY <1>a, <3>1
      <4>3. QED
        BY <1>b, <1>c, <4>1, <4>2
    <3>2. CASE ~(pipesLen > 0 /\ pipesLen < N - 1)
      <4>1. shell' = t
        BY <2>1, <3>2, CleanedUpType
      <4>2. idx < N => idx = N - 1
        BY <1>a, <3>2
      <4>3. QED
        BY <1>c, <4>1, <4>2
    <3>3. QED
      BY <3>1, <3>2
  <2>3. \A fd \in Fds : before[fd] # None => shell'[fd] = before[fd]
    <3>1. idx = N - 1 => idx \in 1 .. pipesLen
      BY <1>a
    <3>2. QED
      BY <1>b, <2>2, <3>1
  <2>4. ASSUME NEW fd \in Fds, shell'[fd] # before[fd]
        PROVE  fd > 2 /\ shell'[fd] \in KeptPipes'
    <3>1. idx = N - 1 /\ fd \in Numbers(idx) /\ shell'[fd] \in PipeEnds(idx)
      BY <2>2, <2>4
    <3>2. idx \in 1 .. pipesLen /\ idx # N /\ pipesLen = N - 1
      BY <1>a, <3>1
    <3>3. before[fd] = None /\ fd \notin Streams
      BY <1>b, <3>1, <3>2 DEF KeepInv, StreamsOpen, None, Tty
    <3>4. fd > 2
      BY <3>3 DEF Fds, Streams
    <3>5. exiting /\ shouldExit'
      BY <1>1, <3>2 DEF LastCmd
    <3>6. idx' # N' /\ pipesLen' = N' - 1
      BY <1>a, <2>1, <3>2
    <3>7. CutShort'
      BY <2>1, <3>5, <3>6 DEF CutShort, LastCmd
    <3>8. PipeEnds(idx') = PipeEnds(idx) /\ PipeEnds(idx') \subseteq KeptPipes'
      BY <2>1, <3>7 DEF KeptPipes
    <3>9. QED
      BY <3>1, <3>4, <3>8
  <2>5. ShellKeepsNoFd'
    BY <2>4 DEF ShellKeepsNoFd
  <2>6. QED
    BY <2>1, <2>3, <2>5 DEF OldKept, HoldsPipes
<1>2. CASE ~(LastCmd \/ exiting)
  <2>1. pc' = "pipe" /\ shell' = t /\ idx' = idx + 1 /\ idx # N
    BY <1>2 DEF CommandDone, LastCmd
  <2>2. idx' - 1 = idx
    BY <1>a, <2>1
  <2>3. PICK i : i = idx
    OBVIOUS
  <2>4. \A fd \in Fds : t[fd] # before[fd] =>
            i \in 1 .. N - 1 /\ fd \in {pipes[i].r, pipes[i].w} /\ t[fd] \in PipeEnds(i)
    BY <2>3 DEF HoldsOnly, Numbers
  <2>5. HoldsOnly(shell, idx - 1)'
    <3>1. (idx - 1)' = i
      BY <2>2, <2>3
    <3>2. \A fd \in Fds : shell'[fd] # before'[fd] =>
              /\ i \in 1 .. N' - 1 /\ fd \in {pipes'[i].r, pipes'[i].w}
              /\ shell'[fd] \in PipeEnds(i)
      BY <1>a, <2>1, <2>4
    <3>3. QED
      BY <3>1, <3>2 DEF HoldsOnly, Numbers
  <2>6. QED
    BY <2>1, <2>5 DEF OldKept, HoldsPipes, ShellKeepsNoFd
<1>3. QED
  BY <1>1, <1>2

\* The parts of the invariant that only speak of the children and of what was
\* there when the job began.
LEMMA PartsKept ==
    ASSUME TypeInv, KeepInv, UNCHANGED <<job, pipes, pipesLen, before, stage, table>>
    PROVE  StreamsOpen' /\ NumbersFree' /\ SetsUp'
BY DEF KeepInv, StreamsOpen, NumbersFree, Numbers, SetsUp, Positions, N

\* What becomes of the pipes and of the shell's table when a pipe is made.
LEMMA PipeMade ==
    ASSUME TypeInv, MakePipe
    PROVE  /\ pc = "pipe" /\ pc' = "cmd" /\ idx < N /\ pipesLen' = idx /\ pipesLen = idx - 1
           /\ UNCHANGED <<job, idx, fds, stage, table, before>>
           /\ N' = N /\ Positions' = Positions /\ idx \in Nat /\ idx >= 1 /\ N \in Nat
           /\ \A i \in 1 .. idx - 1 : pipes'[i] = pipes[i]
           /\ \E r, w \in Fds :
                 /\ shell[r] = None /\ shell[w] = None /\ r < w
                 /\ \A fd \in Fds : shell[fd] = None => fd = r \/ fd = w \/ fd > w
                 /\ pipes'[idx] = [r |-> r, w |-> w]
                 /\ \A fd \in Fds : shell'[fd] = IF fd = w THEN WriteEnd(idx) ELSE
                                                 IF fd = r THEN ReadEnd(idx) ELSE shell[fd]
<1>1. PICK r \in Fds, w \in Fds :
          /\ shell[r] = None /\ shell[w] = None /\ r < w
          /\ \A fd \in Fds : shell[fd] = None => fd = r \/ fd = w \/ fd > w
          /\ pipes' = Append(pipes, [r |-> r, w |-> w])
          /\ shell' = [shell EXCEPT ![r] = ReadEnd(idx), ![w] = WriteEnd(idx)]
  BY NewPipe
<1>2. /\ pc = "pipe" /\ pc' = "cmd" /\ idx < N /\ pipesLen' = idx /\ pipesLen = idx - 1
      /\ UNCHANGED <<job, idx, fds, stage, table, before>>
      /\ N' = N /\ Positions' = Positions /\ idx \in Nat /\ idx >= 1 /\ N \in Nat
  BY PipeType DEF MakePipe, LastCmd, lineVars, TypeInv, N, Positions
<1>3. (\A i \in 1 .. idx - 1 : pipes'[i] = pipes[i]) /\ pipes'[idx] = [r |-> r, w |-> w]
  <2>1. PICK p : p = [r |-> r, w |-> w]
    OBVIOUS
  <2>2. pipes \in Seq([r : Fds, w : Fds]) /\ Len(pipes) = idx - 1 /\ pipes' = Append(pipes, p)
    BY <1>1, <1>2, <2>1 DEF TypeInv
  <2> DEFINE P == [r : Fds, w : Fds]
  <2>3. pipes \in Seq(P) /\ p \in P
    BY <1>1, <2>1, <2>2
  <2> HIDE DEF P
  <2>4. (\A i \in 1 .. idx - 1 : pipes'[i] = pipes[i]) /\ pipes'[idx] = p
    BY <1>2, <2>2, <2>3
  <2>5. QED
    BY <2>1, <2>4
<1>4. \A fd \in Fds : shell'[fd] = IF fd = w THEN WriteEnd(idx) ELSE
                                   IF fd = r THEN ReadEnd(idx) ELSE shell[fd]
  BY <1>1 DEF TypeInv, Tables
<1>5. QED
  BY <1>1, <1>2, <1>3, <1>4

LEMMA MakePipeKeeps ==
    ASSUME TypeInv, KeepInv, MakePipe
    PROVE  KeepInv'
<1>1. PICK r \in Fds, w \in Fds :
          /\ shell[r] = None /\ shell[w] = None /\ r < w
          /\ pipes'[idx] = [r |-> r, w |-> w]
          /\ \A fd \in Fds : shell'[fd] = IF fd = w THEN WriteEnd(idx) ELSE
                                          IF fd = r THEN ReadEnd(idx) ELSE shell[fd]
  BY PipeMade
<1>2. /\ pc = "pipe" /\ pc' = "cmd" /\ idx < N /\ pipesLen' = idx /\ pipesLen = idx - 1
      /\ UNCHANGED <<job, idx, fds, stage, table, before>>
      /\ N' = N /\ Positions' = Positions /\ idx \in Nat /\ idx >= 1 /\ N \in Nat
      /\ \A i \in 1 .. idx - 1 : pipes'[i] = pipes[i]
  BY PipeMade
<1>3. /\ \A i \in 1 .. idx - 1 : pipes'[i] = pipes[i]
      /\ pipes'[idx].r = r /\ pipes'[idx].w = w /\ pipes'[idx] = [r |-> r, w |-> w]
  BY <1>1, <1>2
<1>4. before[r] = None /\ before[w] = None
  BY <1>1 DEF KeepInv, OldKept
<1>5. \A fd \in Fds : shell'[fd] = IF fd = w THEN WriteEnd(idx) ELSE
                                   IF fd = r THEN ReadEnd(idx) ELSE shell[fd]
  BY <1>1
<1>6. StreamsOpen' /\ OldKept'
  BY <1>2, <1>4, <1>5 DEF KeepInv, StreamsOpen, OldKept
<1>7. NumbersFree'
  <2>1. ASSUME NEW i \in 1 .. idx, NEW fd \in {pipes'[i].r, pipes'[i].w} PROVE before[fd] = None
    <3>1. CASE i = idx
      BY <1>3, <1>4, <2>1, <3>1
    <3>2. CASE i # idx
      <4>1. i \in 1 .. pipesLen /\ i \in 1 .. idx - 1
        BY <1>2, <3>2
      <4>2. QED
        BY <1>3, <2>1, <4>1 DEF KeepInv, NumbersFree, Numbers
    <3>3. QED
      BY <3>1, <3>2
  <2>2. QED
    BY <1>2, <2>1 DEF NumbersFree, Numbers
<1>8. HoldsPipes'
  <2>1. ASSUME NEW fd \in Fds, shell'[fd] # before[fd]
        PROVE  \/ fd \in {pipes'[idx].r, pipes'[idx].w} /\ shell'[fd] \in PipeEnds(idx)
               \/ /\ idx > 1 /\ fd \in {pipes'[idx - 1].r, pipes'[idx - 1].w}
                  /\ shell'[fd] \in PipeEnds(idx - 1)
                  /\ ~(fd \in {pipes'[idx].r, pipes'[idx].w})
    <3>1. CASE fd \in {r, w}
      BY <1>3, <1>5, <3>1 DEF PipeEnds
    <3>2. CASE fd \notin {r, w}
      <4>1. /\ shell'[fd] = shell[fd] /\ idx - 1 \in 1 .. N - 1
            /\ fd \in Numbers(idx - 1) /\ shell[fd] \in PipeEnds(idx - 1)
        BY <1>2, <1>5, <2>1, <3>2 DEF KeepInv, HoldsPipes, HoldsOnly
      <4>2. idx > 1 /\ pipes'[idx - 1] = pipes[idx - 1]
        BY <1>2, <1>3, <4>1
      <4>3. QED
        BY <1>3, <3>2, <4>1, <4>2 DEF Numbers
    <3>3. QED
      BY <3>1, <3>2
  <2>2. PICK i, k : i = idx /\ k = idx - 1
    OBVIOUS
  <2>3. \A fd \in Fds : shell'[fd] # before'[fd] =>
               \/ i < N' /\ fd \in {pipes'[i].r, pipes'[i].w} /\ shell'[fd] \in PipeEnds(i)
               \/ /\ i > 1 /\ fd \in {pipes'[k].r, pipes'[k].w}
                  /\ shell'[fd] \in PipeEnds(k)
                  /\ ~(i < N' /\ fd \in {pipes'[i].r, pipes'[i].w})
    BY <1>2, <2>1, <2>2
  <2>4. idx' = i /\ (idx - 1)' = k
    BY <1>2, <2>2
  <2>5. HoldsBoth'
    BY <2>3, <2>4 DEF HoldsBoth, Numbers
  <2>6. QED
    BY <1>2, <2>5 DEF HoldsPipes
<1>9. SetsUp'
  <2>1. \A c \in Positions : c \in Nat
    BY <1>2 DEF Positions
  <2>2. QED
    BY <1>2, <2>1 DEF KeepInv, SetsUp
<1>10. QED
  BY <1>2, <1>6, <1>7, <1>8, <1>9 DEF KeepInv, ShellKeepsNoFd

LEMMA MakeNoPipeKeeps ==
    ASSUME TypeInv, KeepInv, MakeNoPipe
    PROVE  KeepInv'
<1>1. /\ pc = "pipe" /\ pc' = "cmd" /\ idx = N
      /\ UNCHANGED <<job, idx, pipes, pipesLen, fds, shell, stage, table, before>>
  BY DEF MakeNoPipe, LastCmd, lineVars
<1>2. HoldsOnly(shell, idx - 1) /\ idx \in Nat /\ N \in Nat
  BY <1>1, PipeType DEF KeepInv, HoldsPipes
<1>3. HoldsBoth
  BY <1>1, <1>2 DEF HoldsBoth, HoldsOnly
<1>4. HoldsBoth'
  BY <1>1, <1>3 DEF HoldsBoth, Numbers, N
<1>5. QED
  BY <1>1, <1>4, PartsKept DEF KeepInv, OldKept, HoldsPipes, ShellKeepsNoFd

LEMMA PipeFailsKeeps ==
    ASSUME TypeInv, KeepInv, PipeFails
    PROVE  KeepInv'
<1>1. /\ pc = "pipe" /\ pc' = "wait" /\ idx < N /\ shell' = CleanedUp(shell) /\ idx \in Nat
      /\ pipesLen = idx - 1 /\ N \in Nat /\ idx >= 1
      /\ UNCHANGED <<job, idx, pipes, pipesLen, fds, stage, table, before>>
  BY PipeType DEF PipeFails, LeaveLoop, LastCmd, TypeInv, lineVars
<1>2. shell \in Tables /\ HoldsOnly(shell, idx - 1)
  BY <1>1 DEF TypeInv, KeepInv, HoldsPipes
<1>3. \A fd \in Fds : shell'[fd] = before[fd]
  <2>1. CASE idx = 1
    <3>1. shell' = shell
      BY <1>1, <1>2, <2>1, CleanedUpType
    <3>2. QED
      BY <1>2, <2>1, <3>1 DEF HoldsOnly
  <2>2. CASE idx > 1
    <3>1. \A fd \in Fds : shell'[fd] = IF fd \in Numbers(idx - 1) THEN None ELSE shell[fd]
      BY <1>1, <1>2, <2>2, CleanedUpType DEF Numbers
    <3>2. \A fd \in Numbers(idx - 1) : before[fd] = None
      BY <1>1, <2>2 DEF KeepInv, NumbersFree
    <3>3. QED
      BY <1>2, <3>1, <3>2 DEF HoldsOnly
  <2>3. QED
    BY <1>1, <2>1, <2>2
<1>4. OldKept' /\ HoldsPipes' /\ ShellKeepsNoFd'
  BY <1>1, <1>3 DEF OldKept, HoldsPipes, ShellKeepsNoFd
<1>5. QED
  BY <1>1, <1>4, PartsKept DEF KeepInv

LEMMA StartBuiltinKeeps ==
    ASSUME TypeInv, KeepInv, StartBuiltin
    PROVE  KeepInv'
<1>1. /\ pc = "cmd" /\ pc' = "builtin"
      /\ UNCHANGED <<job, idx, pipes, pipesLen, stage, table, before>>
  BY DEF StartBuiltin, lineVars
<1>2. OpensOnly([t |-> shell', fds |-> fds'], before, BuiltinKeeps, PipeEnds(idx))
  BY BuiltinStarted
<1>3. BuiltinKeeps' = BuiltinKeeps
  BY <1>1 DEF BuiltinKeeps, N
<1>4. HoldsPipes'
  BY <1>1, <1>2, <1>3 DEF HoldsPipes
<1>5. OldKept'
  BY <1>1, <1>2 DEF OldKept, OpensOnly
<1>6. QED
  BY <1>1, <1>4, <1>5, PartsKept DEF KeepInv, ShellKeepsNoFd

LEMMA FinishBuiltinKeeps ==
    ASSUME TypeInv, KeepInv, FinishBuiltin
    PROVE  KeepInv'
<1>1. /\ pc = "builtin" /\ CommandDone(BuiltinClosed, shouldExit')
      /\ UNCHANGED <<job, pipes, pipesLen, stage, table, before>>
  BY DEF FinishBuiltin
<1>2. /\ fds \in [Streams -> Fds] /\ shell \in Tables
      /\ N \in Nat /\ idx \in 1 .. N
  BY PipeType DEF TypeInv
<1>3. OpensOnly([t |-> shell, fds |-> fds], before, BuiltinKeeps, PipeEnds(idx))
  BY <1>1 DEF KeepInv, HoldsPipes
<1>4. /\ \A fd \in Fds : before[fd] # None => shell[fd] = before[fd]
      /\ \A s \in Streams : fds[s] = s \/ before[fds[s]] = None
      /\ \A fd \in Fds : shell[fd] # before[fd] =>
            \/ fd \in BuiltinKeeps /\ shell[fd] \in PipeEnds(idx)
            \/ \E s \in Streams : fds[s] = fd /\ fd # s
  BY <1>3 DEF OpensOnly
<1>5. PICK t, e : t = BuiltinClosed /\ e = shouldExit'
  OBVIOUS
<1>6. \A fd \in Fds : t[fd] = IF \E s \in Streams : fds[s] # s /\ fds[s] = fd
                              THEN None ELSE shell[fd]
  BY <1>5 DEF BuiltinClosed
<1>7. t \in Tables
  BY <1>2, <1>5, ObjectTypes DEF BuiltinClosed, Tables
<1>8. \A fd \in Fds : before[fd] # None => t[fd] = before[fd]
  BY <1>4, <1>6
<1>9. HoldsOnly(t, idx)
  <2>1. ASSUME NEW fd \in Fds, t[fd] # before[fd]
        PROVE  idx \in 1 .. N - 1 /\ fd \in Numbers(idx) /\ t[fd] \in PipeEnds(idx)
    <3>1. t[fd] = shell[fd] /\ ~\E s \in Streams : fds[s] # s /\ fds[s] = fd
      BY <1>4, <1>6, <2>1
    <3>2. fd \in BuiltinKeeps /\ shell[fd] \in PipeEnds(idx)
      BY <1>4, <2>1, <3>1
    <3>3. QED
      BY <1>2, <3>1, <3>2 DEF BuiltinKeeps, Numbers
  <2>2. QED
    BY <2>1 DEF HoldsOnly
<1>10. CommandDone(t, e)
  BY <1>1, <1>5
<1>11. OldKept' /\ HoldsPipes' /\ ShellKeepsNoFd'
  BY <1>1, <1>5, <1>7, <1>8, <1>9, <1>10, DoneKeeps
<1>12. QED
  BY <1>1, <1>11, PartsKept DEF KeepInv

LEMMA SpawnKeeps ==
    ASSUME TypeInv, KeepInv, Spawn
    PROVE  KeepInv'
<1>1. /\ pc = "cmd" /\ CommandDone(ParentCloses(shell, idx), shouldExit)
      /\ stage' = [stage EXCEPT ![idx] = "setup"] /\ table' = [table EXCEPT ![idx] = shell]
      /\ UNCHANGED <<job, pipes, pipesLen, before, shouldExit>>
      /\ N' = N /\ Positions' = Positions
  BY DEF Spawn, lineVars, N, Positions
<1>2. /\ shell \in Tables /\ N \in Nat /\ idx \in 1 .. N
      /\ idx > 1 => idx - 1 \in 1 .. pipesLen /\ pipes[idx - 1] \in [r : Fds, w : Fds]
      /\ idx < N => idx \in 1 .. pipesLen
  BY <1>1, PipeType DEF TypeInv
<1>3. PICK t : t = ParentCloses(shell, idx)
  OBVIOUS
<1>4. /\ t \in Tables
      /\ \A fd \in Fds : t[fd] = IF idx > 1 /\ fd \in Numbers(idx - 1) THEN None ELSE shell[fd]
  <2>1. CASE idx > 1
    BY <1>2, <1>3, <2>1, CloseBothType DEF ParentCloses, RedirectStdin, Numbers
  <2>2. CASE ~(idx > 1)
    BY <1>2, <1>3, <2>2 DEF ParentCloses, RedirectStdin
  <2>3. QED
    BY <2>1, <2>2
<1>5. HoldsBoth /\ OldKept /\ StreamsOpen /\ NumbersFree /\ SetsUp
  BY <1>1 DEF KeepInv, HoldsPipes
<1>6. \A fd \in Fds : before[fd] # None => t[fd] = before[fd]
  BY <1>2, <1>4, <1>5 DEF OldKept, NumbersFree
<1>7. HoldsOnly(t, idx)
  BY <1>2, <1>4, <1>5 DEF HoldsOnly, HoldsBoth, NumbersFree
<1>8. CommandDone(t, shouldExit)
  BY <1>1, <1>3
<1>9. OldKept' /\ HoldsPipes' /\ ShellKeepsNoFd'
  BY <1>1, <1>4, <1>6, <1>7, <1>8, DoneKeeps
<1>10. StreamsOpen' /\ NumbersFree'
  BY <1>1, <1>5 DEF StreamsOpen, NumbersFree, Numbers
<1>11. SetsUp'
  <2>1. ASSUME NEW c \in Positions, stage'[c] = "setup"
        PROVE  /\ c > 1 => c - 1 <= pipesLen
               /\ c < N => c <= pipesLen
               /\ \A s \in Streams : table'[c][s] = Tty
    <3>1. CASE c = idx
      <4>1. table'[c] = shell
        BY <1>1, <3>1 DEF TypeInv
      <4>2. \A s \in Streams : shell[s] = Tty
        <5>1. Tty # None
          BY DEF Tty, None
        <5>2. QED
          BY <1>5, <5>1, StreamsAreFds DEF StreamsOpen, OldKept
      <4>3. pipesLen \in Nat
        BY DEF TypeInv
      <4>4. QED
        BY <1>2, <3>1, <4>1, <4>2, <4>3
    <3>2. CASE c # idx
      <4>1. stage[c] = "setup" /\ table'[c] = table[c]
        BY <1>1, <2>1, <3>2 DEF TypeInv
      <4>2. QED
        BY <1>5, <4>1 DEF SetsUp
    <3>3. QED
      BY <3>1, <3>2
  <2>2. QED
    BY <1>1, <2>1 DEF SetsUp
<1>12. QED
  BY <1>9, <1>10, <1>11 DEF KeepInv

LEMMA SpawnFailsKeeps ==
    ASSUME TypeInv, KeepInv, SpawnFails
    PROVE  KeepInv'
<1>1. /\ pc = "cmd" /\ pc' = "wait" /\ shell' = CleanedUp(shell) /\ ~InShell(idx)
      /\ UNCHANGED <<job, idx, pipes, pipesLen, fds, stage, table, before>>
  BY DEF SpawnFails, LeaveLoop, lineVars
<1>2. /\ shell \in Tables /\ N \in Nat /\ idx \in 1 .. N /\ pipesLen \in Nat
      /\ idx > 1 => idx - 1 \in 1 .. pipesLen
      /\ idx < N => idx \in 1 .. pipesLen
      /\ LastCmd \/ pipesLen = idx
      /\ stage[idx] = "none"
  BY <1>1, PipeType DEF TypeInv, LastCmd, Positions
<1>3. HoldsBoth /\ OldKept /\ StreamsOpen /\ NumbersFree
  BY <1>1 DEF KeepInv, HoldsPipes
<1>4. ForkFailed'
  BY <1>1, <1>2 DEF ForkFailed, InShell, Fg, LastCmd, N
<1>5. PipeEnds(idx - 1) \cup PipeEnds(idx) \subseteq KeptPipes'
  <2>1. PICK i : i = idx
    OBVIOUS
  <2>2. PipeEnds(i - 1) \cup PipeEnds(i) \subseteq KeptPipes'
    BY <1>1, <1>4, <2>1 DEF KeptPipes
  <2>3. QED
    BY <2>1, <2>2
<1>6. \A fd \in Fds : shell'[fd] = shell[fd] \/ (before[fd] = None /\ shell'[fd] = None)
  <2>1. CASE pipesLen > 0 /\ pipesLen < N - 1
    <3>1. \A fd \in Fds : shell'[fd] = IF fd \in Numbers(pipesLen) THEN None ELSE shell[fd]
      BY <1>1, <1>2, <2>1, CleanedUpType DEF Numbers
    <3>2. QED
      BY <1>2, <1>3, <2>1, <3>1 DEF NumbersFree
  <2>2. CASE ~(pipesLen > 0 /\ pipesLen < N - 1)
    BY <1>1, <1>2, <2>2, CleanedUpType
  <2>3. QED
    BY <2>1, <2>2
<1>7. OldKept'
  BY <1>1, <1>3, <1>6 DEF OldKept
<1>8. ASSUME NEW fd \in Fds, shell'[fd] # before[fd]
      PROVE  fd > 2 /\ shell'[fd] \in KeptPipes'
  <2>1. shell'[fd] = shell[fd] /\ shell[fd] # before[fd]
    BY <1>6, <1>8
  <2>2. shell[fd] \in PipeEnds(idx - 1) \cup PipeEnds(idx)
    BY <1>3, <2>1 DEF HoldsBoth
  <2>3. fd \notin Streams
    BY <1>3, <2>1 DEF OldKept, StreamsOpen, None, Tty
  <2>4. fd > 2
    BY <2>3 DEF Fds, Streams
  <2>5. QED
    BY <1>5, <2>1, <2>2, <2>4
<1>9. HoldsPipes' /\ ShellKeepsNoFd'
  BY <1>1, <1>8 DEF HoldsPipes, ShellKeepsNoFd
<1>10. QED
  BY <1>1, <1>7, <1>9, PartsKept DEF KeepInv

LEMMA FinishKeeps ==
    ASSUME TypeInv, KeepInv, Finish \/ ShellSigpipe
    PROVE  KeepInv'
<1>1. CASE Finish
  <2>1. /\ pc = "wait" /\ pc' = "done"
        /\ UNCHANGED <<job, idx, pipes, pipesLen, fds, shell, stage, table, shouldExit, before>>
    BY <1>1 DEF Finish, lineVars
  <2>2. KeptPipes' = KeptPipes
    BY <2>1 DEF KeptPipes, ForkFailed, CutShort, InShell, Fg, LastCmd, N
  <2>3. ShellKeepsNoFd'
    BY <2>1, <2>2 DEF KeepInv, ShellKeepsNoFd
  <2>4. QED
    BY <2>1, <2>3, PartsKept DEF KeepInv, OldKept, HoldsPipes
<1>2. CASE ShellSigpipe
  <2>1. /\ pc' = "killed"
        /\ UNCHANGED <<job, idx, pipes, pipesLen, fds, shell, stage, table, before>>
    BY <1>2 DEF ShellSigpipe, lineVars
  <2>2. QED
    BY <2>1, PartsKept DEF KeepInv, OldKept, HoldsPipes, ShellKeepsNoFd
<1>3. QED
  BY <1>1, <1>2

LEMMA NextJobKeeps ==
    ASSUME TypeInv, KeepInv, NextJob
    PROVE  KeepInv'
<1>1. /\ pc' = "pipe" /\ idx' = 1 /\ pipesLen' = 0 /\ shell' = before'
      /\ before' = [fd \in Fds |-> IF shell[fd] \in {None, Tty} THEN shell[fd] ELSE Leaked]
      /\ stage' = [c \in Positions' |-> "none"]
  BY DEF NextJob, Positions, N
<1>2. StreamsOpen'
  <2>1. \A s \in Streams : shell[s] = Tty
    <3>1. Tty # None
      BY DEF Tty, None
    <3>2. QED
      BY <3>1, StreamsAreFds DEF KeepInv, OldKept, StreamsOpen
  <2>2. QED
    BY <1>1, <2>1, StreamsAreFds DEF StreamsOpen
<1>3. NumbersFree' /\ OldKept' /\ SetsUp' /\ ShellKeepsNoFd'
  BY <1>1 DEF NumbersFree, OldKept, SetsUp, ShellKeepsNoFd
<1>4. HoldsPipes'
  BY <1>1 DEF HoldsPipes, HoldsOnly
<1>5. QED
  BY <1>2, <1>3, <1>4 DEF KeepInv

LEMMA ChildKeeps ==
    ASSUME TypeInv, KeepInv, NEW c \in Positions, Child(c)
    PROVE  KeepInv'
<1>1. /\ UNCHANGED <<job, pc, idx, pipes, pipesLen, fds, shell, shouldExit, before>>
      /\ N' = N /\ Positions' = Positions /\ LastCmd' = LastCmd
  BY DEF Child, ChildSetup, ChildEnds, ChildQuits, lineVars, N, Positions, LastCmd
<1>2. /\ stage[c] # "none"
      /\ \E x \in {"run", "ended"} : stage' = [stage EXCEPT ![c] = x]
      /\ \A i \in Positions : i # c => table'[i] = table[i]
  BY DEF Child, ChildSetup, ChildEnds, ChildQuits, TypeInv
<1>3. \A i \in Positions :
          /\ (stage'[i] = "none") <=> (stage[i] = "none")
          /\ stage'[i] = "setup" => stage[i] = "setup" /\ i # c
  BY <1>2 DEF TypeInv
<1>4. SetsUp'
  BY <1>1, <1>2, <1>3 DEF KeepInv, SetsUp
<1>5. ForkFailed' <=> ForkFailed
  <2>1. idx \in Positions
    BY DEF TypeInv
  <2>2. (stage'[idx'] = "none") <=> (stage[idx] = "none")
    BY <1>1, <1>3, <2>1
  <2>3. InShell(idx)' <=> InShell(idx)
    BY <1>1 DEF InShell, Fg
  <2>4. QED
    BY <1>1, <2>2, <2>3 DEF ForkFailed
<1>6. KeptPipes' = KeptPipes
  <2>1. CutShort' <=> CutShort
    BY <1>1 DEF CutShort
  <2>2. QED
    BY <1>1, <1>5, <2>1 DEF KeptPipes
<1>7. ShellKeepsNoFd'
  BY <1>1, <1>6 DEF KeepInv, ShellKeepsNoFd
<1>8. HoldsPipes'
  BY <1>1 DEF KeepInv, HoldsPipes, HoldsOnly, HoldsBoth, Numbers, BuiltinKeeps
<1>9. QED
  BY <1>1, <1>4, <1>7, <1>8 DEF KeepInv, StreamsOpen, NumbersFree, Numbers, OldKept

LEMMA StepKeeps == TypeInv /\ KeepInv /\ [Next]_vars => KeepInv'
<1> SUFFICES ASSUME TypeInv, KeepInv, [Next]_vars PROVE KeepInv'
  OBVIOUS
<1>1. CASE UNCHANGED vars
  <2>1. UNCHANGED <<job, pc, idx, pipes, pipesLen, fds, shell, stage, table, shouldExit, before>>
    BY <1>1 DEF vars, lineVars
  <2>2. UNCHANGED <<N, LastCmd, BuiltinKeeps>>
    BY <2>1 DEF N, LastCmd, BuiltinKeeps
  <2>3. HoldsPipes'
    BY <2>1, <2>2 DEF KeepInv, HoldsPipes, HoldsOnly, HoldsBoth, Numbers
  <2>4. KeptPipes' = KeptPipes
    BY <2>1, <2>2 DEF KeptPipes, ForkFailed, CutShort, InShell, Fg
  <2>5. ShellKeepsNoFd' /\ OldKept'
    BY <2>1, <2>4 DEF KeepInv, ShellKeepsNoFd, OldKept
  <2>6. QED
    BY <2>1, <2>3, <2>5, PartsKept DEF KeepInv
<1>2. CASE Shell
  BY <1>2, MakePipeKeeps, MakeNoPipeKeeps, PipeFailsKeeps, StartBuiltinKeeps,
     FinishBuiltinKeeps, SpawnKeeps, SpawnFailsKeeps, FinishKeeps DEF Shell
<1>3. CASE NextJob
  BY <1>3, NextJobKeeps
<1>4. CASE \E c \in Positions : Child(c)
  BY <1>4, ChildKeeps
<1>5. QED
  BY <1>1, <1>2, <1>3, <1>4 DEF Next, Quiet

LEMMA InitKeeps == Init => KeepInv
<1> SUFFICES ASSUME Init PROVE KeepInv
  OBVIOUS
<1>1. /\ pc = "pipe" /\ idx = 1 /\ pipesLen = 0 /\ shell = StdTable /\ before = StdTable
      /\ stage = [c \in Positions |-> "none"]
  BY DEF Init
<1>2. StreamsOpen
  BY <1>1, StreamsAreFds DEF StreamsOpen, StdTable, Streams
<1>3. HoldsPipes
  BY <1>1 DEF HoldsPipes, HoldsOnly
<1>4. QED
  BY <1>1, <1>2, <1>3 DEF KeepInv, NumbersFree, OldKept, SetsUp, ShellKeepsNoFd

\* At every step of the loop the shell holds its own descriptors, the pipe it has just
\* made and the end that the next command will read, and nothing else.
THEOREM KeepInvariant == Spec => [](TypeInv /\ KeepInv)
<1>1. Init => TypeInv /\ KeepInv
  BY InitType, InitKeeps
<1>2. TypeInv /\ KeepInv /\ [Next]_vars => (TypeInv /\ KeepInv)'
  BY StepType, StepKeeps
<1>3. QED
  BY <1>1, <1>2, PTL DEF Spec

\* Whatever fails and whoever ends when, the shell is left with what it held
\* before the job, unless a fork failed or an exit cut the job short: the closes
\* of run_builtin_fg, spawn and run_job_desc add up, also where one of them meets
\* a number that is closed already.
THEOREM NoFdKept == Spec => []ShellKeepsNoFd
BY KeepInvariant, PTL DEF KeepInv

-----------------------------------------------------------------------------
(* Which numbers they are.  The pipes of a job take turns with two pairs of   *)
(* numbers, as long as no number is closed twice: the lowest two that were    *)
(* free, and two above them.                                                  *)

Pairs ==
    /\ pipesLen >= 1 =>
          /\ pipes[1].r < pipes[1].w
          /\ \A fd \in Fds : before[fd] = None => fd \in Numbers(1) \/ fd > pipes[1].w
    /\ \A i \in 1 .. pipesLen :
          IF i % 2 = 1 THEN pipes[i] = pipes[1]
          ELSE /\ pipes[i].r > pipes[1].w /\ pipes[i].w > pipes[1].w
               /\ pipes[i].r # pipes[i].w

LeftPipe ==
    idx > 1 => /\ shell[pipes[idx - 1].r] = ReadEnd(idx - 1)
               /\ ~InShell(idx - 1) => shell[pipes[idx - 1].w] = WriteEnd(idx - 1)
RightPipe ==
    idx < N => /\ shell[pipes[idx].r] = ReadEnd(idx)
               /\ shell[pipes[idx].w] = WriteEnd(idx)
BuiltinPipe ==
    /\ InShell(idx)
    /\ idx < N => /\ shell[pipes[idx].r] = ReadEnd(idx)
                  /\ \A s \in Streams : fds[s] # pipes[idx].r
    /\ \A fd \in Fds : shell[fd][1] = "w" => idx < N /\ shell[fd] = WriteEnd(idx)

\* What a child has inherited.
Inherited(c) ==
    /\ c > 1 => table[c][pipes[c - 1].r] = ReadEnd(c - 1)
    /\ c < N => table[c][pipes[c].w] = WriteEnd(c)
    /\ \A fd \in Fds : table[c][fd] # before[fd] =>
          \/ c > 1 /\ fd \in Numbers(c - 1)
          \/ c < N /\ fd \in Numbers(c)

ShellPlaces ==
    /\ pc \in {"pipe", "cmd"} => LeftPipe
    /\ pc = "cmd" => RightPipe
    /\ pc = "builtin" => BuiltinPipe
    /\ pc # "killed"
ChildPlaces == \A c \in Positions : stage[c] = "setup" => Inherited(c)

PlacesInv == ~NumberReused => Pairs /\ ShellPlaces /\ ChildPlaces /\ PipedAsWritten

\* Neighbouring pipes have no number in common.
LEMMA PairsApart ==
    ASSUME TypeInv, Pairs, NEW i \in 1 .. pipesLen
    PROVE  /\ pipes[i].r # pipes[i].w
           /\ i > 1 => Numbers(i - 1) \cap Numbers(i) = {}
<1>1. pipesLen \in Nat /\ i \in Nat /\ i >= 1 /\ 1 \in 1 .. pipesLen
      /\ pipes[1] \in [r : Fds, w : Fds] /\ pipes[i] \in [r : Fds, w : Fds]
  <2>1. pipesLen \in Nat
    BY DEF TypeInv
  <2>2. QED
    BY <2>1, PipeType
<1>2. pipes[1].r \in Nat /\ pipes[1].w \in Nat /\ pipes[1].r < pipes[1].w
  BY <1>1 DEF Pairs, Fds
<1>3. \A k \in 1 .. pipesLen :
          IF k % 2 = 1 THEN pipes[k] = pipes[1]
          ELSE /\ pipes[k].r > pipes[1].w /\ pipes[k].w > pipes[1].w
               /\ pipes[k].r # pipes[k].w
  BY DEF Pairs
<1>4. pipes[i].r # pipes[i].w
  BY <1>2, <1>3
<1>5. ASSUME i > 1 PROVE Numbers(i - 1) \cap Numbers(i) = {}
  <2>1. i - 1 \in 1 .. pipesLen /\ (i % 2 = 1 <=> ~((i - 1) % 2 = 1))
    BY <1>1, <1>5
  <2>2. pipes[i - 1] \in [r : Fds, w : Fds]
    BY <2>1, PipeType
  <2>3. /\ pipes[i].r \in Nat /\ pipes[i].w \in Nat
        /\ pipes[i - 1].r \in Nat /\ pipes[i - 1].w \in Nat
    BY <1>1, <2>2 DEF Fds
  <2>4. CASE i % 2 = 1
    <3>1. pipes[i] = pipes[1] /\ pipes[i - 1].r > pipes[1].w /\ pipes[i - 1].w > pipes[1].w
      BY <1>3, <2>1, <2>4
    <3>2. QED
      BY <1>2, <2>3, <3>1 DEF Numbers
  <2>5. CASE ~(i % 2 = 1)
    <3>1. pipes[i - 1] = pipes[1] /\ pipes[i].r > pipes[1].w /\ pipes[i].w > pipes[1].w
      BY <1>3, <2>1, <2>5
    <3>2. QED
      BY <1>2, <2>3, <3>1 DEF Numbers
  <2>6. QED
    BY <2>4, <2>5
<1>6. QED
  BY <1>4, <1>5

\* The numbers of the pipes on either side of the command whose turn it is.
LEMMA Sides ==
    ASSUME TypeInv, KeepInv, Pairs, pc \in {"cmd", "builtin"}
    PROVE  /\ N \in Nat /\ idx \in 1 .. N
           /\ idx > 1 => /\ pipes[idx - 1].r \in Fds /\ pipes[idx - 1].w \in Fds
                         /\ pipes[idx - 1].r # pipes[idx - 1].w
                         /\ before[pipes[idx - 1].r] = None /\ before[pipes[idx - 1].w] = None
           /\ idx < N => /\ pipes[idx].r \in Fds /\ pipes[idx].w \in Fds
                         /\ pipes[idx].r # pipes[idx].w
                         /\ before[pipes[idx].r] = None /\ before[pipes[idx].w] = None
           /\ idx > 1 /\ idx < N => Numbers(idx - 1) \cap Numbers(idx) = {}
<1>1. /\ N \in Nat /\ idx \in 1 .. N
      /\ idx > 1 => idx - 1 \in 1 .. pipesLen
      /\ idx < N => idx \in 1 .. pipesLen
      /\ \A i \in 1 .. pipesLen : pipes[i] \in [r : Fds, w : Fds]
  BY PipeType
<1>2. \A i \in 1 .. pipesLen : before[pipes[i].r] = None /\ before[pipes[i].w] = None
  BY DEF KeepInv, NumbersFree, Numbers
<1>3. idx > 1 => pipes[idx - 1].r # pipes[idx - 1].w
  BY <1>1, PairsApart
<1>4. idx < N => /\ pipes[idx].r # pipes[idx].w
                 /\ idx > 1 => Numbers(idx - 1) \cap Numbers(idx) = {}
  BY <1>1, PairsApart
<1>5. QED
  BY <1>1, <1>2, <1>3, <1>4

LEMMA EndsDiffer ==
    /\ \A i : ReadEnd(i)[1] = "r" /\ WriteEnd(i)[1] = "w" /\ WriteEnd(i)[2] = i
    /\ \A i : ReadEnd(i) # None /\ WriteEnd(i) # None
    /\ \A i, k : ReadEnd(i) # WriteEnd(k)
    /\ None[1] # "w" /\ Tty[1] # "w" /\ File[1] # "w" /\ Leaked[1] # "w"
BY DEF ReadEnd, WriteEnd, None, Tty, File, Leaked

\* Without a reused number the next pipe takes the pair that is free.
LEMMA NextPair ==
    ASSUME TypeInv, KeepInv, Pairs, LeftPipe, ~NumberReused, MakePipe, idx > 1,
           NEW r \in Fds, NEW w \in Fds, shell[r] = None, shell[w] = None, r < w,
           \A fd \in Fds : shell[fd] = None => fd = r \/ fd = w \/ fd > w
    PROVE  IF idx % 2 = 1 THEN r = pipes[1].r /\ w = pipes[1].w
                          ELSE r > pipes[1].w /\ w > pipes[1].w
<1>1. /\ pc = "pipe" /\ idx < N /\ pipesLen = idx - 1 /\ idx \in Nat /\ N \in Nat
  BY PipeType DEF MakePipe, LastCmd, TypeInv
<1>2. 1 \in 1 .. pipesLen /\ idx - 1 \in 1 .. pipesLen
  BY <1>1
<1>3. /\ pipes[1].r \in Fds /\ pipes[1].w \in Fds
      /\ before[pipes[1].r] = None /\ before[pipes[1].w] = None
      /\ pipes[idx - 1].r \in Fds /\ pipes[idx - 1].w \in Fds
  BY <1>2, PipeType DEF KeepInv, NumbersFree, Numbers
<1>4. pipes[1].r < pipes[1].w
      /\ \A fd \in Fds : before[fd] = None => fd \in {pipes[1].r, pipes[1].w} \/ fd > pipes[1].w
  BY <1>1 DEF Pairs, Numbers
<1>5. before[r] = None /\ before[w] = None
  BY DEF KeepInv, OldKept
<1>6. Fds \subseteq Nat
  BY DEF Fds
<1>7. CASE idx % 2 = 1
  <2>1. ~((idx - 1) % 2 = 1)
    BY <1>1, <1>7
  <2>2. pipes[idx - 1].r > pipes[1].w /\ pipes[idx - 1].w > pipes[1].w
    BY <1>2, <2>1 DEF Pairs
  <2>3. \A fd \in Fds : shell[fd] # before[fd] => fd \in {pipes[idx - 1].r, pipes[idx - 1].w}
    BY <1>1 DEF KeepInv, HoldsPipes, HoldsOnly, Numbers
  <2>4. PICK a, b, x, y : a = pipes[1].r /\ b = pipes[1].w
                          /\ x = pipes[idx - 1].r /\ y = pipes[idx - 1].w
    OBVIOUS
  <2>5. a \in Nat /\ b \in Nat /\ a < b /\ x > b /\ y > b /\ x \in Nat /\ y \in Nat
    BY <1>3, <1>4, <1>6, <2>2, <2>4
  <2>6. shell[a] = None /\ shell[b] = None /\ a \in Fds /\ b \in Fds
    BY <1>3, <2>3, <2>4, <2>5
  <2>7. /\ a = r \/ a = w \/ a > w
        /\ b = r \/ b = w \/ b > w
    BY <2>6
  <2>8. /\ r = a \/ r = b \/ r > b
        /\ w = a \/ w = b \/ w > b
    BY <1>4, <1>5, <2>4
  <2>9. r = a /\ w = b
    BY <1>6, <2>5, <2>7, <2>8
  <2>10. QED
    BY <1>7, <2>4, <2>9
<1>8. CASE ~(idx % 2 = 1)
  <2>1. (idx - 1) % 2 = 1
    BY <1>1, <1>8
  <2>2. pipes[idx - 1] = pipes[1]
    BY <1>2, <2>1 DEF Pairs
  <2>3. ~InShell(idx - 1)
    BY <1>1, <2>1 DEF NumberReused, Positions
  <2>4. shell[pipes[1].r] # None /\ shell[pipes[1].w] # None
    BY <2>2, <2>3, EndsDiffer DEF LeftPipe
  <2>5. QED
    BY <1>4, <1>5, <1>8, <2>4
<1>9. QED
  BY <1>7, <1>8

\* What holds of the children holds as long as they, and their pipes, stay.
LEMMA ChildrenStay ==
    ASSUME TypeInv, KeepInv, ChildPlaces, PipedAsWritten,
           UNCHANGED <<job, stage, table, before>>,
           \A i \in 1 .. pipesLen : pipes'[i] = pipes[i]
    PROVE  ChildPlaces' /\ PipedAsWritten'
<1>1. N' = N /\ Positions' = Positions /\ N \in Nat /\ pipesLen \in Nat /\ Positions = 1 .. N
  BY PipeType DEF N, Positions, TypeInv
<1>2. PipedAsWritten'
  BY <1>1 DEF PipedAsWritten, StreamsOf, Redirected
<1>3. ASSUME NEW c \in Positions, stage[c] = "setup"
      PROVE  /\ c > 1 => table'[c][pipes'[c - 1].r] = ReadEnd(c - 1)
             /\ c < N => table'[c][pipes'[c].w] = WriteEnd(c)
             /\ \A fd \in Fds : table'[c][fd] # before'[fd] =>
                   \/ c > 1 /\ fd \in {pipes'[c - 1].r, pipes'[c - 1].w}
                   \/ c < N /\ fd \in {pipes'[c].r, pipes'[c].w}
  <2>1. /\ c > 1 => pipes'[c - 1] = pipes[c - 1]
        /\ c < N => pipes'[c] = pipes[c]
    <3>1. /\ c > 1 => c - 1 \in 1 .. pipesLen
          /\ c < N => c \in 1 .. pipesLen
      BY <1>1, <1>3 DEF KeepInv, SetsUp
    <3>2. QED
      BY <3>1
  <2>2. Inherited(c)
    BY <1>3 DEF ChildPlaces
  <2>3. QED
    BY <2>1, <2>2 DEF Inherited, Numbers
<1>4. ChildPlaces'
  BY <1>1, <1>3 DEF ChildPlaces, Inherited, Numbers
<1>5. QED
  BY <1>2, <1>4

\* The pairs, as long as no pipe is made.
LEMMA PairsStay ==
    ASSUME Pairs, UNCHANGED <<pipes, pipesLen, before>>
    PROVE  Pairs'
BY DEF Pairs, Numbers

LEMMA MakePipePlaces ==
    ASSUME TypeInv, KeepInv, PlacesInv, ~NumberReused, MakePipe
    PROVE  PlacesInv'
<1>1. PICK r \in Fds, w \in Fds :
          /\ shell[r] = None /\ shell[w] = None /\ r < w
          /\ \A fd \in Fds : shell[fd] = None => fd = r \/ fd = w \/ fd > w
          /\ pipes'[idx] = [r |-> r, w |-> w]
          /\ \A fd \in Fds : shell'[fd] = IF fd = w THEN WriteEnd(idx) ELSE
                                          IF fd = r THEN ReadEnd(idx) ELSE shell[fd]
  BY PipeMade
<1>2. /\ pc = "pipe" /\ pc' = "cmd" /\ idx < N /\ pipesLen' = idx /\ pipesLen = idx - 1
      /\ UNCHANGED <<job, idx, fds, stage, table, before>>
      /\ N' = N /\ Positions' = Positions /\ idx \in Nat /\ idx >= 1 /\ N \in Nat
      /\ \A i \in 1 .. idx - 1 : pipes'[i] = pipes[i]
  BY PipeMade
<1>3. /\ \A i \in 1 .. idx - 1 : pipes'[i] = pipes[i]
      /\ pipes'[idx].r = r /\ pipes'[idx].w = w /\ pipes'[idx] = [r |-> r, w |-> w]
  BY <1>1, <1>2
<1>4. Pairs /\ LeftPipe /\ ChildPlaces /\ PipedAsWritten
  BY <1>2 DEF PlacesInv, ShellPlaces
<1>5. \A fd \in Fds : shell'[fd] = IF fd = w THEN WriteEnd(idx) ELSE
                                   IF fd = r THEN ReadEnd(idx) ELSE shell[fd]
  BY <1>1
<1>6. Fds \subseteq Nat /\ before[r] = None /\ before[w] = None
  BY <1>1 DEF Fds, KeepInv, OldKept
<1>7. Pairs'
  <2>1. CASE idx = 1
    <3>1. \A fd \in Fds : shell[fd] = before[fd]
      BY <1>2, <2>1 DEF KeepInv, HoldsPipes, HoldsOnly
    <3>2. /\ pipes'[1].r < pipes'[1].w
          /\ \A fd \in Fds : before'[fd] = None =>
                fd \in {pipes'[1].r, pipes'[1].w} \/ fd > pipes'[1].w
      BY <1>1, <1>2, <1>3, <2>1, <3>1
    <3>3. \A i \in 1 .. pipesLen' : i = 1 /\ i % 2 = 1
      BY <1>2, <2>1
    <3>4. QED
      BY <3>2, <3>3 DEF Pairs, Numbers
  <2>2. CASE idx > 1
    <3>1. 1 \in 1 .. pipesLen /\ 1 \in 1 .. idx - 1 /\ pipes'[1] = pipes[1] /\ pipesLen >= 1
      BY <1>2, <1>3, <2>2
    <3>2. IF idx % 2 = 1 THEN r = pipes[1].r /\ w = pipes[1].w
                         ELSE r > pipes[1].w /\ w > pipes[1].w
      BY <1>1, <1>4, <2>2, NextPair
    <3>3. pipes[1] \in [r : Fds, w : Fds]
      BY <3>1, PipeType
    <3>4. IF idx % 2 = 1 THEN pipes'[idx] = pipes'[1]
          ELSE /\ pipes'[idx].r > pipes'[1].w /\ pipes'[idx].w > pipes'[1].w
               /\ pipes'[idx].r # pipes'[idx].w
      <4>1. CASE idx % 2 = 1
        <5>1. pipes[1] = [r |-> pipes[1].r, w |-> pipes[1].w]
          BY <3>3
        <5>2. pipes'[idx] = pipes[1]
          BY <1>3, <3>2, <4>1, <5>1
        <5>3. QED
          BY <3>1, <4>1, <5>2
      <4>2. CASE ~(idx % 2 = 1)
        <5>1. r # w
          BY <1>1, <1>6
        <5>2. QED
          BY <1>3, <3>1, <3>2, <4>2, <5>1
      <4>3. QED
        BY <4>1, <4>2
    <3>5. /\ pipes'[1].r < pipes'[1].w
          /\ \A fd \in Fds : before'[fd] = None =>
                fd \in {pipes'[1].r, pipes'[1].w} \/ fd > pipes'[1].w
      BY <1>2, <1>4, <3>1 DEF Pairs, Numbers
    <3>6. \A i \in 1 .. pipesLen' : i = idx \/ (i \in 1 .. idx - 1 /\ i \in 1 .. pipesLen)
      BY <1>2
    <3>7. \A i \in 1 .. pipesLen' :
              IF i % 2 = 1 THEN pipes'[i] = pipes'[1]
              ELSE /\ pipes'[i].r > pipes'[1].w /\ pipes'[i].w > pipes'[1].w
                   /\ pipes'[i].r # pipes'[i].w
      BY <1>3, <1>4, <3>1, <3>4, <3>6 DEF Pairs
    <3>8. QED
      BY <3>5, <3>7 DEF Pairs, Numbers
  <2>3. QED
    BY <1>2, <2>1, <2>2
<1>8. PICK i : i = idx /\ i = idx' /\ i - 1 = (idx - 1)'
  BY <1>2
<1>9. RightPipe'
  <2>1. shell'[r] = ReadEnd(i) /\ shell'[w] = WriteEnd(i)
    <3>1. r # w
      BY <1>1, <1>6
    <3>2. QED
      BY <1>5, <1>8, <3>1
  <2>2. shell'[pipes'[i].r] = ReadEnd(i) /\ shell'[pipes'[i].w] = WriteEnd(i)
    BY <1>3, <1>8, <2>1
  <2>3. QED
    BY <1>8, <2>2 DEF RightPipe
<1>10. LeftPipe'
  <2>1. SUFFICES ASSUME i > 1
                 PROVE  /\ shell'[pipes'[i - 1].r] = ReadEnd(i - 1)
                        /\ ~InShell(i - 1) => shell'[pipes'[i - 1].w] = WriteEnd(i - 1)
    <3>1. InShell(i - 1)' <=> InShell(i - 1)
      BY <1>2 DEF InShell, Fg
    <3>2. QED
      BY <1>8, <2>1, <3>1 DEF LeftPipe
  <2>2. /\ shell[pipes[i - 1].r] = ReadEnd(i - 1)
        /\ ~InShell(i - 1) => shell[pipes[i - 1].w] = WriteEnd(i - 1)
    BY <1>4, <1>8, <2>1 DEF LeftPipe
  <2>3. pipes'[i - 1] = pipes[i - 1] /\ pipes[i - 1].r \in Fds /\ pipes[i - 1].w \in Fds
    <3>1. i - 1 \in 1 .. idx - 1 /\ i - 1 \in 1 .. pipesLen
      BY <1>2, <1>8, <2>1
    <3>2. QED
      BY <1>3, <3>1, PipeType
  <2>4. ReadEnd(i - 1) # None /\ WriteEnd(i - 1) # None
    BY EndsDiffer
  <2>5. QED
    BY <1>1, <1>5, <2>2, <2>3, <2>4
<1>11. ChildPlaces' /\ PipedAsWritten'
  <2>1. \A k \in 1 .. pipesLen : pipes'[k] = pipes[k]
    BY <1>2, <1>3
  <2>2. QED
    BY <1>2, <1>4, <2>1, ChildrenStay
<1>12. QED
  BY <1>2, <1>7, <1>9, <1>10, <1>11 DEF PlacesInv, ShellPlaces

LEMMA LeavePlaces ==
    ASSUME TypeInv, KeepInv, PlacesInv, ~NumberReused,
           MakeNoPipe \/ PipeFails \/ SpawnFails \/ Finish
    PROVE  PlacesInv'
<1>1. /\ pc # "killed" /\ UNCHANGED <<job, idx, pipes, pipesLen, stage, table, before>>
      /\ \/ pc = "pipe" /\ pc' = "cmd" /\ idx = N /\ shell' = shell
         \/ pc' \in {"wait", "done"}
  BY DEF MakeNoPipe, PipeFails, SpawnFails, Finish, LeaveLoop, LastCmd, lineVars
<1>2. Pairs /\ ChildPlaces /\ PipedAsWritten /\ (pc = "pipe" => LeftPipe)
  BY DEF PlacesInv, ShellPlaces
<1>3. Pairs' /\ ChildPlaces' /\ PipedAsWritten'
  BY <1>1, <1>2, PairsStay, ChildrenStay
<1>4. CASE pc = "pipe" /\ pc' = "cmd" /\ idx = N /\ shell' = shell
  <2>1. LeftPipe'
    <3>1. InShell(idx - 1)' <=> InShell(idx - 1)
      BY <1>1 DEF InShell, Fg
    <3>2. QED
      BY <1>1, <1>2, <1>4, <3>1 DEF LeftPipe
  <2>2. RightPipe'
    <3>1. idx' = N /\ N' = N /\ N \in Nat
      BY <1>1, <1>4, PipeType DEF N
    <3>2. ~(idx' < N')
      BY <3>1
    <3>3. QED
      BY <3>2 DEF RightPipe
  <2>3. QED
    BY <1>3, <1>4, <2>1, <2>2 DEF PlacesInv, ShellPlaces
<1>5. CASE pc' \in {"wait", "done"}
  BY <1>3, <1>5 DEF PlacesInv, ShellPlaces
<1>6. QED
  BY <1>1, <1>4, <1>5

LEMMA StartBuiltinPlaces ==
    ASSUME TypeInv, KeepInv, PlacesInv, ~NumberReused, StartBuiltin
    PROVE  PlacesInv'
<1>1. /\ pc = "cmd" /\ pc' = "builtin"
      /\ UNCHANGED <<job, idx, pipes, pipesLen, stage, table, before>>
      /\ N' = N
  BY DEF StartBuiltin, lineVars, N
<1>2. Pairs /\ LeftPipe /\ RightPipe /\ ChildPlaces /\ PipedAsWritten
  BY <1>1 DEF PlacesInv, ShellPlaces
<1>3. PICK start :
          /\ start = [t |-> BuiltinEntry(shell), fds |-> PipedFds]
          /\ OpensOnly(start, before, BuiltinKeeps, PipeEnds(idx))
          /\ \A fd \in Fds : shell'[fd] \in {start.t[fd], None, File}
          /\ \A fd \in Fds :
                start.t[fd] # None /\ (\A s \in Streams : start.fds[s] # fd)
                   => shell'[fd] = start.t[fd] /\ (\A s \in Streams : fds'[s] # fd)
  BY BuiltinStarted
<1>4. /\ N \in Nat /\ idx \in 1 .. N
      /\ idx > 1 => /\ pipes[idx - 1].r \in Fds /\ pipes[idx - 1].w \in Fds
                    /\ pipes[idx - 1].r # pipes[idx - 1].w
                    /\ before[pipes[idx - 1].r] = None /\ before[pipes[idx - 1].w] = None
      /\ idx < N => /\ pipes[idx].r \in Fds /\ pipes[idx].w \in Fds
                    /\ pipes[idx].r # pipes[idx].w
                    /\ before[pipes[idx].r] = None /\ before[pipes[idx].w] = None
      /\ idx > 1 /\ idx < N => Numbers(idx - 1) \cap Numbers(idx) = {}
  BY <1>1, <1>2, Sides
<1>5. \A fd \in Fds : start.t[fd] = IF idx > 1 /\ fd = pipes[idx - 1].w THEN None ELSE shell[fd]
  <2>1. shell \in Tables
    BY DEF TypeInv
  <2>2. CASE idx > 1
    <3>1. start.t = Close(shell, pipes[idx - 1].w)
      BY <1>3, <2>2 DEF BuiltinEntry, RedirectStdin
    <3>2. QED
      BY <1>4, <2>1, <2>2, <3>1, CloseType
  <2>3. CASE ~(idx > 1)
    BY <1>3, <2>3 DEF BuiltinEntry, RedirectStdin
  <2>4. QED
    BY <2>2, <2>3
<1>6. \A s \in Streams : start.fds[s] = IF s = 0 /\ idx > 1 THEN pipes[idx - 1].r
                                        ELSE IF s = 1 /\ idx < N THEN pipes[idx].w ELSE s
  BY <1>3 DEF PipedFds, RedirectStdin, RedirectStdout
<1>7. ASSUME idx < N
      PROVE  /\ shell'[pipes[idx].r] = ReadEnd(idx)
             /\ \A s \in Streams : fds'[s] # pipes[idx].r
  <2>1. PICK x : x = pipes[idx].r
    OBVIOUS
  <2>2. /\ x \in Fds /\ before[x] = None /\ shell[x] = ReadEnd(idx)
        /\ x # pipes[idx].w
        /\ idx > 1 => x # pipes[idx - 1].r /\ x # pipes[idx - 1].w
    BY <1>2, <1>4, <1>7, <2>1 DEF RightPipe, Numbers
  <2>3. \A s \in Streams : s # x
    BY <2>2 DEF KeepInv, StreamsOpen, None, Tty
  <2>4. start.t[x] = ReadEnd(idx) /\ start.t[x] # None
    BY <1>5, <2>2, EndsDiffer
  <2>5. \A s \in Streams : start.fds[s] # x
    BY <1>6, <2>2, <2>3
  <2>6. QED
    BY <1>3, <2>1, <2>2, <2>4, <2>5
<1>8. ASSUME NEW fd \in Fds, shell'[fd][1] = "w"
      PROVE  idx < N /\ shell'[fd] = WriteEnd(idx)
  <2>1. shell'[fd] = start.t[fd]
    BY <1>3, <1>8, EndsDiffer
  <2>2. shell'[fd] = shell[fd] /\ ~(idx > 1 /\ fd = pipes[idx - 1].w)
    BY <1>5, <1>8, <2>1, EndsDiffer
  <2>3. shell[fd] # before[fd]
    <3>1. before[fd] \in {None, Tty, Leaked}
      BY DEF TypeInv
    <3>2. QED
      BY <1>8, <2>2, <3>1, EndsDiffer
  <2>4. HoldsBoth
    BY <1>1 DEF KeepInv, HoldsPipes
  <2>5. CASE idx < N /\ shell[fd] \in PipeEnds(idx)
    <3>1. shell[fd] # ReadEnd(idx)
      BY <1>8, <2>2, EndsDiffer
    <3>2. QED
      BY <2>2, <2>5, <3>1 DEF PipeEnds
  <2>6. CASE idx > 1 /\ fd \in Numbers(idx - 1)
    <3>1. fd = pipes[idx - 1].r
      BY <2>2, <2>6 DEF Numbers
    <3>2. shell[fd] = ReadEnd(idx - 1)
      BY <1>2, <2>6, <3>1 DEF LeftPipe
    <3>3. QED
      BY <1>8, <2>2, <3>2, EndsDiffer
  <2>7. QED
    BY <2>3, <2>4, <2>5, <2>6 DEF HoldsBoth
<1>9. BuiltinPipe'
  <2>1. PICK i : i = idx /\ i = idx'
    BY <1>1
  <2>2. /\ i < N' => /\ shell'[pipes'[i].r] = ReadEnd(i)
                     /\ \A s \in Streams : fds'[s] # pipes'[i].r
        /\ \A fd \in Fds : shell'[fd][1] = "w" => i < N' /\ shell'[fd] = WriteEnd(i)
    BY <1>1, <1>7, <1>8, <2>1
  <2>3. InShell(i)'
    BY <1>1, <2>1 DEF StartBuiltin, InShell, Fg
  <2>4. QED
    BY <2>1, <2>2, <2>3 DEF BuiltinPipe
<1>10. Pairs' /\ ChildPlaces' /\ PipedAsWritten'
  BY <1>1, <1>2, PairsStay, ChildrenStay
<1>11. QED
  BY <1>1, <1>9, <1>10 DEF PlacesInv, ShellPlaces

LEMMA FinishBuiltinPlaces ==
    ASSUME TypeInv, KeepInv, PlacesInv, ~NumberReused, FinishBuiltin
    PROVE  PlacesInv'
<1>1. /\ pc = "builtin" /\ CommandDone(BuiltinClosed, shouldExit')
      /\ UNCHANGED <<job, pipes, pipesLen, stage, table, before>>
      /\ N' = N
  BY DEF FinishBuiltin, N
<1>2. Pairs /\ BuiltinPipe /\ ChildPlaces /\ PipedAsWritten
  BY <1>1 DEF PlacesInv, ShellPlaces
<1>3. Pairs' /\ ChildPlaces' /\ PipedAsWritten'
  BY <1>1, <1>2, PairsStay, ChildrenStay
<1>4. CASE pc' = "wait"
  BY <1>3, <1>4 DEF PlacesInv, ShellPlaces
<1>5. CASE pc' # "wait"
  <2>1. /\ pc' = "pipe" /\ idx' = idx + 1 /\ shell' = BuiltinClosed /\ idx < N
        /\ idx \in Nat /\ idx >= 1
    BY <1>1, <1>5, PipeType DEF CommandDone, LeaveLoop, LastCmd
  <2>2. pipes[idx].r \in Fds
    BY <1>1, <1>2, <2>1, Sides
  <2>3. shell'[pipes[idx].r] = ReadEnd(idx)
    BY <1>2, <2>1, <2>2 DEF BuiltinPipe, BuiltinClosed
  <2>4. PICK i : i = idx /\ i = (idx - 1)'
    BY <2>1
  <2>5. InShell(i)'
    BY <1>1, <1>2, <2>4 DEF BuiltinPipe, InShell, Fg
  <2>6. shell'[pipes'[i].r] = ReadEnd(i)
    BY <1>1, <2>3, <2>4
  <2>7. LeftPipe'
    BY <2>4, <2>5, <2>6 DEF LeftPipe
  <2>8. QED
    BY <1>3, <2>1, <2>7 DEF PlacesInv, ShellPlaces
<1>6. QED
  BY <1>4, <1>5

LEMMA SigpipePlaces ==
    ASSUME TypeInv, KeepInv, PlacesInv, ~NumberReused
    PROVE  ~ShellSigpipe
<1>1. SUFFICES ASSUME ShellSigpipe PROVE FALSE
  BY <1>1
<1>2. pc = "builtin" /\ Refused(shell[fds[1]])
  BY <1>1 DEF ShellSigpipe
<1>3. BuiltinPipe /\ Pairs
  BY <1>2 DEF PlacesInv, ShellPlaces
<1>4. fds[1] \in Fds
  BY DEF TypeInv, Streams
<1>5. shell[fds[1]][1] = "w" /\ ~Held(ReadEnd(shell[fds[1]][2]))
  BY <1>2 DEF Refused
<1>6. idx < N /\ shell[fds[1]] = WriteEnd(idx)
  BY <1>3, <1>4, <1>5 DEF BuiltinPipe
<1>7. shell[pipes[idx].r] = ReadEnd(idx) /\ pipes[idx].r \in Fds
  BY <1>2, <1>3, <1>6, Sides DEF BuiltinPipe
<1>8. ~Held(ReadEnd(idx))
  BY <1>5, <1>6, EndsDiffer
<1>9. QED
  BY <1>2, <1>7, <1>8 DEF Held, ShellHolds

LEMMA SpawnPlaces ==
    ASSUME TypeInv, KeepInv, PlacesInv, ~NumberReused, Spawn
    PROVE  PlacesInv'
<1>1. /\ pc = "cmd" /\ CommandDone(ParentCloses(shell, idx), shouldExit)
      /\ stage' = [stage EXCEPT ![idx] = "setup"] /\ table' = [table EXCEPT ![idx] = shell]
      /\ UNCHANGED <<job, pipes, pipesLen, before>>
      /\ N' = N /\ Positions' = Positions /\ idx \in Positions
  BY DEF Spawn, lineVars, N, Positions, TypeInv
<1>2. Pairs /\ LeftPipe /\ RightPipe /\ ChildPlaces /\ PipedAsWritten
  BY <1>1 DEF PlacesInv, ShellPlaces
<1>3. Pairs'
  BY <1>1, <1>2, PairsStay
<1>4. ~InShell(idx)
  BY DEF Spawn
<1>5. PipedAsWritten'
  <2>1. \A c \in Positions : stage'[c] = "run" => stage[c] = "run" /\ table'[c] = table[c]
    BY <1>1 DEF TypeInv
  <2>2. QED
    BY <1>1, <1>2, <2>1 DEF PipedAsWritten, StreamsOf, Redirected
<1>6. ASSUME NEW c \in Positions, stage'[c] = "setup"
      PROVE  /\ c > 1 => table'[c][pipes[c - 1].r] = ReadEnd(c - 1)
             /\ c < N => table'[c][pipes[c].w] = WriteEnd(c)
             /\ \A fd \in Fds : table'[c][fd] # before[fd] =>
                   \/ c > 1 /\ fd \in {pipes[c - 1].r, pipes[c - 1].w}
                   \/ c < N /\ fd \in {pipes[c].r, pipes[c].w}
  <2>1. CASE c = idx
    <3>1. table'[c] = shell
      BY <1>1, <2>1 DEF TypeInv
    <3>2. HoldsBoth
      BY <1>1 DEF KeepInv, HoldsPipes
    <3>3. QED
      BY <1>2, <2>1, <3>1, <3>2 DEF LeftPipe, RightPipe, HoldsBoth, Numbers
  <2>2. CASE c # idx
    <3>1. stage[c] = "setup" /\ table'[c] = table[c]
      BY <1>1, <1>6, <2>2 DEF TypeInv
    <3>2. Inherited(c)
      BY <1>2, <3>1 DEF ChildPlaces
    <3>3. QED
      BY <3>1, <3>2 DEF Inherited, Numbers
  <2>3. QED
    BY <2>1, <2>2
<1>7. ChildPlaces'
  BY <1>1, <1>6 DEF ChildPlaces, Inherited, Numbers
<1>8. CASE pc' = "wait"
  BY <1>3, <1>5, <1>7, <1>8 DEF PlacesInv, ShellPlaces
<1>9. CASE pc' # "wait"
  <2>1. /\ pc' = "pipe" /\ idx' = idx + 1 /\ shell' = ParentCloses(shell, idx) /\ idx < N
        /\ idx \in Nat /\ idx >= 1
    BY <1>1, <1>9, PipeType DEF CommandDone, LeaveLoop, LastCmd
  <2>2. /\ idx > 1 => pipes[idx - 1] \in [r : Fds, w : Fds]
        /\ pipes[idx].r \in Fds /\ pipes[idx].w \in Fds
        /\ idx > 1 => Numbers(idx - 1) \cap Numbers(idx) = {}
    <3>1. idx > 1 => idx - 1 \in 1 .. pipesLen
      BY <1>1, PipeType
    <3>2. QED
      BY <1>1, <1>2, <2>1, <3>1, Sides, PipeType
  <2>3. \A fd \in Numbers(idx) : shell'[fd] = shell[fd]
    <3>1. shell \in Tables
      BY DEF TypeInv
    <3>2. CASE idx > 1
      <4>1. shell' = CloseBoth(shell, pipes[idx - 1])
        BY <2>1, <3>2 DEF ParentCloses, RedirectStdin
      <4>2. \A fd \in Fds : fd \notin Numbers(idx - 1) => shell'[fd] = shell[fd]
        BY <2>2, <3>1, <3>2, <4>1, CloseBothType DEF Numbers
      <4>3. QED
        BY <2>2, <3>2, <4>2 DEF Numbers
    <3>3. CASE ~(idx > 1)
      BY <2>1, <3>3 DEF ParentCloses, RedirectStdin
    <3>4. QED
      BY <3>2, <3>3
  <2>4. PICK i : i = idx /\ i = (idx - 1)'
    BY <2>1
  <2>5. shell'[pipes'[i].r] = ReadEnd(i) /\ shell'[pipes'[i].w] = WriteEnd(i)
    BY <1>1, <1>2, <2>1, <2>3, <2>4 DEF RightPipe, Numbers
  <2>6. LeftPipe'
    BY <2>4, <2>5 DEF LeftPipe
  <2>7. QED
    BY <1>3, <1>5, <1>7, <2>1, <2>6 DEF PlacesInv, ShellPlaces
<1>10. QED
  BY <1>8, <1>9

LEMMA NextJobPlaces ==
    ASSUME TypeInv, NextJob
    PROVE  PlacesInv'
<1>1. /\ pc' = "pipe" /\ idx' = 1 /\ pipesLen' = 0
      /\ stage' = [c \in Positions' |-> "none"]
  BY DEF NextJob, Positions, N
<1>2. Pairs' /\ ChildPlaces' /\ PipedAsWritten' /\ LeftPipe'
  BY <1>1 DEF Pairs, ChildPlaces, PipedAsWritten, LeftPipe
<1>3. QED
  BY <1>1, <1>2 DEF PlacesInv, ShellPlaces

\* What a child makes of what it has inherited is what its command asks for.
LEMMA SetupStreams ==
    ASSUME TypeInv, KeepInv, Pairs, NEW c \in Positions, stage[c] = "setup", Inherited(c)
    PROVE  /\ Redirected(c, 0) \/ ChildTable(c)[0] = IF c > 1 THEN ReadEnd(c - 1) ELSE Tty
           /\ Redirected(c, 1) \/ ChildTable(c)[1] = IF c < N THEN WriteEnd(c) ELSE Tty
           /\ \A fd \in Fds : fd > 2 => ChildTable(c)[fd] = before[fd]
<1>1. PICK t1 \in Tables, t2 \in Tables :
          /\ t1 = IF c > 1 THEN PipeIn(table[c], pipes[c - 1]) ELSE table[c]
          /\ t2 = IF c < N THEN PipeOut(t1, pipes[c]) ELSE t1
          /\ c > 1 => pipes[c - 1].r \in Fds \ Streams /\ pipes[c - 1].w \in Fds \ Streams
          /\ c < N => pipes[c].r \in Fds \ Streams /\ pipes[c].w \in Fds \ Streams
          /\ ChildTable(c) \in Tables
          /\ \A fd \in Fds : fd \notin Streams => ChildTable(c)[fd] = t2[fd]
          /\ \A s \in Streams : ChildTable(c)[s] = t2[s] \/ Redirected(c, s)
  BY ChildTables
<1>2. PICK t \in Tables : t = table[c]
  BY DEF TypeInv
<1>3. /\ N \in Nat /\ c \in 1 .. N
      /\ c > 1 => c - 1 \in 1 .. pipesLen
      /\ c < N => c \in 1 .. pipesLen
  <2>1. pipesLen \in Nat
    BY DEF TypeInv
  <2>2. QED
    BY <2>1, PipeType DEF Positions, KeepInv, SetsUp
<1>4. /\ \A s \in Streams : t[s] = Tty
      /\ c > 1 => /\ t[pipes[c - 1].r] = ReadEnd(c - 1)
                  /\ pipes[c - 1].r # pipes[c - 1].w
                  /\ before[pipes[c - 1].r] = None /\ before[pipes[c - 1].w] = None
      /\ c < N => /\ t[pipes[c].w] = WriteEnd(c)
                  /\ pipes[c].r # pipes[c].w
                  /\ before[pipes[c].r] = None /\ before[pipes[c].w] = None
  BY <1>2, <1>3, PairsApart DEF Inherited, KeepInv, SetsUp, NumbersFree, Numbers
<1>5. c > 1 /\ c < N => {pipes[c - 1].r, pipes[c - 1].w} \cap {pipes[c].r, pipes[c].w} = {}
  BY <1>3, PairsApart DEF Numbers
<1>6. \A fd \in Fds : t[fd] # before[fd] =>
          \/ c > 1 /\ fd \in {pipes[c - 1].r, pipes[c - 1].w}
          \/ c < N /\ fd \in {pipes[c].r, pipes[c].w}
  BY <1>2 DEF Inherited, Numbers
<1>7. 0 \in Streams /\ 1 \in Streams /\ Streams \subseteq Fds
      /\ \A i : ReadEnd(i) # None /\ WriteEnd(i) # None
  BY StreamsAreFds, EndsDiffer DEF Streams
<1>8. \A fd \in Fds :
          t1[fd] = IF c > 1 /\ fd \in {pipes[c - 1].r, pipes[c - 1].w} THEN None
                   ELSE IF c > 1 /\ fd = 0 THEN ReadEnd(c - 1) ELSE t[fd]
  <2>1. CASE c > 1
    <3>1. PICK r, w : r = pipes[c - 1].r /\ w = pipes[c - 1].w
      OBVIOUS
    <3>2. PICK u : u = t1 /\ u = Close(Dup2(Close(t, w), r, 0), r)
      BY <1>1, <1>2, <2>1, <3>1 DEF PipeIn
    <3>3. /\ r \in Fds \ Streams /\ w \in Fds \ Streams /\ t \in Tables
          /\ t[r] = ReadEnd(c - 1) /\ r # w
      BY <1>1, <1>2, <1>4, <2>1, <3>1
    <3>4. PICK s : s \in Streams /\ s = 0
      BY <1>7
    <3>5. u = Close(Dup2(Close(t, w), r, s), r)
      BY <3>2, <3>4
    <3>6. Moves(u, t, w, r, s)
      BY <3>3, <3>4, <3>5, EndMoved
    <3>7. \A fd \in Fds : u[fd] = IF fd \in {w, r} THEN None
                                  ELSE IF fd = 0 THEN ReadEnd(c - 1) ELSE t[fd]
      BY <1>7, <3>3, <3>4, <3>6 DEF Moves
    <3>8. QED
      BY <2>1, <3>1, <3>2, <3>7
  <2>2. CASE ~(c > 1)
    BY <1>1, <1>2, <2>2
  <2>3. QED
    BY <2>1, <2>2
<1>9. \A fd \in Fds :
          t2[fd] = IF c < N /\ fd \in {pipes[c].r, pipes[c].w} THEN None
                   ELSE IF c < N /\ fd = 1 THEN WriteEnd(c) ELSE t1[fd]
  <2>1. CASE c < N
    <3>1. PICK r, w : r = pipes[c].r /\ w = pipes[c].w
      OBVIOUS
    <3>2. PICK u : u = t2 /\ u = Close(Dup2(Close(t1, r), w, 1), w)
      BY <1>1, <2>1, <3>1 DEF PipeOut
    <3>3. r \in Fds \ Streams /\ w \in Fds \ Streams /\ t1 \in Tables /\ r # w
      BY <1>1, <1>4, <2>1, <3>1
    <3>4. t1[w] = WriteEnd(c)
      <4>1. ~(c > 1 /\ w \in {pipes[c - 1].r, pipes[c - 1].w}) /\ w # 0
        BY <1>5, <1>7, <2>1, <3>1, <3>3
      <4>2. QED
        BY <1>4, <1>8, <2>1, <3>1, <3>3, <4>1
    <3>5. PICK s : s \in Streams /\ s = 1
      BY <1>7
    <3>6. u = Close(Dup2(Close(t1, r), w, s), w)
      BY <3>2, <3>5
    <3>7. Moves(u, t1, r, w, s)
      BY <3>3, <3>5, <3>6, EndMoved
    <3>8. \A fd \in Fds : u[fd] = IF fd \in {r, w} THEN None
                                  ELSE IF fd = 1 THEN WriteEnd(c) ELSE t1[fd]
      BY <1>7, <3>3, <3>4, <3>5, <3>7 DEF Moves
    <3>9. QED
      BY <2>1, <3>1, <3>2, <3>8
  <2>2. CASE ~(c < N)
    BY <1>1, <2>2
  <2>3. QED
    BY <2>1, <2>2
<1>10. t2[0] = IF c > 1 THEN ReadEnd(c - 1) ELSE Tty
  BY <1>1, <1>4, <1>7, <1>8, <1>9
<1>11. t2[1] = IF c < N THEN WriteEnd(c) ELSE Tty
  BY <1>1, <1>4, <1>7, <1>8, <1>9
<1>12. ASSUME NEW fd \in Fds, fd > 2 PROVE ChildTable(c)[fd] = before[fd]
  <2>1. fd \notin Streams /\ fd # 0 /\ fd # 1
    BY <1>12 DEF Streams, Fds
  <2>2. ChildTable(c)[fd] = t2[fd]
    BY <1>1, <2>1
  <2>3. QED
    BY <1>4, <1>6, <1>8, <1>9, <2>1, <2>2
<1>13. QED
  BY <1>1, <1>7, <1>10, <1>11, <1>12

LEMMA ChildStepPlaces ==
    ASSUME TypeInv, KeepInv, PlacesInv, ~NumberReused, NEW c \in Positions, Child(c)
    PROVE  PlacesInv'
<1>1. /\ UNCHANGED <<job, pc, idx, pipes, pipesLen, fds, shell, before>>
      /\ N' = N /\ Positions' = Positions
  BY DEF Child, ChildSetup, ChildEnds, ChildQuits, lineVars, N, Positions
<1>2. Pairs /\ ShellPlaces /\ ChildPlaces /\ PipedAsWritten
  BY DEF PlacesInv
<1>3. Pairs'
  BY <1>1, <1>2, PairsStay
<1>4. ShellPlaces'
  <2>1. UNCHANGED <<LeftPipe, RightPipe, BuiltinPipe>>
    BY <1>1 DEF LeftPipe, RightPipe, BuiltinPipe, InShell, Fg
  <2>2. QED
    BY <1>1, <1>2, <2>1 DEF ShellPlaces
<1>5. \A i \in Positions : i # c => stage'[i] = stage[i] /\ table'[i] = table[i]
  BY DEF Child, ChildSetup, ChildEnds, ChildQuits, TypeInv
<1>6. stage'[c] # "setup" /\ (stage'[c] = "run" => ChildSetup(c))
  BY DEF Child, ChildSetup, ChildEnds, ChildQuits, TypeInv
<1>7. ChildPlaces'
  <2>1. \A i \in Positions : stage'[i] = "setup" => stage[i] = "setup" /\ table'[i] = table[i]
    BY <1>5, <1>6
  <2>2. QED
    BY <1>1, <1>2, <2>1 DEF ChildPlaces, Inherited, Numbers
<1>8. ASSUME NEW i \in Positions, stage'[i] = "run"
      PROVE  /\ Redirected(i, 0) \/ table'[i][0] = IF i > 1 THEN ReadEnd(i - 1) ELSE Tty
             /\ Redirected(i, 1) \/ table'[i][1] = IF i < N THEN WriteEnd(i) ELSE Tty
             /\ \A fd \in Fds : fd > 2 => table'[i][fd] = before[fd]
  <2>1. CASE i = c
    <3>1. ChildSetup(c)
      BY <1>6, <1>8, <2>1
    <3>2. stage[c] = "setup" /\ table'[c] = ChildTable(c)
      BY <3>1 DEF ChildSetup, TypeInv
    <3>3. Inherited(c)
      BY <1>2, <3>2 DEF ChildPlaces
    <3>4. QED
      BY <1>2, <2>1, <3>2, <3>3, SetupStreams
  <2>2. CASE i # c
    <3>1. stage[i] = "run" /\ table'[i] = table[i]
      BY <1>5, <1>8, <2>2
    <3>2. StreamsOf(i)
      BY <1>2, <3>1 DEF PipedAsWritten
    <3>3. QED
      BY <3>1, <3>2 DEF StreamsOf
  <2>3. QED
    BY <2>1, <2>2
<1>9. PipedAsWritten'
  BY <1>1, <1>8 DEF PipedAsWritten, StreamsOf, Redirected
<1>10. QED
  BY <1>3, <1>4, <1>7, <1>9 DEF PlacesInv

LEMMA StepPlaces == TypeInv /\ KeepInv /\ PlacesInv /\ [Next]_vars => PlacesInv'
<1> SUFFICES ASSUME TypeInv, KeepInv, PlacesInv, [Next]_vars PROVE PlacesInv'
  OBVIOUS
<1>1. CASE NextJob
  BY <1>1, NextJobPlaces
<1>2. CASE ~NextJob
  <2>1. UNCHANGED job
    BY <1>2 DEF Next, Shell, Child, Quiet, vars, lineVars, MakePipe, MakeNoPipe, PipeFails,
                StartBuiltin, FinishBuiltin, ShellSigpipe, Spawn, SpawnFails, Finish,
                ChildSetup, ChildEnds, ChildQuits
  <2>2. NumberReused' <=> NumberReused
    BY <2>1 DEF NumberReused, Positions, N, InShell, Fg
  <2>3. CASE NumberReused
    BY <2>2, <2>3 DEF PlacesInv
  <2>4. CASE ~NumberReused
    <3>1. CASE UNCHANGED vars
      <4>1. /\ UNCHANGED <<job, pc, idx, pipes, pipesLen, fds, shell, stage, table, before>>
            /\ UNCHANGED <<N, Positions>>
        BY <3>1 DEF vars, lineVars, N, Positions
      <4>2. UNCHANGED <<LeftPipe, RightPipe, BuiltinPipe>>
        BY <4>1 DEF LeftPipe, RightPipe, BuiltinPipe, InShell, Fg
      <4>3. Pairs /\ ShellPlaces /\ ChildPlaces /\ PipedAsWritten
        BY <2>4 DEF PlacesInv
      <4>4. Pairs' /\ ChildPlaces' /\ PipedAsWritten' /\ ShellPlaces'
        BY <4>1, <4>2, <4>3, PairsStay, ChildrenStay DEF ShellPlaces
      <4>5. QED
        BY <4>4 DEF PlacesInv
    <3>2. CASE Shell
      BY <2>4, <3>2, MakePipePlaces, LeavePlaces, StartBuiltinPlaces, FinishBuiltinPlaces,
         SigpipePlaces, SpawnPlaces DEF Shell
    <3>3. CASE \E c \in Positions : Child(c)
      BY <2>4, <3>3, ChildStepPlaces
    <3>4. QED
      BY <1>2, <3>1, <3>2, <3>3 DEF Next, Quiet
  <2>5. QED
    BY <2>3, <2>4
<1>3. QED
  BY <1>1, <1>2

LEMMA InitPlaces == Init => PlacesInv
<1> SUFFICES ASSUME Init PROVE PlacesInv
  OBVIOUS
<1>1. /\ pc = "pipe" /\ idx = 1 /\ pipesLen = 0 /\ stage = [c \in Positions |-> "none"]
  BY DEF Init
<1>2. QED
  BY <1>1 DEF PlacesInv, ShellPlaces, Pairs, ChildPlaces, PipedAsWritten, LeftPipe

\* And where the line has no builtin whose number is handed out again, the ends of the
\* pipes are at the numbers that the shell and the children know them by.
THEOREM PlacesInvariant == Spec => [](TypeInv /\ KeepInv /\ PlacesInv)
<1>1. Init => TypeInv /\ KeepInv /\ PlacesInv
  BY InitType, InitKeeps, InitPlaces
<1>2. TypeInv /\ KeepInv /\ PlacesInv /\ [Next]_vars => (TypeInv /\ KeepInv /\ PlacesInv)'
  BY StepType, StepKeeps, StepPlaces
<1>3. QED
  BY <1>1, <1>2, PTL DEF Spec

\* Every program is started between the pipes its place in the line gives it and
\* holds no other end of a pipe of its job, in any order of the children's steps
\* and whatever has failed, unless the line has a builtin whose number is closed
\* a second time after it has been handed out again.
THEOREM StreamsConnected == Spec => []ChildStreams
<1>1. PlacesInv => ChildStreams
  BY DEF PlacesInv, ChildStreams
<1>2. QED
  BY <1>1, PlacesInvariant, PTL

\* In such lines no builtin kills the shell: it holds the read end of the pipe it
\* writes to, whatever has become of the other programs.
THEOREM NoSigpipe == Spec => []ShellSurvives
<1>1. PlacesInv => ShellSurvives
  BY DEF PlacesInv, ShellPlaces, ShellSurvives
<1>2. QED
  BY <1>1, PlacesInvariant, PTL
=============================================================================
