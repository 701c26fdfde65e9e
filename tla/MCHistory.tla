----------------------------- MODULE MCHistory -----------------------------
(***************************************************************************)
(* Lines and their meanings for the runs of History.                       *)
(*                                                                         *)
(* "l<*" names its input by a pattern: it runs while the pattern matches   *)
(* one file ("one") and is a parse error while it matches two ("two").     *)
(* '!"!"' repeats the last line that begins with '!'.  "!1*" means "!1"    *)
(* while 1* matches one file and is a parse error while it matches two.    *)
(***************************************************************************)
EXTENDS History

MCWord == 16
Steady == {"ls", "l<*", "!", "", "!2", "!0", "!l", "!\"!\""}
Globbed == Steady \cup {"!1*"}
TwoDirs == {"one", "two"}

MCBegins == [q \in {"l", "!"} |->
                IF q = "l" THEN {"ls", "l<*"} ELSE Texts \ {"ls", "l<*", ""}]

Of(k) == [kind |-> k]
Number(n) == [kind |-> "number", query |-> n]
Prefix(q) == [kind |-> "prefix", query |-> q]
MeaningOf(d, t) ==
    CASE t = "ls" -> Of("jobs")
      [] t = "l<*" -> IF d = "one" THEN Of("jobs") ELSE Of("bad")
      [] t = "!" -> Of("bad")
      [] t = "" -> Of("empty")
      [] t = "!2" -> Number(2)
      [] t = "!0" -> Number(0)
      [] t = "!l" -> Prefix("l")
      [] t = "!\"!\"" -> Prefix("!")
      [] t = "!1*" -> IF d = "one" THEN Number(1) ELSE Of("bad")

MCMeaning == [d \in Dirs |-> [t \in Texts |-> MeaningOf(d, t)]]
=============================================================================
