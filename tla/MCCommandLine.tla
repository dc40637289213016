---------------------------- MODULE MCCommandLine ----------------------------
(* The cases of MCPortCases, and all command lines of up to five words.     *)
EXTENDS MCPortCases, CommandLine

\* Two words for one binding, and one for another.
SmallBinding == [w \in {"80", "80:80", "81"} |-> IF w = "81" THEN <<AnyIP, 81, "tcp">> ELSE <<AnyIP, 80, "tcp">>]

SmallWords == {"-d", "-p", "--publish", "80", "80:80", "81", "--net=host", "--net=bridge", "--pid=host",
               "--net=none", "--", "-f", "sh", ""}

SmallCommandLines == UNION {[1 .. n -> SmallWords] : n \in 0 .. 4}
                       \cup [1 .. 5 -> SmallWords \ {"--publish", "--net=none", "81"}]

allVars == <<vars, words>>

\* Either a case of PortCases or a command line; the rest stays fixed.
CasesSpec ==
  /\ \/ MappingCase /\ words = <<>>
     \/ ParseCase /\ words = <<>>
     \/ ParseCase /\ parts = <<Number(1)>> /\ suffix = NoSuffix /\ words \in CommandLines
  /\ [][UNCHANGED allVars]_allVars
=============================================================================
