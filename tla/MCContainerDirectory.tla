------------------------- MODULE MCContainerDirectory -------------------------
(* Small instances of ContainerDirectory.                                   *)
EXTENDS ContainerDirectory, TLC

CONSTANTS r1, r2, k1, k2

\* A time, of which the eighth, the twelfth and the last digit vary.
Clock(seconds, micros, nanos) == <<1, 8, 4, 9, 2, 10, 7, seconds, 0, 15, 0, micros, 5, 5, 5, nanos>>

\* Two runs 65 microseconds apart, and two that are closer.
Apart    == r1 :> Clock(0, 0, 0) @@ r2 :> Clock(0, 1, 0)
Together == r1 :> Clock(0, 0, 0) @@ r2 :> Clock(0, 0, 1)
AllApart  == {Apart}
AnyStarts == {Apart, Together}

Full   == generateID(Apart[r1])
Common == SubSeq(Full, 1, 3)

Command(verb, prefix, tail) == [verb |-> verb, prefix |-> prefix, tail |-> tail]
LogsAndRm == k1 :> {Command("logs", Common, 1)} @@ k2 :> {Command("rm", Full, 0)}

SomeWrites == r1 :> 1 @@ r2 :> 0
=============================================================================
