----------------------------- MODULE Identifiers -----------------------------
(***************************************************************************)
(* What a container is called: its ID, made from the time its run starts    *)
(* (generateID in internal/container/container.go), and the names           *)
(* that the network manager derives from the ID (internal/network/          *)
(* network.go). A time is the sixteen hexadecimal digits of                 *)
(* time.Now().UnixNano(), the most significant first.                       *)
(***************************************************************************)
EXTENDS Naturals, Sequences, SequencesExt

Digit == 0 .. 15
Time  == [1 .. 16 -> Digit]
ID    == [1 .. 12 -> Digit]

\* Mutant: the ID has as few digits as the names of links.
generateIDShort(t) == SubSeq(t, 1, 8)

\* The last four digits are cut off: IDs change every 65 microseconds.
generateID(t) == SubSeq(t, 1, 12)

\* Four more are: names of links change every 4.3 seconds.
hostVethName(id) == SubSeq(id, 1, 8)

\* The character of a digit.
Byte(d) == IF d < 10 THEN 48 + d ELSE 87 + d

\* The last byte of the address: the sum of the characters, modulo 2^8.
allocateIP(id) == 2 + (FoldLeft(LAMBDA sum, d : (sum + Byte(d)) % 256, 0, id) % 250)

\* strings.HasPrefix: what ResolveID takes for a name of the container.
Matches(id, prefix) == IsPrefix(prefix, id)
=============================================================================
