---------------------------- MODULE PortMappings ----------------------------
(***************************************************************************)
(* Published ports (internal/network/port.go, and the pure parts of        *)
(* registry.go and nat.go): parsing a -p argument, the conflict test and    *)
(* the iptables arguments of a mapping.                                     *)
(*                                                                         *)
(* A mapping is a record; the empty host IP is AnyIP, an empty protocol is  *)
(* NoProto. A -p argument is the sequence of its colon-separated parts and  *)
(* the suffix after its slash.                                              *)
(***************************************************************************)
EXTENDS Naturals, Sequences, SequencesExt

CONSTANTS
  HostIPs,    \* the addresses of the host
  AnyIP,      \* the empty host IP: all interfaces
  Words,      \* parts of a -p argument that are neither number nor address
  MaxPort     \* 65535

ASSUME MappingAssumption == AnyIP \notin HostIPs /\ MaxPort \in Nat

Protocols == {"tcp", "udp"}
NoProto   == ""
NoSuffix  == ""

PortMapping(ports) ==
  [HostIP : HostIPs \cup {AnyIP}, HostPort : ports, ContainerPort : ports,
   Protocol : Protocols \cup {NoProto}]

protocol(m) == IF m.Protocol = NoProto THEN "tcp" ELSE m.Protocol

-----------------------------------------------------------------------------
(* The conflict tests.                                                      *)

bindingKey(m) == <<m.HostIP, m.HostPort, protocol(m)>>

validProtocol(m) == m.Protocol \in Protocols \cup {NoProto}

\* ValidatePortMappings accepts a publish list.
ValidPortMappings(ms) ==
  /\ \A i \in DOMAIN ms : validProtocol(ms[i])
  /\ \A i, j \in DOMAIN ms : i # j => bindingKey(ms[i]) # bindingKey(ms[j])

\* Mutant: the conflict test compares the addresses as they are written.
bindingsConflictOnEqual(a, b) ==
  /\ a.HostPort = b.HostPort
  /\ protocol(a) = protocol(b)
  /\ a.HostIP = b.HostIP

bindingsConflict(a, b) ==
  /\ a.HostPort = b.HostPort
  /\ protocol(a) = protocol(b)
  /\ a.HostIP = AnyIP \/ b.HostIP = AnyIP \/ a.HostIP = b.HostIP

\* CheckConflicts accepts a list against the mappings the registry holds.
NoConflicts(held, ms) ==
  \A i \in DOMAIN ms : validProtocol(ms[i]) /\ \A m \in held : ~bindingsConflict(ms[i], m)

-----------------------------------------------------------------------------
(* Parsing.                                                                 *)

Failure == [ok |-> FALSE]
Parsed(m) == [ok |-> TRUE, mapping |-> m]

\* Mutant: the upper bound is off by one.
isPortWide(part) == part \in 1 .. MaxPort + 1

\* parsePort accepts the part; a number that is not in range, or a part that
\* is no number, is an error.
isPort(part) == part \in 1 .. MaxPort

Mapping(ip, host, container, proto) ==
  Parsed([HostIP |-> ip, HostPort |-> host, ContainerPort |-> container,
          Protocol |-> proto])

\* ParsePortMapping of parts joined by ":" and, unless it is NoSuffix, "/" and
\* a suffix. A part is a number, an address or a word.
ParsePortMapping(parts, suffix) ==
  LET proto == IF suffix = NoSuffix THEN "tcp" ELSE suffix
      n     == Len(parts)
      last2 == IF n = 1 THEN <<parts[1], parts[1]>> ELSE SubSeq(parts, n - 1, n)
  IN  IF /\ proto \in Protocols
         /\ n \in 1 .. 3
         /\ n = 3 => parts[1].kind = "ip"
         /\ \A i \in 1 .. 2 : last2[i].kind = "number" /\ isPort(last2[i].value)
      THEN Mapping(IF n = 3 THEN parts[1].value ELSE AnyIP,
                   last2[1].value, last2[2].value, proto)
      ELSE Failure

-----------------------------------------------------------------------------
(* The iptables arguments: options and the values between them.             *)

Opt(name)  == [option |-> name]
Val(value) == [value |-> value]

\* Mutant: every option is followed by the extra arguments.
insertAfterEveryOption(args, after, extra) ==
  FlattenSeq([i \in DOMAIN args |->
    IF "option" \in DOMAIN args[i] THEN <<args[i]>> \o extra ELSE <<args[i]>>])

insertAfter(args, after, extra) ==
  FlattenSeq([i \in DOMAIN args |->
    IF args[i] = after THEN <<args[i]>> \o extra ELSE <<args[i]>>])

dnatMatch(ip, m) ==
  LET match == << Opt("-p"), Val(protocol(m)), Opt("--dport"), Val(m.HostPort),
                  Opt("-j"), Val("DNAT"),
                  Opt("--to-destination"), Val(<<ip, m.ContainerPort>>) >>
  IN  IF m.HostIP = AnyIP
      THEN match
      ELSE insertAfter(match, Opt("-p"), <<Opt("-d"), Val(m.HostIP)>>)

\* Mutant: the filter looks for the port the connection had before DNAT.
forwardMatchOfHost(ip, m) ==
  << Opt("-p"), Val(protocol(m)), Opt("-d"), Val(ip),
     Opt("--dport"), Val(m.HostPort), Opt("-j"), Val("ACCEPT") >>

forwardMatch(ip, m) ==
  << Opt("-p"), Val(protocol(m)), Opt("-d"), Val(ip),
     Opt("--dport"), Val(m.ContainerPort), Opt("-j"), Val("ACCEPT") >>

Rule(table, chain, args) == [table |-> table, chain |-> chain, args |-> args]

portMappingRules(ip, m) ==
  << Rule("nat", "PREROUTING", dnatMatch(ip, m)),
     Rule("nat", "OUTPUT", dnatMatch(ip, m)),
     Rule("filter", "FORWARD", forwardMatch(ip, m)) >>

\* iptables: each option of these rules takes the argument after it, which may
\* not be an option itself, and nothing else is left over.
Accepted(args) ==
  /\ Len(args) % 2 = 0
  /\ \A i \in DOMAIN args :
       IF i % 2 = 1 THEN "option" \in DOMAIN args[i] ELSE "value" \in DOMAIN args[i]

\* What an accepted rule tests, does and sets, by option.
Meaning(args) == {<<args[i].option, args[i + 1].value>> : i \in {j \in DOMAIN args : j % 2 = 1}}
=============================================================================
