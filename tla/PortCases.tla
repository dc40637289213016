------------------------------ MODULE PortCases ------------------------------
(***************************************************************************)
(* The operators of PortMappings against what they are for, on every pair  *)
(* of mappings of a container and every -p argument of a small instance.   *)
(***************************************************************************)
EXTENDS PortMappings

CONSTANTS
  Ports,       \* ports the mappings use
  ContainerIP, \* the address of the container the first of two mappings belongs to
  OtherIP      \* and of the other one

\* A host has at least two addresses, the loopback address and one more.
ASSUME CasesAssumption ==
  /\ \E i, j \in HostIPs : i # j
  /\ Ports \subseteq 1 .. MaxPort /\ Ports # {}

VARIABLES a, b,       \* two mappings
          parts, suffix \* a -p argument

vars == <<a, b, parts, suffix>>

Number(n)  == [kind |-> "number", value |-> n]
Address(i) == [kind |-> "ip", value |-> i]
Word(w)    == [kind |-> "word", value |-> w]

Parts == {Number(n) : n \in 0 .. MaxPort + 1} \cup {Address(i) : i \in HostIPs}
           \cup {Word(w) : w \in Words}
SuffixSet == {NoSuffix, "tcp", "udp", "sctp"}

\* Either every pair of mappings or every argument; the rest stays fixed.
MappingCase ==
  a \in PortMapping(Ports) /\ b \in PortMapping(Ports)
    /\ parts = <<Number(MaxPort)>> /\ suffix = NoSuffix

ParseCase ==
  /\ a = CHOOSE m \in PortMapping(Ports) : TRUE
  /\ b = a
  /\ parts \in UNION {[1 .. n -> Parts] : n \in 1 .. 4}
  /\ suffix \in SuffixSet

Spec == (MappingCase \/ ParseCase) /\ [][UNCHANGED vars]_vars

-----------------------------------------------------------------------------
(* Properties.                                                              *)

TypeOK ==
  /\ a \in PortMapping(Ports) /\ b \in PortMapping(Ports)
  /\ parts \in UNION {[1 .. n -> Parts] : n \in 1 .. 4} /\ suffix \in SuffixSet

\* The destinations on the host a mapping takes over.
Taken(m) == {<<ip, m.HostPort, protocol(m)>> :
               ip \in IF m.HostIP = AnyIP THEN HostIPs ELSE {m.HostIP}}

\* The conflict test of the port registry finds exactly the pairs of bindings that
\* some connection to the host would match both of. The test of one run's list is a
\* weaker one: it refuses exactly the pairs that take over the same connections.
ConflictIsOverlap ==
  /\ bindingsConflict(a, b) <=> Taken(a) \cap Taken(b) # {}
  /\ ValidPortMappings(<<a, b>>) <=> Taken(a) # Taken(b)

\* What iptables makes of the rules: those of a mapping are installed up to the first it
\* refuses, a rule applies when all its tests hold, and one of a nat chain sends the
\* connection where it says.
Installed(ip, m) ==
  LET rules == portMappingRules(ip, m)
  IN  {rules[i] : i \in {k \in DOMAIN rules : \A j \in 1 .. k : Accepted(rules[j].args)}}

AllInstalled == Installed(ContainerIP, a) \cup Installed(OtherIP, b)

Applies(rule, c) ==
  \A test \in Meaning(rule.args) :
    CASE test[1] = "-p"      -> test[2] = c.proto
      [] test[1] = "--dport" -> test[2] = c.port
      [] test[1] = "-d"      -> test[2] = c.ip
      [] OTHER               -> TRUE

Destinations(chain, c) ==
  {d \in {ContainerIP, OtherIP} \X Ports :
     \E rule \in AllInstalled : /\ rule.chain = chain /\ Applies(rule, c)
                                /\ <<"--to-destination", d>> \in Meaning(rule.args)}

Passes(d, c) ==
  \E rule \in AllInstalled : /\ rule.chain = "FORWARD" /\ <<"-j", "ACCEPT">> \in Meaning(rule.args)
                             /\ Applies(rule, [ip |-> d[1], port |-> d[2], proto |-> c.proto])

Connections == [ip : HostIPs, port : Ports, proto : Protocols]

\* Two mappings the port registry lets stand side by side do not get into each other's
\* way: whatever the order of their rules, a connection to the host, from outside or from
\* the host itself, reaches the container that publishes its port on all interfaces, at
\* the port meant there and past the filter, and no other; one for which there is none,
\* also where a mapping has an address of its own (see RulesAreAccepted), stays here.
Serves(m, c) == m.HostIP = AnyIP /\ <<c.ip, c.port, c.proto>> \in Taken(m)

ConnectionsReachContainer ==
  ~bindingsConflict(a, b) =>
    \A c \in Connections, chain \in {"PREROUTING", "OUTPUT"} :
      /\ Destinations(chain, c) =
           {d \in {ContainerIP, OtherIP} \X Ports :
              \/ Serves(a, c) /\ d = <<ContainerIP, a.ContainerPort>>
              \/ Serves(b, c) /\ d = <<OtherIP, b.ContainerPort>>}
      /\ Serves(a, c) => ~Serves(b, c)
      /\ \A d \in Destinations(chain, c) : Passes(d, c)

\* A -p argument is accepted exactly when it is a way to write a mapping that
\* the documents list, and it gives that mapping back.
Written(m) ==
  LET ports == <<Number(m.HostPort), Number(m.ContainerPort)>>
      forms == IF m.HostIP = AnyIP
               THEN {ports} \cup IF m.HostPort = m.ContainerPort THEN {<<ports[1]>>} ELSE {}
               ELSE {<<Address(m.HostIP)>> \o ports}
  IN  forms \X (IF m.Protocol = "tcp" THEN {NoSuffix, "tcp"} ELSE {"udp"})

ParseInvertsWriting ==
  LET result  == ParsePortMapping(parts, suffix)
      meant   == {m \in PortMapping(1 .. MaxPort) :
                    m.Protocol # NoProto /\ <<parts, suffix>> \in Written(m)}
  IN  IF meant = {} THEN result = Failure ELSE meant = {result.mapping}

\* README: -p 127.0.0.1:8080:80 listens on localhost only, so iptables must take
\* the rules of a mapping with an address.
RulesAreAccepted == \A r \in ToSet(portMappingRules(ContainerIP, a)) : Accepted(r.args)
=============================================================================
