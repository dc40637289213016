----------------------------- MODULE CasesProofs -----------------------------
(***************************************************************************)
(* The pure parts of the code do what they are for: the conflict tests, the *)
(* rules and the parser of port mappings for all addresses, ports and       *)
(* arguments, and the two parsers a command line passes for all words.      *)
(***************************************************************************)
EXTENDS PortCases, CommandLine, WellFoundedInduction, SequenceTheorems, FiniteSetTheorems, TLAPS

LEMMA CasesInit == ASSUME MappingCase \/ ParseCase PROVE TypeOK
<1>1. PortMapping(Ports) # {}
  <2>1. PICK i \in HostIPs, p \in Ports : TRUE
    BY CasesAssumption
  <2>2. [HostIP |-> i, HostPort |-> p, ContainerPort |-> p, Protocol |-> "tcp"] \in PortMapping(Ports)
    BY DEF PortMapping, Protocols
  <2> QED
    BY <2>2
<1>2. CASE MappingCase
  <2>1. Number(MaxPort) \in Parts
    BY MappingAssumption DEF Parts
  <2>2. parts \in [1 .. 1 -> Parts]
    BY <1>2, <2>1 DEF MappingCase
  <2> QED
    BY <1>2, <2>2 DEF MappingCase, TypeOK, SuffixSet
<1>3. CASE ParseCase
  <2>1. (CHOOSE m \in PortMapping(Ports) : TRUE) \in PortMapping(Ports)
    BY <1>1
  <2> QED
    BY <1>3, <2>1 DEF ParseCase, TypeOK
<1> QED
  BY <1>2, <1>3

\* Only the initial states matter.
LEMMA CasesTypeCorrect == Spec => []TypeOK
<1>1. TypeOK /\ [UNCHANGED vars]_vars => TypeOK'
  BY DEF TypeOK, vars
<1>2. MappingCase \/ ParseCase => TypeOK
  BY CasesInit
<1> QED
  BY <1>1, <1>2, PTL DEF Spec

-----------------------------------------------------------------------------
(* The conflict tests.                                                      *)

LEMMA TakenIs ==
  ASSUME NEW m, NEW ip, NEW port, NEW proto
  PROVE  <<ip, port, proto>> \in Taken(m) <=>
           /\ port = m.HostPort /\ proto = protocol(m)
           /\ IF m.HostIP = AnyIP THEN ip \in HostIPs ELSE ip = m.HostIP
BY DEF Taken

LEMMA ConflictLemma == ASSUME TypeOK PROVE ConflictIsOverlap
<1>1. a.HostIP \in HostIPs \cup {AnyIP} /\ b.HostIP \in HostIPs \cup {AnyIP}
  BY DEF TypeOK, PortMapping
<1>2. PICK i \in HostIPs, j \in HostIPs : i # j
  BY CasesAssumption
<1>3. AnyIP \notin HostIPs
  BY MappingAssumption
<1>4. ASSUME bindingsConflict(a, b) PROVE Taken(a) \cap Taken(b) # {}
  <2> DEFINE ip == IF a.HostIP # AnyIP THEN a.HostIP ELSE IF b.HostIP # AnyIP THEN b.HostIP ELSE i
  <2>1. <<ip, a.HostPort, protocol(a)>> \in Taken(a)
    BY <1>1, <1>2, <1>3, <1>4, TakenIs DEF bindingsConflict
  <2>2. <<ip, a.HostPort, protocol(a)>> \in Taken(b)
    BY <1>1, <1>2, <1>3, <1>4, TakenIs DEF bindingsConflict
  <2> QED
    BY <2>1, <2>2
<1>5. ASSUME Taken(a) \cap Taken(b) # {} PROVE bindingsConflict(a, b)
  <2>1. PICK t : t \in Taken(a) /\ t \in Taken(b)
    BY <1>5
  <2>2. PICK ip : t = <<ip, a.HostPort, protocol(a)>>
    BY <2>1 DEF Taken
  <2> QED
    BY <2>1, <2>2, <1>1, TakenIs DEF bindingsConflict
<1>6. ASSUME bindingKey(a) = bindingKey(b) PROVE Taken(a) = Taken(b)
  BY <1>6 DEF bindingKey, Taken
<1>7. ASSUME Taken(a) = Taken(b) PROVE bindingKey(a) = bindingKey(b)
  <2>1. a.HostPort = b.HostPort /\ protocol(a) = protocol(b)
    <3> DEFINE ip == IF a.HostIP = AnyIP THEN i ELSE a.HostIP
    <3>1. <<ip, a.HostPort, protocol(a)>> \in Taken(a)
      BY <1>1, <1>2, TakenIs
    <3> QED
      BY <1>7, <3>1, TakenIs
  <2>2. a.HostIP = b.HostIP
    <3>1. \A ip : <<ip, a.HostPort, protocol(a)>> \in Taken(a) <=> IF a.HostIP = AnyIP THEN ip \in HostIPs ELSE ip = a.HostIP
      BY TakenIs
    <3>2. \A ip : <<ip, a.HostPort, protocol(a)>> \in Taken(a) <=> IF b.HostIP = AnyIP THEN ip \in HostIPs ELSE ip = b.HostIP
      BY <1>7, <2>1, TakenIs
    <3>3. \A ip : (IF a.HostIP = AnyIP THEN ip \in HostIPs ELSE ip = a.HostIP)
                  <=> (IF b.HostIP = AnyIP THEN ip \in HostIPs ELSE ip = b.HostIP)
      BY <3>1, <3>2
    <3>4. CASE a.HostIP # AnyIP /\ b.HostIP # AnyIP
      BY <3>3, <3>4
    <3>5. ASSUME a.HostIP = AnyIP, b.HostIP # AnyIP PROVE FALSE
      BY <1>2, <3>3, <3>5
    <3>6. ASSUME a.HostIP # AnyIP, b.HostIP = AnyIP PROVE FALSE
      BY <1>2, <3>3, <3>6
    <3> QED
      BY <3>4, <3>5, <3>6
  <2> QED
    BY <2>1, <2>2 DEF bindingKey
<1>8. ValidPortMappings(<<a, b>>) <=> bindingKey(a) # bindingKey(b)
  <2>1. validProtocol(a) /\ validProtocol(b)
    BY DEF TypeOK, PortMapping, validProtocol
  <2> QED
    BY <2>1 DEF ValidPortMappings
<1> QED
  BY <1>4, <1>5, <1>6, <1>7, <1>8 DEF ConflictIsOverlap

\* registry.go's conflict test finds exactly the mappings that take over a common
\* destination, and port.go's test of one list exactly the equal ones.
THEOREM ConflictIsOverlapAlways == Spec => []ConflictIsOverlap
<1>1. TypeOK => ConflictIsOverlap
  BY ConflictLemma
<1> QED
  BY CasesTypeCorrect, <1>1, PTL

-----------------------------------------------------------------------------
(* The rules.                                                               *)

\* FlattenSeq of eight lists puts them one behind the other.
LEMMA FlattenEight ==
  ASSUME NEW s, Len(s) = 8
  PROVE  FlattenSeq(s) = ((((((s[1] \o s[2]) \o s[3]) \o s[4]) \o s[5]) \o s[6]) \o s[7]) \o s[8]
<1> DEFINE s2 == s[1] \o s[2]
           s3 == s2 \o s[3]
           s4 == s3 \o s[4]
           s5 == s4 \o s[5]
           s6 == s5 \o s[6]
           s7 == s6 \o s[7]
           s8 == s7 \o s[8]
           h == [i \in 1 .. 8 |-> <<s[1], s2, s3, s4, s5, s6, s7, s8>>[i]]
           g == CHOOSE f : f = [i \in 1 .. Len(s) |-> IF i = 1 THEN s[i] ELSE f[i - 1] \o s[i]]
<1>1. FlattenSeq(s) = g[8]
  <2>1. Len(s) # 0
    OBVIOUS
  <2>2. FlattenSeq(s) = g[Len(s)]
    BY <2>1, Zenon DEF FlattenSeq
  <2> HIDE DEF g
  <2> QED
    BY <2>2, Zenon
<1>2. h = [i \in 1 .. Len(s) |-> IF i = 1 THEN s[i] ELSE h[i - 1] \o s[i]]
  <2>1. h[1] = s[1] /\ h[2] = s2 /\ h[3] = s3 /\ h[4] = s4 /\ h[5] = s5 /\ h[6] = s6 /\ h[7] = s7 /\ h[8] = s8
    <3> HIDE DEF s2, s3, s4, s5, s6, s7, s8
    <3> QED
      OBVIOUS
  <2>2. \A i \in 1 .. 8 : h[i] = IF i = 1 THEN s[i] ELSE h[i - 1] \o s[i]
    <3> TAKE i \in 1 .. 8
    <3>1. i = 1 \/ i = 2 \/ i = 3 \/ i = 4 \/ i = 5 \/ i = 6 \/ i = 7 \/ i = 8
      OBVIOUS
    <3> HIDE DEF h
    <3>2. h[2] = h[1] \o s[2] /\ h[3] = h[2] \o s[3] /\ h[4] = h[3] \o s[4] /\ h[5] = h[4] \o s[5]
          /\ h[6] = h[5] \o s[6] /\ h[7] = h[6] \o s[7] /\ h[8] = h[7] \o s[8]
      BY <2>1
    <3>3. h[1] = s[1]
      BY <2>1
    <3> HIDE DEF s2, s3, s4, s5, s6, s7, s8
    <3>4. i # 1 => h[i] = h[i - 1] \o s[i]
      <4>1. (i = 2 => i - 1 = 1) /\ (i = 3 => i - 1 = 2) /\ (i = 4 => i - 1 = 3) /\ (i = 5 => i - 1 = 4)
            /\ (i = 6 => i - 1 = 5) /\ (i = 7 => i - 1 = 6) /\ (i = 8 => i - 1 = 7)
        OBVIOUS
      <4> QED
        BY <3>1, <3>2, <4>1, Zenon
    <3> QED
      BY <3>3, <3>4, Zenon
  <2>3. h = [i \in 1 .. 8 |-> h[i]]
    OBVIOUS
  <2> HIDE DEF h
  <2> QED
    BY <2>2, <2>3
<1>3. g = [i \in 1 .. Len(s) |-> IF i = 1 THEN s[i] ELSE g[i - 1] \o s[i]]
  <2> HIDE DEF h
  <2> QED
    BY <1>2, Zenon
<1> HIDE DEF g, h
<1>4. \A i \in 1 .. 8 : g[i] = IF i = 1 THEN s[i] ELSE g[i - 1] \o s[i]
  <2> TAKE i \in 1 .. 8
  <2>1. g[i] = [j \in 1 .. Len(s) |-> IF j = 1 THEN s[j] ELSE g[j - 1] \o s[j]][i]
    BY <1>3, Zenon
  <2> QED
    BY <2>1, Zenon
<1>5. g[1] = s[1] /\ g[2] = g[1] \o s[2] /\ g[3] = g[2] \o s[3] /\ g[4] = g[3] \o s[4] /\ g[5] = g[4] \o s[5]
      /\ g[6] = g[5] \o s[6] /\ g[7] = g[6] \o s[7] /\ g[8] = g[7] \o s[8]
  <2>1. ASSUME NEW i \in 2 .. 8 PROVE g[i] = g[i - 1] \o s[i]
    <3>1. i \in 1 .. 8 /\ i # 1
      OBVIOUS
    <3> QED
      BY <1>4, <3>1, Zenon
  <2>0. 2 \in 2 .. 8 /\ 3 \in 2 .. 8 /\ 4 \in 2 .. 8 /\ 5 \in 2 .. 8 /\ 6 \in 2 .. 8 /\ 7 \in 2 .. 8 /\ 8 \in 2 .. 8
    OBVIOUS
  <2>2. g[2] = g[2 - 1] \o s[2] /\ g[3] = g[3 - 1] \o s[3] /\ g[4] = g[4 - 1] \o s[4] /\ g[5] = g[5 - 1] \o s[5]
        /\ g[6] = g[6 - 1] \o s[6] /\ g[7] = g[7 - 1] \o s[7] /\ g[8] = g[8 - 1] \o s[8]
    BY <2>0, <2>1, Zenon
  <2>3. 2 - 1 = 1 /\ 3 - 1 = 2 /\ 4 - 1 = 3 /\ 5 - 1 = 4 /\ 6 - 1 = 5 /\ 7 - 1 = 6 /\ 8 - 1 = 7
    OBVIOUS
  <2>4. g[1] = s[1]
    BY <1>4
  <2> QED
    BY <2>2, <2>3, <2>4, Zenon
<1> QED
  BY <1>1, <1>5, Zenon

\* What is put behind a list changes nothing of its second element.
LEMMA SecondStays ==
  ASSUME NEW R, NEW s \in Seq(R), NEW t \in Seq(R), Len(s) >= 2
  PROVE  s \o t \in Seq(R) /\ Len(s \o t) >= 2 /\ (s \o t)[2] = s[2]
BY ConcatProperties

\* iptables does not take the rules of a mapping with an address of its own: -p is
\* followed by -d.
LEMMA AddressIsRefused ==
  ASSUME NEW ip, NEW m, m.HostIP # AnyIP
  PROVE  ~Accepted(dnatMatch(ip, m))
<1> DEFINE match == << Opt("-p"), Val(protocol(m)), Opt("--dport"), Val(m.HostPort),
                       Opt("-j"), Val("DNAT"),
                       Opt("--to-destination"), Val(<<ip, m.ContainerPort>>) >>
           extra == <<Opt("-d"), Val(m.HostIP)>>
           s == [i \in DOMAIN match |-> IF match[i] = Opt("-p") THEN <<match[i]>> \o extra ELSE <<match[i]>>]
           R == {match[i] : i \in 1 .. 8} \cup {extra[1], extra[2]}
<1>1. dnatMatch(ip, m) = FlattenSeq(s)
  BY Zenon DEF dnatMatch, insertAfter
<1>2. DOMAIN match = 1 .. 8 /\ Len(match) = 8 /\ match[1] = Opt("-p")
  OBVIOUS
<1>3. extra \in Seq(R) /\ Len(extra) = 2 /\ extra[1] = Opt("-d") /\ \A i \in 1 .. 8 : match[i] \in R
  OBVIOUS
<1> HIDE DEF match, extra, R
<1>4. \A x \in R : <<x>> \in Seq(R) /\ Len(<<x>>) = 1
  OBVIOUS
<1>5. \A x \in R : <<x>> \o extra \in Seq(R) /\ Len(<<x>> \o extra) = 3 /\ (<<x>> \o extra)[2] = extra[1]
  <2> TAKE x \in R
  <2> DEFINE t == <<x>>
  <2>1. t \in Seq(R) /\ Len(t) = 1
    BY <1>4
  <2> HIDE DEF t
  <2>2. t \o extra \in Seq(R) /\ Len(t \o extra) = 3
        /\ (t \o extra)[2] = IF 2 <= Len(t) THEN t[2] ELSE extra[2 - Len(t)]
    <3>1. Len(t) + Len(extra) = 3 /\ 2 \in 1 .. Len(t) + Len(extra)
      BY <1>3, <2>1
    <3> QED
      BY <1>3, <2>1, <3>1, ConcatProperties
  <2>3. (t \o extra)[2] = extra[1]
    BY <2>1, <2>2
  <2> QED
    BY <2>2, <2>3 DEF t
<1>6. Len(s) = 8 /\ \A i \in 1 .. 8 : s[i] \in Seq(R)
  BY <1>2, <1>3, <1>4, <1>5
<1>7. Len(s[1]) >= 2 /\ s[1][2] = Opt("-d")
  BY <1>2, <1>3, <1>5
<1> HIDE DEF s
<1> DEFINE s2 == s[1] \o s[2]
           s3 == s2 \o s[3]
           s4 == s3 \o s[4]
           s5 == s4 \o s[5]
           s6 == s5 \o s[6]
           s7 == s6 \o s[7]
           s8 == s7 \o s[8]
           Begins(x) == x \in Seq(R) /\ Len(x) >= 2 /\ x[2] = Opt("-d")
<1>8. FlattenSeq(s) = s8
  BY <1>6, FlattenEight
<1>9. Begins(s8)
  <2>1. ASSUME NEW x, NEW y \in Seq(R), Begins(x) PROVE Begins(x \o y)
    BY <2>1, SecondStays
  <2>2. Begins(s2)
    BY <1>6, <1>7, <2>1
  <2> HIDE DEF Begins, s2
  <2>3. Begins(s3)
    BY <1>6, <2>1, <2>2
  <2> HIDE DEF s3
  <2>4. Begins(s4)
    BY <1>6, <2>1, <2>3
  <2> HIDE DEF s4
  <2>5. Begins(s5)
    BY <1>6, <2>1, <2>4
  <2> HIDE DEF s5
  <2>6. Begins(s6)
    BY <1>6, <2>1, <2>5
  <2> HIDE DEF s6
  <2>7. Begins(s7)
    BY <1>6, <2>1, <2>6
  <2> HIDE DEF s7
  <2> QED
    BY <1>6, <2>1, <2>7
<1> DEFINE args == dnatMatch(ip, m)
<1>10. 2 \in DOMAIN args /\ args[2] = Opt("-d") /\ 2 % 2 # 1
  <2>1. Begins(args)
    BY <1>1, <1>8, <1>9
  <2> HIDE DEF args, s8
  <2> QED
    BY <2>1
<1>11. "value" \notin DOMAIN Opt("-d")
  BY DEF Opt
<1> HIDE DEF args
<1> QED
  BY <1>10, <1>11 DEF Accepted, args

\* What iptables installs for a mapping: nothing, or three rules that say what is here.
Tests(rule, pairs) == Meaning(rule.args) = pairs

DnatPairs(ip, m) == {<<"-p", protocol(m)>>, <<"--dport", m.HostPort>>, <<"-j", "DNAT">>,
                     <<"--to-destination", <<ip, m.ContainerPort>>>>}
ForwardPairs(ip, m) == {<<"-p", protocol(m)>>, <<"-d", ip>>, <<"--dport", m.ContainerPort>>,
                        <<"-j", "ACCEPT">>}

LEMMA EightArgs ==
  ASSUME NEW args, DOMAIN args = 1 .. 8, Len(args) = 8,
         \A i \in {1, 3, 5, 7} : "option" \in DOMAIN args[i],
         \A i \in {2, 4, 6, 8} : "value" \in DOMAIN args[i]
  PROVE  /\ Accepted(args)
         /\ Meaning(args) = {<<args[1].option, args[2].value>>, <<args[3].option, args[4].value>>,
                             <<args[5].option, args[6].value>>, <<args[7].option, args[8].value>>}
<1>1. {j \in DOMAIN args : j % 2 = 1} = {1, 3, 5, 7}
  OBVIOUS
<1>2. Accepted(args)
  BY DEF Accepted
<1>3. Meaning(args) = {<<args[i].option, args[i + 1].value>> : i \in {1, 3, 5, 7}}
  BY <1>1 DEF Meaning
<1> QED
  BY <1>2, <1>3

LEMMA OptVal ==
  ASSUME NEW w
  PROVE  Opt(w).option = w /\ Val(w).value = w /\ "option" \in DOMAIN Opt(w) /\ "value" \in DOMAIN Val(w)
BY DEF Opt, Val

LEMMA InstalledIs ==
  ASSUME NEW ip, NEW m
  PROVE  /\ m.HostIP # AnyIP => Installed(ip, m) = {}
         /\ m.HostIP = AnyIP =>
              \E r1, r2, r3 :
                /\ Installed(ip, m) = {r1, r2, r3}
                /\ r1.chain = "PREROUTING" /\ Tests(r1, DnatPairs(ip, m))
                /\ r2.chain = "OUTPUT" /\ Tests(r2, DnatPairs(ip, m))
                /\ r3.chain = "FORWARD" /\ Tests(r3, ForwardPairs(ip, m))
<1> DEFINE rules == portMappingRules(ip, m)
           r1 == Rule("nat", "PREROUTING", dnatMatch(ip, m))
           r2 == Rule("nat", "OUTPUT", dnatMatch(ip, m))
           r3 == Rule("filter", "FORWARD", forwardMatch(ip, m))
<1>1. DOMAIN rules = 1 .. 3 /\ rules[1] = r1 /\ rules[2] = r2 /\ rules[3] = r3
  BY DEF portMappingRules
<1>2. /\ r1.chain = "PREROUTING" /\ r1.args = dnatMatch(ip, m) /\ r2.chain = "OUTPUT" /\ r2.args = dnatMatch(ip, m)
      /\ r3.chain = "FORWARD" /\ r3.args = forwardMatch(ip, m)
  BY DEF Rule
<1> HIDE DEF rules, r1, r2, r3
<1>3. Installed(ip, m) = {rules[i] : i \in {k \in 1 .. 3 : \A j \in 1 .. k : Accepted(rules[j].args)}}
  BY <1>1 DEF Installed, rules
<1>4. CASE m.HostIP # AnyIP
  <2>1. ~Accepted(rules[1].args)
    BY <1>1, <1>2, <1>4, AddressIsRefused
  <2>2. \A k \in 1 .. 3 : 1 \in 1 .. k
    OBVIOUS
  <2> QED
    BY <1>3, <1>4, <2>1, <2>2
<1>5. CASE m.HostIP = AnyIP
  <2>1. Accepted(dnatMatch(ip, m)) /\ Meaning(dnatMatch(ip, m)) = DnatPairs(ip, m)
    <3>1. dnatMatch(ip, m) = << Opt("-p"), Val(protocol(m)), Opt("--dport"), Val(m.HostPort),
                                Opt("-j"), Val("DNAT"),
                                Opt("--to-destination"), Val(<<ip, m.ContainerPort>>) >>
      BY <1>5 DEF dnatMatch
    <3> QED
      <4> DEFINE args == dnatMatch(ip, m)
                 dest == <<ip, m.ContainerPort>>
      <4>1. args = << Opt("-p"), Val(protocol(m)), Opt("--dport"), Val(m.HostPort),
                      Opt("-j"), Val("DNAT"), Opt("--to-destination"), Val(dest) >>
        BY <3>1
      <4> HIDE DEF args, dest
      <4>2. Accepted(args) /\ Meaning(args) = {<<"-p", protocol(m)>>, <<"--dport", m.HostPort>>, <<"-j", "DNAT">>,
                                               <<"--to-destination", dest>>}
        BY <4>1, EightArgs, OptVal
      <4> QED
        BY <4>2 DEF DnatPairs, args, dest
  <2>2. Accepted(forwardMatch(ip, m)) /\ Meaning(forwardMatch(ip, m)) = ForwardPairs(ip, m)
    <3>1. forwardMatch(ip, m) = << Opt("-p"), Val(protocol(m)), Opt("-d"), Val(ip),
                                   Opt("--dport"), Val(m.ContainerPort), Opt("-j"), Val("ACCEPT") >>
      BY DEF forwardMatch
    <3>2. Meaning(forwardMatch(ip, m)) = {<<"-p", protocol(m)>>, <<"-d", ip>>, <<"--dport", m.ContainerPort>>, <<"-j", "ACCEPT">>}
          /\ Accepted(forwardMatch(ip, m))
      <4> DEFINE args == forwardMatch(ip, m)
      <4>1. args = << Opt("-p"), Val(protocol(m)), Opt("-d"), Val(ip),
                      Opt("--dport"), Val(m.ContainerPort), Opt("-j"), Val("ACCEPT") >>
        BY <3>1
      <4> HIDE DEF args
      <4>2. Accepted(args) /\ Meaning(args) = {<<"-p", protocol(m)>>, <<"-d", ip>>, <<"--dport", m.ContainerPort>>,
                                               <<"-j", "ACCEPT">>}
        BY <4>1, EightArgs, OptVal
      <4> QED
        BY <4>2 DEF args
    <3> QED
      BY <3>2 DEF ForwardPairs
  <2>3. \A j \in 1 .. 3 : Accepted(rules[j].args)
    <3>1. \A j \in 1 .. 3 : j = 1 \/ j = 2 \/ j = 3
      OBVIOUS
    <3> QED
      BY <1>1, <1>2, <2>1, <2>2, <3>1
  <2>4. Installed(ip, m) = {r1, r2, r3}
    <3>1. {k \in 1 .. 3 : \A j \in 1 .. k : Accepted(rules[j].args)} = {1, 2, 3}
      BY <2>3
    <3> QED
      BY <1>1, <1>3, <3>1
  <2> QED
    BY <1>2, <1>5, <2>1, <2>2, <2>4 DEF Tests
<1> QED
  BY <1>4, <1>5

LEMMA AppliesIf ==
  ASSUME NEW rule, NEW ip, NEW m, NEW c
  PROVE  /\ Tests(rule, DnatPairs(ip, m)) =>
              (Applies(rule, c) <=> protocol(m) = c.proto /\ m.HostPort = c.port)
         /\ Tests(rule, ForwardPairs(ip, m)) =>
              (Applies(rule, c) <=> protocol(m) = c.proto /\ ip = c.ip /\ m.ContainerPort = c.port)
<1> DEFINE Test(test) == CASE test[1] = "-p"      -> test[2] = c.proto
                           [] test[1] = "--dport" -> test[2] = c.port
                           [] test[1] = "-d"      -> test[2] = c.ip
                           [] OTHER               -> TRUE
<1>1. \A x : /\ Test(<<"-p", x>>) <=> x = c.proto
             /\ Test(<<"--dport", x>>) <=> x = c.port
             /\ Test(<<"-d", x>>) <=> x = c.ip
             /\ Test(<<"-j", x>>) /\ Test(<<"--to-destination", x>>)
  OBVIOUS
<1>2. Applies(rule, c) <=> \A test \in Meaning(rule.args) : Test(test)
  BY DEF Applies
<1> HIDE DEF Test
<1>3. ASSUME Tests(rule, DnatPairs(ip, m)) PROVE Applies(rule, c) <=> protocol(m) = c.proto /\ m.HostPort = c.port
  <2>1. Applies(rule, c) <=> /\ Test(<<"-p", protocol(m)>>) /\ Test(<<"--dport", m.HostPort>>) /\ Test(<<"-j", "DNAT">>)
                             /\ Test(<<"--to-destination", <<ip, m.ContainerPort>>>>)
    BY <1>2, <1>3 DEF Tests, DnatPairs
  <2> QED
    BY <1>1, <2>1
<1>4. ASSUME Tests(rule, ForwardPairs(ip, m))
      PROVE  Applies(rule, c) <=> protocol(m) = c.proto /\ ip = c.ip /\ m.ContainerPort = c.port
  <2>1. Applies(rule, c) <=> /\ Test(<<"-p", protocol(m)>>) /\ Test(<<"-d", ip>>)
                             /\ Test(<<"--dport", m.ContainerPort>>) /\ Test(<<"-j", "ACCEPT">>)
    BY <1>2, <1>4 DEF Tests, ForwardPairs
  <2> QED
    BY <1>1, <2>1
<1> QED
  BY <1>3, <1>4

\* Where the rules of one mapping send a connection to the host, and what they let pass.
LEMMA RulesSend ==
  ASSUME NEW ip, NEW m, NEW c \in Connections, NEW chain \in {"PREROUTING", "OUTPUT"}, NEW d
  PROVE  (\E rule \in Installed(ip, m) :
            /\ rule.chain = chain /\ Applies(rule, c)
            /\ <<"--to-destination", d>> \in Meaning(rule.args))
           <=> Serves(m, c) /\ d = <<ip, m.ContainerPort>>
<1> DEFINE Sends(rule) == /\ rule.chain = chain /\ Applies(rule, c)
                          /\ <<"--to-destination", d>> \in Meaning(rule.args)
<1>1. Serves(m, c) <=> m.HostIP = AnyIP /\ m.HostPort = c.port /\ protocol(m) = c.proto
  BY TakenIs DEF Serves, Connections
<1>2. CASE m.HostIP # AnyIP
  BY <1>1, <1>2, InstalledIs
<1>3. CASE m.HostIP = AnyIP
  <2>1. PICK r1, r2, r3 :
          /\ Installed(ip, m) = {r1, r2, r3}
          /\ r1.chain = "PREROUTING" /\ Tests(r1, DnatPairs(ip, m))
          /\ r2.chain = "OUTPUT" /\ Tests(r2, DnatPairs(ip, m))
          /\ r3.chain = "FORWARD" /\ Tests(r3, ForwardPairs(ip, m))
    BY <1>3, InstalledIs
  <2>2. \A x \in DnatPairs(ip, m) : x = <<"--to-destination", d>> <=> x = <<"--to-destination", <<ip, m.ContainerPort>>>> /\ d = <<ip, m.ContainerPort>>
    BY DEF DnatPairs
  <2>3. <<"--to-destination", d>> \in DnatPairs(ip, m) <=> d = <<ip, m.ContainerPort>>
    BY DEF DnatPairs
  <2>4. ASSUME NEW r, Tests(r, DnatPairs(ip, m))
        PROVE  Applies(r, c) /\ <<"--to-destination", d>> \in Meaning(r.args)
                 <=> Serves(m, c) /\ d = <<ip, m.ContainerPort>>
    BY <1>1, <1>3, <2>3, <2>4, AppliesIf DEF Tests
  <2> QED
    BY <2>1, <2>4
<1> QED
  BY <1>2, <1>3

LEMMA RulesPass ==
  ASSUME NEW ip, NEW m, NEW c, m.HostIP = AnyIP, protocol(m) = c.proto
  PROVE  \E rule \in Installed(ip, m) :
           /\ rule.chain = "FORWARD" /\ <<"-j", "ACCEPT">> \in Meaning(rule.args)
           /\ Applies(rule, [ip |-> ip, port |-> m.ContainerPort, proto |-> c.proto])
<1>1. PICK rule \in Installed(ip, m) : rule.chain = "FORWARD" /\ Tests(rule, ForwardPairs(ip, m))
  BY InstalledIs
<1>2. <<"-j", "ACCEPT">> \in Meaning(rule.args)
  BY <1>1 DEF Tests, ForwardPairs
<1>3. Applies(rule, [ip |-> ip, port |-> m.ContainerPort, proto |-> c.proto])
  BY <1>1, AppliesIf
<1> QED
  BY <1>1, <1>2, <1>3

LEMMA ConnectionsLemma == ASSUME TypeOK PROVE ConnectionsReachContainer
<1> SUFFICES ASSUME ~bindingsConflict(a, b), NEW c \in Connections, NEW chain \in {"PREROUTING", "OUTPUT"}
             PROVE  /\ Destinations(chain, c) =
                         {d \in {ContainerIP, OtherIP} \X Ports :
                            \/ Serves(a, c) /\ d = <<ContainerIP, a.ContainerPort>>
                            \/ Serves(b, c) /\ d = <<OtherIP, b.ContainerPort>>}
                    /\ Serves(a, c) => ~Serves(b, c)
                    /\ \A d \in Destinations(chain, c) : Passes(d, c)
  BY DEF ConnectionsReachContainer
<1>1. ASSUME NEW d
      PROVE  (\E rule \in AllInstalled : /\ rule.chain = chain /\ Applies(rule, c)
                                         /\ <<"--to-destination", d>> \in Meaning(rule.args))
               <=> \/ Serves(a, c) /\ d = <<ContainerIP, a.ContainerPort>>
                   \/ Serves(b, c) /\ d = <<OtherIP, b.ContainerPort>>
  <2> DEFINE Sends(rule) == /\ rule.chain = chain /\ Applies(rule, c)
                            /\ <<"--to-destination", d>> \in Meaning(rule.args)
  <2>1. (\E rule \in Installed(ContainerIP, a) : Sends(rule)) <=> Serves(a, c) /\ d = <<ContainerIP, a.ContainerPort>>
    BY RulesSend
  <2>2. (\E rule \in Installed(OtherIP, b) : Sends(rule)) <=> Serves(b, c) /\ d = <<OtherIP, b.ContainerPort>>
    BY RulesSend
  <2>3. (\E rule \in AllInstalled : Sends(rule))
          <=> (\E rule \in Installed(ContainerIP, a) : Sends(rule)) \/ \E rule \in Installed(OtherIP, b) : Sends(rule)
    <3> HIDE DEF Sends
    <3> QED
      BY DEF AllInstalled
  <2> QED
    BY <2>1, <2>2, <2>3
<1>2. Destinations(chain, c) = {d \in {ContainerIP, OtherIP} \X Ports :
                                  \/ Serves(a, c) /\ d = <<ContainerIP, a.ContainerPort>>
                                  \/ Serves(b, c) /\ d = <<OtherIP, b.ContainerPort>>}
  BY <1>1 DEF Destinations
<1>3. Serves(a, c) => ~Serves(b, c)
  BY TakenIs DEF Serves, bindingsConflict
<1>4. ASSUME NEW d \in Destinations(chain, c) PROVE Passes(d, c)
  <2>1. CASE Serves(a, c) /\ d = <<ContainerIP, a.ContainerPort>>
    <3>1. a.HostIP = AnyIP /\ protocol(a) = c.proto
      BY <2>1, TakenIs DEF Serves
    <3>2. \E rule \in Installed(ContainerIP, a) :
            /\ rule.chain = "FORWARD" /\ <<"-j", "ACCEPT">> \in Meaning(rule.args)
            /\ Applies(rule, [ip |-> ContainerIP, port |-> a.ContainerPort, proto |-> c.proto])
      BY <3>1, RulesPass
    <3> QED
      BY <2>1, <3>2 DEF Passes, AllInstalled
  <2>2. CASE Serves(b, c) /\ d = <<OtherIP, b.ContainerPort>>
    <3>1. b.HostIP = AnyIP /\ protocol(b) = c.proto
      BY <2>2, TakenIs DEF Serves
    <3>2. \E rule \in Installed(OtherIP, b) :
            /\ rule.chain = "FORWARD" /\ <<"-j", "ACCEPT">> \in Meaning(rule.args)
            /\ Applies(rule, [ip |-> OtherIP, port |-> b.ContainerPort, proto |-> c.proto])
      BY <3>1, RulesPass
    <3> QED
      BY <2>2, <3>2 DEF Passes, AllInstalled
  <2> QED
    BY <1>2, <1>4, <2>1, <2>2
<1> QED
  BY <1>2, <1>3, <1>4

\* Two mappings the registry lets stand side by side reach their containers, each its own,
\* whatever the addresses and the ports.
THEOREM ConnectionsReachContainerAlways == Spec => []ConnectionsReachContainer
<1>1. TypeOK => ConnectionsReachContainer
  BY ConnectionsLemma
<1> QED
  BY CasesTypeCorrect, <1>1, PTL

-----------------------------------------------------------------------------
(* The parser.                                                              *)

LEMMA WrittenIs ==
  ASSUME NEW m \in PortMapping(1 .. MaxPort), NEW ps, NEW s
  PROVE  <<ps, s>> \in Written(m) <=>
           /\ \/ m.HostIP = AnyIP /\ ps = <<Number(m.HostPort), Number(m.ContainerPort)>>
              \/ m.HostIP = AnyIP /\ m.HostPort = m.ContainerPort /\ ps = <<Number(m.HostPort)>>
              \/ m.HostIP # AnyIP
                   /\ ps = <<Address(m.HostIP), Number(m.HostPort), Number(m.ContainerPort)>>
           /\ s \in IF m.Protocol = "tcp" THEN {NoSuffix, "tcp"} ELSE {"udp"}
<1>1. \A x, y, z : <<x>> \o <<y, z>> = <<x, y, z>>
  <2> TAKE x, y, z
  <2> DEFINE joined == <<x>> \o <<y, z>>
  <2>1. <<x>> \in Seq({x, y, z}) /\ <<y, z>> \in Seq({x, y, z})
    OBVIOUS
  <2>2. joined \in Seq({x, y, z}) /\ Len(joined) = 3
    BY <2>1
  <2>3. joined[1] = x /\ joined[2] = y /\ joined[3] = z
    BY <2>1
  <2>4. <<x, y, z>> \in Seq({x, y, z}) /\ Len(<<x, y, z>>) = 3
    OBVIOUS
  <2>5. \A i \in 1 .. Len(joined) : joined[i] = <<x, y, z>>[i]
    BY <2>2, <2>3
  <2> QED
    BY <2>2, <2>4, <2>5, SeqEqual
<1> QED
  BY <1>1 DEF Written

LEMMA KindsAre ==
  ASSUME NEW p \in Parts
  PROVE  /\ p.kind = "number" => p = Number(p.value)
         /\ p.kind = "ip" => p = Address(p.value) /\ p.value \in HostIPs
BY DEF Parts, Number, Address, Word

\* Everything that is a way to write a mapping is parsed as that mapping.
LEMMA WrittenParses ==
  ASSUME NEW m \in PortMapping(1 .. MaxPort), m.Protocol # NoProto,
         NEW ps, NEW s, <<ps, s>> \in Written(m)
  PROVE  ParsePortMapping(ps, s) = Parsed(m)
<1> DEFINE proto == IF s = NoSuffix THEN "tcp" ELSE s
           n     == Len(ps)
           last2 == IF n = 1 THEN <<ps[1], ps[1]>> ELSE SubSeq(ps, n - 1, n)
<1>1. proto = m.Protocol /\ proto \in Protocols
  <2>1. s \in IF m.Protocol = "tcp" THEN {NoSuffix, "tcp"} ELSE {"udp"}
    BY WrittenIs
  <2>2. m.Protocol = "tcp" \/ m.Protocol = "udp"
    BY DEF PortMapping, Protocols
  <2> QED
    BY <2>1, <2>2 DEF Protocols, NoSuffix
<1>2. m = [HostIP |-> m.HostIP, HostPort |-> m.HostPort, ContainerPort |-> m.ContainerPort, Protocol |-> m.Protocol]
      /\ m.HostPort \in 1 .. MaxPort /\ m.ContainerPort \in 1 .. MaxPort
  BY DEF PortMapping
<1>3. \A v : Number(v).kind = "number" /\ Number(v).value = v /\ Address(v).kind = "ip" /\ Address(v).value = v
  BY DEF Number, Address
<1>4. /\ n \in 1 .. 3 /\ (n = 3 => ps[1].kind = "ip")
      /\ last2[1] = Number(m.HostPort) /\ last2[2] = Number(m.ContainerPort)
      /\ m.HostIP = IF n = 3 THEN ps[1].value ELSE AnyIP
  <2>1. CASE m.HostIP = AnyIP /\ ps = <<Number(m.HostPort), Number(m.ContainerPort)>>
    <3>1. n = 2 /\ last2 = SubSeq(ps, 1, 2)
      BY <2>1
    <3>2. last2[1] = ps[1] /\ last2[2] = ps[2]
      BY <2>1, <3>1
    <3> QED
      BY <2>1, <3>1, <3>2
  <2>2. CASE m.HostIP = AnyIP /\ m.HostPort = m.ContainerPort /\ ps = <<Number(m.HostPort)>>
    BY <2>2
  <2>3. CASE m.HostIP # AnyIP
             /\ ps = <<Address(m.HostIP), Number(m.HostPort), Number(m.ContainerPort)>>
    <3>1. n = 3 /\ last2 = SubSeq(ps, 2, 3)
      BY <2>3
    <3>2. last2[1] = ps[2] /\ last2[2] = ps[3]
      BY <2>3, <3>1
    <3> QED
      BY <1>3, <2>3, <3>1, <3>2
  <2> QED
    BY <2>1, <2>2, <2>3, WrittenIs
<1>5. \A i \in 1 .. 2 : last2[i].kind = "number" /\ isPort(last2[i].value)
  <2>1. Number(m.HostPort).kind = "number" /\ isPort(Number(m.HostPort).value)
        /\ Number(m.ContainerPort).kind = "number" /\ isPort(Number(m.ContainerPort).value)
    BY <1>2, <1>3 DEF isPort
  <2> HIDE DEF last2
  <2> QED
    BY <1>4, <2>1
<1>6. last2[1].value = m.HostPort /\ last2[2].value = m.ContainerPort
  BY <1>3, <1>4
<1>7. ParsePortMapping(ps, s) =
        IF /\ proto \in Protocols /\ n \in 1 .. 3 /\ (n = 3 => ps[1].kind = "ip")
           /\ \A i \in 1 .. 2 : last2[i].kind = "number" /\ isPort(last2[i].value)
        THEN Mapping(IF n = 3 THEN ps[1].value ELSE AnyIP, last2[1].value, last2[2].value, proto)
        ELSE Failure
  BY DEF ParsePortMapping
<1> HIDE DEF n, proto, last2
<1>8. ParsePortMapping(ps, s) = Mapping(m.HostIP, m.HostPort, m.ContainerPort, m.Protocol)
  BY <1>1, <1>4, <1>5, <1>6, <1>7
<1> QED
  BY <1>2, <1>8 DEF Mapping

\* What is parsed is a way to write the mapping it is parsed as.
LEMMA ParsedIsWritten ==
  ASSUME TypeOK, ParsePortMapping(parts, suffix) # Failure,
         NEW m, m = ParsePortMapping(parts, suffix).mapping
  PROVE  m \in PortMapping(1 .. MaxPort) /\ m.Protocol # NoProto /\ <<parts, suffix>> \in Written(m)
<1> DEFINE proto == IF suffix = NoSuffix THEN "tcp" ELSE suffix
           n     == Len(parts)
           last2 == IF n = 1 THEN <<parts[1], parts[1]>> ELSE SubSeq(parts, n - 1, n)
           ip    == IF n = 3 THEN parts[1].value ELSE AnyIP
<1>1. PICK k \in 1 .. 4 : parts \in [1 .. k -> Parts]
  BY DEF TypeOK
<1>2. n = k /\ parts \in Seq(Parts)
  BY <1>1
<1>3. ParsePortMapping(parts, suffix) =
        IF /\ proto \in Protocols /\ n \in 1 .. 3 /\ (n = 3 => parts[1].kind = "ip")
           /\ \A i \in 1 .. 2 : last2[i].kind = "number" /\ isPort(last2[i].value)
        THEN Mapping(ip, last2[1].value, last2[2].value, proto)
        ELSE Failure
  BY DEF ParsePortMapping
<1>4. /\ n = 1 => last2[1] = parts[1] /\ last2[2] = parts[1]
      /\ n = 2 => last2[1] = parts[1] /\ last2[2] = parts[2]
      /\ n = 3 => last2[1] = parts[2] /\ last2[2] = parts[3]
  <2>1. CASE n = 1
    BY <2>1
  <2>2. CASE n = 2
    <3>1. last2 = SubSeq(parts, 1, 2)
      BY <2>2
    <3> QED
      BY <1>1, <1>2, <2>2, <3>1
  <2>3. CASE n = 3
    <3>1. last2 = SubSeq(parts, 2, 3)
      BY <2>3
    <3> QED
      BY <1>1, <1>2, <2>3, <3>1
  <2> QED
    BY <2>1, <2>2, <2>3
<1>5. \A i \in 1 .. n : parts[i] \in Parts
  BY <1>1, <1>2
<1>6. /\ n = 1 => parts = <<parts[1]>>
      /\ n = 2 => parts = <<parts[1], parts[2]>>
      /\ n = 3 => parts = <<parts[1], parts[2], parts[3]>>
  BY <1>1, <1>2
<1> HIDE DEF n, last2, proto, ip
<1>7. /\ proto \in Protocols /\ n \in 1 .. 3 /\ (n = 3 => parts[1].kind = "ip")
      /\ \A i \in 1 .. 2 : last2[i].kind = "number" /\ isPort(last2[i].value)
      /\ m = [HostIP |-> ip, HostPort |-> last2[1].value, ContainerPort |-> last2[2].value, Protocol |-> proto]
  BY <1>3 DEF Mapping, Parsed
<1>8. last2[1] \in Parts /\ last2[2] \in Parts
  BY <1>4, <1>5, <1>7
<1>9. last2[1] = Number(m.HostPort) /\ last2[2] = Number(m.ContainerPort)
  BY <1>7, <1>8, KindsAre
<1>10. n = 3 => parts[1] = Address(m.HostIP) /\ m.HostIP \in HostIPs
  BY <1>5, <1>7, KindsAre DEF ip
<1>11. n # 3 => m.HostIP = AnyIP
  BY <1>7 DEF ip
<1>12. m \in PortMapping(1 .. MaxPort)
  BY <1>7, <1>10, <1>11 DEF PortMapping, isPort
<1>13. m.Protocol # NoProto /\ suffix \in IF m.Protocol = "tcp" THEN {NoSuffix, "tcp"} ELSE {"udp"}
  <2>1. m.Protocol = proto /\ (proto = "tcp" \/ proto = "udp")
    BY <1>7 DEF Protocols
  <2>2. (suffix = NoSuffix /\ proto = "tcp") \/ suffix = proto
    BY DEF proto
  <2> QED
    BY <2>1, <2>2 DEF NoProto
<1>14. \/ m.HostIP = AnyIP /\ parts = <<Number(m.HostPort), Number(m.ContainerPort)>>
       \/ m.HostIP = AnyIP /\ m.HostPort = m.ContainerPort /\ parts = <<Number(m.HostPort)>>
       \/ m.HostIP # AnyIP
            /\ parts = <<Address(m.HostIP), Number(m.HostPort), Number(m.ContainerPort)>>
  <2>1. CASE n = 1
    <3>1. m.HostPort = m.ContainerPort
      BY <1>4, <1>7, <2>1
    <3> QED
      BY <1>4, <1>6, <1>9, <1>11, <2>1, <3>1
  <2>2. CASE n = 2
    BY <1>4, <1>6, <1>9, <1>11, <2>2
  <2>3. CASE n = 3
    BY <1>4, <1>6, <1>9, <1>10, <2>3, MappingAssumption
  <2> QED
    BY <1>7, <2>1, <2>2, <2>3
<1> QED
  BY <1>12, <1>13, <1>14, WrittenIs

\* An argument is parsed if and only if it is a way to write a mapping, and as the only
\* one it can stand for.
THEOREM ParseInvertsWritingAlways == Spec => []ParseInvertsWriting
<1>1. ASSUME TypeOK PROVE ParseInvertsWriting
  <2> DEFINE result == ParsePortMapping(parts, suffix)
             meant == {m \in PortMapping(1 .. MaxPort) :
                         m.Protocol # NoProto /\ <<parts, suffix>> \in Written(m)}
  <2>1. ASSUME NEW m \in meant PROVE result.mapping = m
    BY WrittenParses DEF Parsed
  <2>2. ASSUME result # Failure PROVE meant # {}
    BY <1>1, <2>2, ParsedIsWritten
  <2>3. ParseInvertsWriting <=> IF meant = {} THEN result = Failure ELSE meant = {result.mapping}
    BY DEF ParseInvertsWriting
  <2> HIDE DEF meant, result
  <2> QED
    BY <2>1, <2>2, <2>3
<1> QED
  BY CasesTypeCorrect, <1>1, PTL

-----------------------------------------------------------------------------
(* Functions of the first words.                                            *)

\* Induction over the numbers, said of a set (the provers cannot instantiate an operator).
LEMMA NumbersInduction ==
  ASSUME NEW S, 0 \in S, \A n \in Nat : n \in S => n + 1 \in S
  PROVE  Nat \subseteq S
<1> DEFINE T == Nat \ S
           R == OpToRel(<, Nat)
<1> SUFFICES ASSUME T # {} PROVE FALSE
  OBVIOUS
<1>1. IsWellFoundedOn(R, Nat)
  BY NatLessThanWellFounded
<1>2. \A m, n \in Nat : m < n => <<m, n>> \in R
  BY DEF OpToRel
<1>3. T \subseteq Nat
  OBVIOUS
<1> HIDE DEF T, R
<1>4. PICK x \in T : \A y \in T : <<y, x>> \notin R
  BY <1>1, <1>3, WFMin, Zenon
<1>5. x # 0 /\ x - 1 \in Nat /\ x = (x - 1) + 1
  BY <1>4 DEF T
<1>6. x - 1 \in T /\ x - 1 < x
  BY <1>5, <1>4 DEF T
<1> QED
  BY <1>2, <1>3, <1>4, <1>6

\* Both recursive functions exist and are what their definitions say.
LEMMA GatheredIs ==
  ASSUME Len(words) \in Nat
  PROVE  \A n \in 0 .. Len(words) :
           Gathered[n] = IF n = 0 THEN NoOptions ELSE Take(Gathered[n - 1], words[n])
<1> DEFINE Gathers(f, m) == f = [n \in 0 .. m |-> IF n = 0 THEN NoOptions ELSE Take(f[n - 1], words[n])]
           S == {m \in Nat : \E f : Gathers(f, m)}
<1>1. 0 \in S
  <2> DEFINE f == [n \in 0 .. 0 |-> NoOptions]
  <2>1. f = [n \in 0 .. 0 |-> IF n = 0 THEN NoOptions ELSE Take(f[n - 1], words[n])]
    OBVIOUS
  <2> HIDE DEF f
  <2> QED
    BY <2>1
<1>2. ASSUME NEW m \in Nat, m \in S PROVE m + 1 \in S
  <2>1. PICK f : Gathers(f, m)
    BY <1>2
  <2> DEFINE g == [n \in 0 .. m + 1 |-> IF n = 0 THEN NoOptions ELSE Take(f[n - 1], words[n])]
  <2>2. \A n \in 0 .. m : g[n] = f[n]
    <3> TAKE n \in 0 .. m
    <3>1. f[n] = [k \in 0 .. m |-> IF k = 0 THEN NoOptions ELSE Take(f[k - 1], words[k])][n]
      BY <2>1, Zenon
    <3> QED
      BY <3>1
  <2>3. g = [n \in 0 .. m + 1 |-> IF n = 0 THEN NoOptions ELSE Take(g[n - 1], words[n])]
    <3>1. \A n \in 0 .. m + 1 : n # 0 => n - 1 \in 0 .. m
      OBVIOUS
    <3> QED
      BY <2>2, <3>1
  <2> HIDE DEF g
  <2> QED
    BY <2>3
<1>3. PICK f : Gathers(f, Len(words))
  <2>1. Len(words) \in S
    <3> HIDE DEF S
    <3> QED
      BY <1>1, <1>2, NumbersInduction
  <2> QED
    BY <2>1
<1>4. Gathered = [n \in 0 .. Len(words) |-> IF n = 0 THEN NoOptions ELSE Take(Gathered[n - 1], words[n])]
  BY <1>3, Zenon DEF Gathered
<1> QED
  <2> TAKE n \in 0 .. Len(words)
  <2>1. Gathered[n] = [k \in 0 .. Len(words) |-> IF k = 0 THEN NoOptions ELSE Take(Gathered[k - 1], words[k])][n]
    BY <1>4, Zenon
  <2> QED
    BY <2>1, Zenon

LEMMA ParsedFlagsIs ==
  ASSUME Len(InitArgs) \in Nat
  PROVE  \A n \in 0 .. Len(InitArgs) :
           ParsedFlags[n] = IF n = 0 THEN NoFlags ELSE ParseFlag(ParsedFlags[n - 1], InitArgs[n])
<1> DEFINE Parses(f, m) == f = [n \in 0 .. m |-> IF n = 0 THEN NoFlags ELSE ParseFlag(f[n - 1], InitArgs[n])]
           S == {m \in Nat : \E f : Parses(f, m)}
<1>1. 0 \in S
  <2> DEFINE f == [n \in 0 .. 0 |-> NoFlags]
  <2>1. f = [n \in 0 .. 0 |-> IF n = 0 THEN NoFlags ELSE ParseFlag(f[n - 1], InitArgs[n])]
    OBVIOUS
  <2> HIDE DEF f
  <2> QED
    BY <2>1
<1>2. ASSUME NEW m \in Nat, m \in S PROVE m + 1 \in S
  <2>1. PICK f : Parses(f, m)
    BY <1>2
  <2> DEFINE g == [n \in 0 .. m + 1 |-> IF n = 0 THEN NoFlags ELSE ParseFlag(f[n - 1], InitArgs[n])]
  <2>2. \A n \in 0 .. m : g[n] = f[n]
    <3> TAKE n \in 0 .. m
    <3>1. f[n] = [k \in 0 .. m |-> IF k = 0 THEN NoFlags ELSE ParseFlag(f[k - 1], InitArgs[k])][n]
      BY <2>1, Zenon
    <3> QED
      BY <3>1
  <2>3. g = [n \in 0 .. m + 1 |-> IF n = 0 THEN NoFlags ELSE ParseFlag(g[n - 1], InitArgs[n])]
    <3>1. \A n \in 0 .. m + 1 : n # 0 => n - 1 \in 0 .. m
      OBVIOUS
    <3> QED
      BY <2>2, <3>1
  <2> HIDE DEF g
  <2> QED
    BY <2>3
<1>3. PICK f : Parses(f, Len(InitArgs))
  <2>1. Len(InitArgs) \in S
    <3> HIDE DEF S
    <3> QED
      BY <1>1, <1>2, NumbersInduction
  <2> QED
    BY <2>1
<1>4. ParsedFlags = [n \in 0 .. Len(InitArgs) |-> IF n = 0 THEN NoFlags ELSE ParseFlag(ParsedFlags[n - 1], InitArgs[n])]
  BY <1>3, Zenon DEF ParsedFlags
<1> QED
  <2> TAKE n \in 0 .. Len(InitArgs)
  <2>1. ParsedFlags[n] = [k \in 0 .. Len(InitArgs) |-> IF k = 0 THEN NoFlags ELSE ParseFlag(ParsedFlags[k - 1], InitArgs[k])][n]
    BY <1>4, Zenon
  <2> QED
    BY <2>1, Zenon

-----------------------------------------------------------------------------
(* The arguments of container-init.                                         *)

\* Before and after the end of the flags.
Expecting(expects, rootfs, hostname) ==
  [ok |-> TRUE, expects |-> expects, over |-> FALSE, rootfs |-> rootfs, hostname |-> hostname, args |-> <<>>]
Over(rootfs, hostname, args) ==
  [ok |-> TRUE, expects |-> "nothing", over |-> TRUE, rootfs |-> rootfs, hostname |-> hostname, args |-> args]

LEMMA FlagIs ==
  ASSUME NEW root, NEW host
  PROVE  /\ ParseFlag(Expecting("nothing", root, host), "--rootfs") = Expecting("rootfs", root, host)
         /\ ParseFlag(Expecting("nothing", root, host), "--hostname") = Expecting("hostname", root, host)
         /\ ParseFlag(Expecting("nothing", root, host), "--") = Over(root, host, <<>>)
<1>1. ParseFlag(Expecting("nothing", root, host), "--rootfs") = Expecting("rootfs", root, host)
  BY DEF ParseFlag, Expecting
<1>2. ParseFlag(Expecting("nothing", root, host), "--hostname") = Expecting("hostname", root, host)
  BY DEF ParseFlag, Expecting
<1>3. ParseFlag(Expecting("nothing", root, host), "--") = Over(root, host, <<>>)
  <2>1. "--" \notin Dashed
    BY WordAssumption DEF Dashed, Detach, Publish, Modes
  <2> QED
    BY <2>1 DEF ParseFlag, Expecting, Over
<1> QED
  BY <1>1, <1>2, <1>3

LEMMA RootfsIs ==
  ASSUME NEW host, NEW word
  PROVE  ParseFlag(Expecting("rootfs", "", host), word) = Expecting("nothing", word, host)
BY DEF ParseFlag, Expecting

LEMMA HostnameIs ==
  ASSUME NEW root, NEW word
  PROVE  ParseFlag(Expecting("hostname", root, ""), word) = Expecting("nothing", root, word)
BY DEF ParseFlag, Expecting

LEMMA ArgIs ==
  ASSUME NEW root, NEW host, NEW args, NEW word
  PROVE  ParseFlag(Over(root, host, args), word) = Over(root, host, Append(args, word))
BY DEF ParseFlag, Over

\* flag.Parse takes its two flags and leaves every command as it is.
LEMMA FlagsAreParsed ==
  ASSUME Command \in Seq(STRING)
  PROVE  containerInit = [ok |-> TRUE, expects |-> "nothing", over |-> TRUE,
                          rootfs |-> Rootfs, hostname |-> ID, args |-> Command]
<1> DEFINE n == Len(InitArgs)
           p == ParsedFlags
           After(c) == Over(Rootfs, ID, SubSeq(Command, 1, c))
<1>1. /\ Len(InitArgs) = Len(Command) + 5
      /\ InitArgs[1] = "--rootfs" /\ InitArgs[2] = Rootfs /\ InitArgs[3] = "--hostname"
      /\ InitArgs[4] = ID /\ InitArgs[5] = "--"
      /\ \A i \in 1 .. Len(Command) : InitArgs[5 + i] = Command[i]
  <2> DEFINE flags == <<"--rootfs", Rootfs, "--hostname", ID, "--">>
  <2>1. InitArgs = flags \o Command
    BY DEF InitArgs
  <2> DEFINE W == {"--rootfs", Rootfs, "--hostname", ID, "--"} \cup STRING
  <2>2. Command \in Seq(W)
    <3>1. Len(Command) \in Nat /\ Command \in [1 .. Len(Command) -> STRING]
      OBVIOUS
    <3>2. Command \in [1 .. Len(Command) -> W]
      BY <3>1
    <3> HIDE DEF W
    <3> QED
      BY <3>1, <3>2
  <2>3. flags \in Seq(W)
    OBVIOUS
  <2>4. Len(flags) = 5 /\ flags[1] = "--rootfs" /\ flags[2] = Rootfs
        /\ flags[3] = "--hostname" /\ flags[4] = ID /\ flags[5] = "--"
    OBVIOUS
  <2> HIDE DEF flags
  <2> HIDE DEF W
  <2>5. /\ Len(flags \o Command) = Len(flags) + Len(Command)
        /\ \A i \in 1 .. Len(flags) + Len(Command) : (flags \o Command)[i] =
             IF i <= Len(flags) THEN flags[i] ELSE Command[i - Len(flags)]
    BY <2>2, <2>3, ConcatProperties
  <2>6. Len(flags) = 5 /\ Len(Command) \in Nat
    BY <2>2, <2>4
  <2>7. /\ Len(InitArgs) = Len(Command) + 5
        /\ \A i \in 1 .. 5 : InitArgs[i] = flags[i]
        /\ \A i \in 1 .. Len(Command) : InitArgs[5 + i] = Command[i]
    <3>1. \A i \in 1 .. Len(Command) : 5 + i \in 1 .. 5 + Len(Command) /\ ~(5 + i <= 5) /\ (5 + i) - 5 = i
      BY <2>6
    <3>2. \A i \in 1 .. 5 : i \in 1 .. 5 + Len(Command) /\ i <= 5
      BY <2>6
    <3> QED
      BY <2>1, <2>5, <2>6, <3>1, <3>2
  <2> QED
    BY <2>4, <2>6, <2>7
<1>2. n \in Nat /\ n >= 5
  BY <1>1 DEF n
<1> HIDE DEF n, p, After
<1>3. \A k \in 0 .. n : p[k] = IF k = 0 THEN NoFlags ELSE ParseFlag(p[k - 1], InitArgs[k])
  BY <1>2, ParsedFlagsIs DEF n, p
<1>4. p[0] = Expecting("nothing", "", "")
  <2>1. NoFlags = Expecting("nothing", "", "")
    BY DEF NoFlags, Expecting
  <2>2. p[0] = NoFlags
    BY <1>2, <1>3
  <2> QED
    BY <2>1, <2>2, Zenon
<1>5. \A k \in 1 .. n : p[k] = ParseFlag(p[k - 1], InitArgs[k])
  BY <1>3
<1>6. /\ p[1] = ParseFlag(p[0], InitArgs[1])
      /\ p[2] = ParseFlag(p[1], InitArgs[2])
      /\ p[3] = ParseFlag(p[2], InitArgs[3])
      /\ p[4] = ParseFlag(p[3], InitArgs[4])
      /\ p[5] = ParseFlag(p[4], InitArgs[5])
  BY <1>2, <1>5
<1>7. /\ ParseFlag(Expecting("nothing", "", ""), "--rootfs") = Expecting("rootfs", "", "")
      /\ ParseFlag(Expecting("nothing", Rootfs, ""), "--hostname") = Expecting("hostname", Rootfs, "")
      /\ ParseFlag(Expecting("nothing", Rootfs, ID), "--") = Over(Rootfs, ID, <<>>)
  BY FlagIs
<1>8. /\ ParseFlag(Expecting("rootfs", "", ""), Rootfs) = Expecting("nothing", Rootfs, "")
      /\ ParseFlag(Expecting("hostname", Rootfs, ""), ID) = Expecting("nothing", Rootfs, ID)
  BY RootfsIs, HostnameIs
<1>9. p[5] = Over(Rootfs, ID, <<>>)
  <2>1. /\ InitArgs[1] = "--rootfs" /\ InitArgs[2] = Rootfs /\ InitArgs[3] = "--hostname"
        /\ InitArgs[4] = ID /\ InitArgs[5] = "--"
    BY <1>1
  <2> QED
    BY <1>4, <1>6, <1>7, <1>8, <2>1, Zenon
<1>10. p[5] = After(0)
  <2>1. SubSeq(Command, 1, 0) = <<>>
    OBVIOUS
  <2> QED
    BY <1>9, <2>1 DEF After
<1> DEFINE S == {c \in Nat : c <= Len(Command) => p[5 + c] = After(c)}
<1>11. 0 \in S
  BY <1>10
<1>12. ASSUME NEW c \in Nat, c \in S PROVE c + 1 \in S
  <2> SUFFICES ASSUME c + 1 <= Len(Command) PROVE p[5 + (c + 1)] = After(c + 1)
    OBVIOUS
  <2>1. p[5 + (c + 1)] = ParseFlag(After(c), Command[c + 1])
    <3>1. 5 + (c + 1) \in 1 .. n /\ 5 + (c + 1) - 1 = 5 + c /\ c + 1 \in 1 .. Len(Command)
      BY <1>1 DEF n
    <3>2. p[5 + (c + 1)] = ParseFlag(p[5 + c], InitArgs[5 + (c + 1)])
      BY <1>5, <3>1
    <3>3. p[5 + c] = After(c)
      BY <1>12
    <3> QED
      BY <1>1, <3>1, <3>2, <3>3
  <2>2. Append(SubSeq(Command, 1, c), Command[c + 1]) = SubSeq(Command, 1, c + 1)
    OBVIOUS
  <2> QED
    <3>1. ParseFlag(Over(Rootfs, ID, SubSeq(Command, 1, c)), Command[c + 1])
            = Over(Rootfs, ID, Append(SubSeq(Command, 1, c), Command[c + 1]))
      BY ArgIs
    <3> QED
      BY <2>1, <2>2, <3>1, Zenon DEF After
<1>13. p[n] = After(Len(Command))
  <2>1. Len(Command) \in S
    <3>1. Len(Command) \in Nat
      OBVIOUS
    <3> HIDE DEF S
    <3> QED
      BY <1>11, <1>12, <3>1, NumbersInduction
  <2> QED
    BY <1>1, <2>1 DEF n
<1>14. SubSeq(Command, 1, Len(Command)) = Command
  OBVIOUS
<1> QED
  BY <1>13, <1>14 DEF containerInit, Over, After, p, n

-----------------------------------------------------------------------------
(* What one word changes.                                                   *)

Options == [ok : BOOLEAN, publish : BOOLEAN, detach : BOOLEAN, ports : Seq(STRING),
            HostNetwork : BOOLEAN, HostPID : BOOLEAN, positional : Seq(STRING)]

LEMMA KindsAreApart ==
  /\ Detach \cap Publish = {} /\ Detach \cap Modes = {} /\ Publish \cap Modes = {}
  /\ OtherModes \cap (Detach \cup Publish \cup Modes) = {}
  /\ Published \cap (Detach \cup Publish \cup Modes \cup OtherModes) = {}
<1>1. Detach \cap Publish = {} /\ Detach \cap Modes = {} /\ Publish \cap Modes = {}
  BY DEF Detach, Publish, Modes
<1>2. /\ OtherModes \cap (Detach \cup Publish \cup Modes) = {}
      /\ Published \cap (Detach \cup Publish \cup Modes \cup OtherModes) = {}
  BY WordAssumption DEF Dashed
<1> QED
  BY <1>1, <1>2

\* What the next word changes.
Takes(run, w, t) ==
  /\ t \in Options
  /\ t.ok <=> run.ok /\ IF run.publish THEN w \in Published ELSE w \notin OtherModes
  /\ t.publish <=> ~run.publish /\ w \in Publish
  /\ t.detach <=> run.detach \/ (~run.publish /\ w \in Detach)
  /\ t.ports = IF run.publish THEN Append(run.ports, w) ELSE run.ports
  /\ t.HostNetwork <=> IF run.publish \/ w \notin Modes THEN run.HostNetwork
                       ELSE (w = "--net=host") \/ (run.HostNetwork /\ w # "--net=bridge")
  /\ t.HostPID <=> IF run.publish \/ w \notin Modes THEN run.HostPID
                   ELSE (w = "--pid=host") \/ (run.HostPID /\ w # "--pid=private")
  /\ t.positional = IF run.publish \/ w \in Detach \cup Publish \cup Modes \cup OtherModes
                    THEN run.positional ELSE Append(run.positional, w)

LEMMA TakeIs ==
  ASSUME NEW run \in Options, NEW w \in STRING
  PROVE  Takes(run, w, Take(run, w))
<1> USE KindsAreApart
<1>1. CASE run.publish
  <2>1. Take(run, w) = TakePort(run, w)
    BY <1>1 DEF Take
  <2> QED
    <3>1. Append(run.ports, w) \in Seq(STRING)
      BY DEF Options
    <3> DEFINE ports == Append(run.ports, w)
    <3>2. Take(run, w) = [run EXCEPT !.publish = FALSE, !.ok = run.ok /\ (w \in Published), !.ports = ports]
      BY <2>1 DEF TakePort
    <3> HIDE DEF ports
    <3>3. Take(run, w) \in Options
      BY <3>1, <3>2 DEF Options, ports
    <3>4. Take(run, w).ports = ports
      BY <3>2 DEF Options
    <3>5. /\ Take(run, w).ok <=> run.ok /\ w \in Published
          /\ Take(run, w).publish <=> FALSE
          /\ Take(run, w).detach <=> run.detach
          /\ Take(run, w).HostNetwork <=> run.HostNetwork
          /\ Take(run, w).HostPID <=> run.HostPID
      BY <3>2 DEF Options
    <3>6. Take(run, w).positional = run.positional
      BY <3>2 DEF Options
    <3> QED
      BY <1>1, <3>3, <3>4, <3>5, <3>6 DEF Takes, ports
<1>2. CASE ~run.publish /\ w \in Detach
  <2>1. Take(run, w) = [run EXCEPT !.detach = TRUE]
    BY <1>2 DEF Take
  <2> QED
    BY <1>2, <2>1 DEF Options, Takes
<1>3. CASE ~run.publish /\ w \in Publish
  <2>1. Take(run, w) = [run EXCEPT !.publish = TRUE]
    BY <1>3 DEF Take
  <2> QED
    BY <1>3, <2>1 DEF Options, Takes
<1>4. CASE ~run.publish /\ w \in Modes
  <2>1. Take(run, w) = TakeMode(run, w)
    BY <1>4 DEF Take
  <2> QED
    BY <1>4, <2>1 DEF Options, Takes, TakeMode
<1>5. CASE ~run.publish /\ w \in OtherModes
  <2>1. Take(run, w) = [run EXCEPT !.ok = FALSE]
    BY <1>5 DEF Take
  <2> QED
    BY <1>5, <2>1 DEF Options, Takes
<1>6. CASE ~run.publish /\ w \notin Detach \cup Publish \cup Modes \cup OtherModes
  <2>1. Take(run, w) = [run EXCEPT !.positional = Append(@, w)]
    BY <1>6 DEF Take
  <2> QED
    <3> DEFINE positional == Append(run.positional, w)
    <3>1. positional \in Seq(STRING)
      BY DEF Options
    <3>2. Take(run, w) = [run EXCEPT !.positional = positional]
      BY <2>1
    <3> HIDE DEF positional
    <3>3. Take(run, w) \in Options
      BY <3>1, <3>2 DEF Options
    <3>4. Take(run, w).positional = positional
      BY <3>2 DEF Options
    <3>5. /\ Take(run, w).ok <=> run.ok
          /\ Take(run, w).publish <=> run.publish
          /\ Take(run, w).detach <=> run.detach
          /\ Take(run, w).HostNetwork <=> run.HostNetwork
          /\ Take(run, w).HostPID <=> run.HostPID
      BY <3>2 DEF Options
    <3>6. Take(run, w).ports = run.ports
      BY <3>2 DEF Options
    <3> QED
      BY <1>6, <3>3, <3>4, <3>5, <3>6 DEF Takes, positional
<1> QED
  BY <1>1, <1>2, <1>3, <1>4, <1>5, <1>6

-----------------------------------------------------------------------------
(* What the options tell of the first n words.                              *)

IsValue(i)  == i > 1 /\ words[i - 1] \in Publish
ValuesTo(n) == {i \in 1 .. n : IsValue(i)}
RestTo(n)   == {i \in 1 .. n : ~IsValue(i) /\ words[i] \notin Detach \cup Publish \cup Modes}

Good(n) ==
  /\ \A i \in 1 .. n : IsValue(i) => words[i] \in Published
  /\ \A i \in 1 .. n : words[i] \notin OtherModes

\* The word set is the last one given, or unset, up to place n.
Stands(n, set, unset) ==
  \E i \in 1 .. n : words[i] = set /\ \A j \in 1 .. n : j > i => words[j] # unset

TellsSwitches(run, n) ==
  /\ run.publish <=> n > 0 /\ words[n] \in Publish
  /\ run.detach <=> \E i \in 1 .. n : words[i] \in Detach
  /\ run.HostNetwork <=> Stands(n, "--net=host", "--net=bridge")
  /\ run.HostPID <=> Stands(n, "--pid=host", "--pid=private")

TellsPorts(run, n) ==
  /\ \A k \in 1 .. Len(run.ports) : \E i \in ValuesTo(n) : run.ports[k] = words[i]
  /\ \A i \in ValuesTo(n) : \E k \in 1 .. Len(run.ports) : run.ports[k] = words[i]
  /\ (\A k, l \in 1 .. Len(run.ports) : k # l => Binding[run.ports[k]] # Binding[run.ports[l]])
       <=> \A i, j \in ValuesTo(n) : i # j => Binding[words[i]] # Binding[words[j]]

TellsRest(run, n) ==
  LET rest == RestTo(n)
      args == run.positional
  IN  /\ IsFiniteSet(rest) /\ Cardinality(rest) = Len(args)
      /\ Len(args) >= 1 => \E i \in rest : args[1] = words[i] /\ \A k \in rest : i <= k
      /\ Len(args) >= 2 => \E i, j \in rest :
           /\ args[1] = words[i] /\ args[2] = words[j] /\ i < j
           /\ \A k \in rest : k = i \/ j <= k

Tells(run, n) ==
  /\ run.ok <=> Good(n)
  /\ run.ok => TellsSwitches(run, n) /\ TellsPorts(run, n) /\ TellsRest(run, n)

LEMMA GoodStep ==
  ASSUME NEW n \in Nat, NEW run \in Options, Tells(run, n), NEW t, Takes(run, words[n + 1], t)
  PROVE  t.ok <=> Good(n + 1)
<1>1. Good(n + 1) <=> Good(n) /\ (IsValue(n + 1) => words[n + 1] \in Published) /\ words[n + 1] \notin OtherModes
  BY DEF Good
<1>2. t.ok <=> run.ok /\ IF run.publish THEN words[n + 1] \in Published ELSE words[n + 1] \notin OtherModes
  BY DEF Takes
<1>3. run.ok => (run.publish <=> IsValue(n + 1))
  BY DEF Tells, TellsSwitches, IsValue
<1>4. words[n + 1] \in Published => words[n + 1] \notin OtherModes
  BY KindsAreApart
<1>5. run.ok <=> Good(n)
  BY DEF Tells
<1> QED
  BY <1>1, <1>2, <1>3, <1>4, <1>5

LEMMA StandsStep ==
  ASSUME NEW n \in Nat, NEW set, NEW unset, set # unset
  PROVE  Stands(n + 1, set, unset) <=> words[n + 1] = set \/ (Stands(n, set, unset) /\ words[n + 1] # unset)
<1>1. ASSUME Stands(n + 1, set, unset), words[n + 1] # set PROVE Stands(n, set, unset) /\ words[n + 1] # unset
  BY <1>1 DEF Stands
<1>2. ASSUME words[n + 1] = set PROVE Stands(n + 1, set, unset)
  BY <1>2 DEF Stands
<1>3. ASSUME Stands(n, set, unset), words[n + 1] # unset PROVE Stands(n + 1, set, unset)
  BY <1>3 DEF Stands
<1> QED
  BY <1>1, <1>2, <1>3

LEMMA SwitchesStep ==
  ASSUME NEW n \in Nat, NEW run \in Options, Tells(run, n), NEW t, Takes(run, words[n + 1], t), t.ok
  PROVE  TellsSwitches(t, n + 1)
<1> DEFINE w == words[n + 1]
<1>1. run.ok /\ TellsSwitches(run, n)
  BY DEF Takes, Tells
<1>2. run.publish => w \in Published /\ w \notin Detach \cup Publish \cup Modes
  BY KindsAreApart DEF Takes
<1>3. t.publish <=> n + 1 > 0 /\ words[n + 1] \in Publish
  BY <1>2 DEF Takes
<1>4. t.detach <=> \E i \in 1 .. n + 1 : words[i] \in Detach
  <2>1. t.detach <=> run.detach \/ w \in Detach
    BY <1>2 DEF Takes
  <2>2. (\E i \in 1 .. n + 1 : words[i] \in Detach) <=> (\E i \in 1 .. n : words[i] \in Detach) \/ w \in Detach
    OBVIOUS
  <2> QED
    BY <1>1, <2>1, <2>2 DEF TellsSwitches
<1>5. t.HostNetwork <=> Stands(n + 1, "--net=host", "--net=bridge")
  <2>1. t.HostNetwork <=> w = "--net=host" \/ (run.HostNetwork /\ w # "--net=bridge")
    BY <1>2 DEF Takes, Modes
  <2>2. "--net=host" # "--net=bridge"
    OBVIOUS
  <2>3. Stands(n + 1, "--net=host", "--net=bridge")
          <=> w = "--net=host" \/ (Stands(n, "--net=host", "--net=bridge") /\ w # "--net=bridge")
    BY <2>2, StandsStep
  <2> QED
    BY <1>1, <2>1, <2>3 DEF TellsSwitches
<1>6. t.HostPID <=> Stands(n + 1, "--pid=host", "--pid=private")
  <2>1. t.HostPID <=> w = "--pid=host" \/ (run.HostPID /\ w # "--pid=private")
    BY <1>2 DEF Takes, Modes
  <2>2. "--pid=host" # "--pid=private"
    OBVIOUS
  <2>3. Stands(n + 1, "--pid=host", "--pid=private")
          <=> w = "--pid=host" \/ (Stands(n, "--pid=host", "--pid=private") /\ w # "--pid=private")
    BY <2>2, StandsStep
  <2> QED
    BY <1>1, <2>1, <2>3 DEF TellsSwitches
<1> QED
  BY <1>3, <1>4, <1>5, <1>6 DEF TellsSwitches

LEMMA PortsStep ==
  ASSUME NEW n \in Nat, NEW run \in Options, Tells(run, n), NEW t, Takes(run, words[n + 1], t), t.ok
  PROVE  TellsPorts(t, n + 1)
<1> DEFINE w == words[n + 1]
<1>1. TellsPorts(run, n) /\ (run.publish <=> IsValue(n + 1))
  BY DEF Takes, Tells, TellsSwitches, IsValue
<1>2. CASE ~run.publish
  <2>1. t.ports = run.ports
    BY <1>2 DEF Takes
  <2>2. ValuesTo(n + 1) = ValuesTo(n)
    BY <1>1, <1>2 DEF ValuesTo
  <2> QED
    <3> DEFINE m == Len(run.ports)
    <3>1. Len(t.ports) = m /\ \A k : t.ports[k] = run.ports[k]
      BY <2>1
    <3>2. /\ \A k \in 1 .. m : \E i \in ValuesTo(n) : run.ports[k] = words[i]
          /\ \A i \in ValuesTo(n) : \E k \in 1 .. m : run.ports[k] = words[i]
      BY <1>1 DEF TellsPorts
    <3>3. (\A k, l \in 1 .. m : k # l => Binding[run.ports[k]] # Binding[run.ports[l]])
             <=> \A i, j \in ValuesTo(n) : i # j => Binding[words[i]] # Binding[words[j]]
      BY <1>1 DEF TellsPorts
    <3>4. (\A k, l \in 1 .. m : k # l => Binding[t.ports[k]] # Binding[t.ports[l]])
            <=> \A k, l \in 1 .. m : k # l => Binding[run.ports[k]] # Binding[run.ports[l]]
      BY <2>1
    <3>5. (\A k, l \in 1 .. m : k # l => Binding[t.ports[k]] # Binding[t.ports[l]])
            <=> \A i, j \in ValuesTo(n + 1) : i # j => Binding[words[i]] # Binding[words[j]]
      BY <2>2, <3>3, <3>4
    <3> HIDE DEF m
    <3> QED
      BY <2>2, <3>1, <3>2, <3>5 DEF TellsPorts
<1>3. CASE run.publish
  <2> DEFINE m == Len(run.ports)
  <2>1. /\ m \in Nat /\ Len(t.ports) = m + 1 /\ t.ports[m + 1] = w
        /\ \A k \in 1 .. m : t.ports[k] = run.ports[k]
    BY <1>3 DEF Takes, Options
  <2>2. ValuesTo(n + 1) = ValuesTo(n) \cup {n + 1} /\ n + 1 \notin ValuesTo(n)
    BY <1>1, <1>3 DEF ValuesTo
  <2> HIDE DEF m
  <2>3. /\ \A k \in 1 .. m : \E i \in ValuesTo(n) : run.ports[k] = words[i]
        /\ \A i \in ValuesTo(n) : \E k \in 1 .. m : run.ports[k] = words[i]
        /\ (\A k, l \in 1 .. m : k # l => Binding[run.ports[k]] # Binding[run.ports[l]])
             <=> \A i, j \in ValuesTo(n) : i # j => Binding[words[i]] # Binding[words[j]]
    BY <1>1 DEF TellsPorts, m
  <2>4. \A k \in 1 .. m + 1 : k \in 1 .. m \/ k = m + 1
    BY <2>1
  <2>5. \A k \in 1 .. m : k \in 1 .. m + 1 /\ k # m + 1
    BY <2>1
  <2>6. m + 1 \in 1 .. m + 1
    BY <2>1
  <2>7. \A k \in 1 .. m + 1 : \E i \in ValuesTo(n + 1) : t.ports[k] = words[i]
    <3>1. ASSUME NEW k \in 1 .. m PROVE \E i \in ValuesTo(n + 1) : t.ports[k] = words[i]
      BY <2>1, <2>2, <2>3
    <3>2. n + 1 \in ValuesTo(n + 1) /\ t.ports[m + 1] = words[n + 1]
      BY <2>1, <2>2
    <3> QED
      BY <2>4, <3>1, <3>2
  <2>8. \A i \in ValuesTo(n + 1) : \E k \in 1 .. m + 1 : t.ports[k] = words[i]
    BY <2>1, <2>2, <2>3, <2>5, <2>6
  <2>9. (\A k, l \in 1 .. m + 1 : k # l => Binding[t.ports[k]] # Binding[t.ports[l]])
          <=> (\A k, l \in 1 .. m : k # l => Binding[run.ports[k]] # Binding[run.ports[l]]) /\ \A k \in 1 .. m : Binding[run.ports[k]] # Binding[w]
    <3>1. Binding[t.ports[m + 1]] = Binding[w] /\ \A k \in 1 .. m : Binding[t.ports[k]] = Binding[run.ports[k]]
      BY <2>1
    <3> DEFINE p == [k \in 1 .. m |-> Binding[run.ports[k]]]
               q == [k \in 1 .. m + 1 |-> Binding[t.ports[k]]]
               v == Binding[w]
    <3>2. q[m + 1] = v /\ \A k \in 1 .. m : q[k] = p[k]
      BY <2>5, <2>6, <3>1
    <3>3. /\ \A k \in 1 .. m : p[k] = Binding[run.ports[k]]
          /\ \A k \in 1 .. m + 1 : q[k] = Binding[t.ports[k]]
      OBVIOUS
    <3> HIDE DEF p, q, v
    <3>4. (\A k, l \in 1 .. m + 1 : k # l => q[k] # q[l])
            <=> (\A k, l \in 1 .. m : k # l => p[k] # p[l]) /\ \A k \in 1 .. m : p[k] # v
      BY <2>4, <2>5, <2>6, <3>2
    <3> QED
      BY <3>3, <3>4 DEF v
  <2>10. (\A i, j \in ValuesTo(n + 1) : i # j => Binding[words[i]] # Binding[words[j]])
           <=> (\A i, j \in ValuesTo(n) : i # j => Binding[words[i]] # Binding[words[j]]) /\ \A i \in ValuesTo(n) : Binding[words[i]] # Binding[w]
    BY <2>2
  <2>11. (\A k \in 1 .. m : Binding[run.ports[k]] # Binding[w]) <=> \A i \in ValuesTo(n) : Binding[words[i]] # Binding[w]
    BY <2>3
  <2> QED
    BY <2>1, <2>3, <2>7, <2>8, <2>9, <2>10, <2>11 DEF TellsPorts
<1> QED
  BY <1>2, <1>3

LEMMA RestStep ==
  ASSUME NEW n \in Nat, NEW run \in Options, Tells(run, n), NEW t, Takes(run, words[n + 1], t), t.ok
  PROVE  TellsRest(t, n + 1)
<1> DEFINE w    == words[n + 1]
           rest == RestTo(n)
           args == run.positional
<1>1. TellsRest(run, n) /\ (run.publish <=> IsValue(n + 1)) /\ args \in Seq(STRING)
  BY DEF Takes, Tells, TellsSwitches, IsValue, Options
<1>2. CASE run.publish \/ w \in Detach \cup Publish \cup Modes
  <2>1. t.positional = args
    BY <1>2 DEF Takes
  <2>2. RestTo(n + 1) = rest
    BY <1>1, <1>2 DEF RestTo
  <2> QED
    BY <1>1, <2>1, <2>2 DEF TellsRest
<1>3. CASE ~run.publish /\ w \notin Detach \cup Publish \cup Modes
  <2>1. t.positional = Append(args, w)
    BY <1>3 DEF Takes
  <2>2. RestTo(n + 1) = rest \cup {n + 1} /\ \A i \in rest : i \in 1 .. n
    BY <1>1, <1>3 DEF RestTo
  <2>3. IsFiniteSet(rest) /\ Cardinality(rest) = Len(args)
    BY <1>1 DEF TellsRest
  <2>4. n + 1 \notin rest
    BY <2>2
  <2>5. IsFiniteSet(RestTo(n + 1)) /\ Cardinality(RestTo(n + 1)) = Len(args) + 1
    <3> HIDE DEF rest
    <3> QED
      BY <2>2, <2>3, <2>4, FS_AddElement
  <2>6. /\ Len(t.positional) = Len(args) + 1 /\ Len(args) \in Nat
        /\ t.positional[Len(args) + 1] = w /\ \A k \in 1 .. Len(args) : t.positional[k] = args[k]
    BY <1>1, <2>1
  <2>7. CASE Len(args) = 0
    <3>1. rest = {}
      <4> HIDE DEF rest
      <4> QED
        BY <2>3, <2>7, FS_EmptySet
    <3> QED
      BY <2>2, <2>5, <2>6, <2>7, <3>1 DEF TellsRest
  <2>8. CASE Len(args) = 1
    <3>1. PICK i \in rest : args[1] = words[i] /\ \A k \in rest : i <= k
      BY <1>1, <2>8 DEF TellsRest
    <3>2. \A k \in rest : k = i
      <4>1. IsFiniteSet(rest \ {i}) /\ Cardinality(rest \ {i}) = 0
        <5> HIDE DEF rest
        <5> QED
          BY <2>3, <2>8, <3>1, FS_RemoveElement
      <4>2. rest \ {i} = {}
        <5> HIDE DEF rest
        <5> QED
          BY <4>1, FS_EmptySet
      <4> QED
        BY <4>2
    <3>3. t.positional[1] = words[i] /\ t.positional[2] = words[n + 1] /\ i < n + 1 /\ Len(t.positional) = 2
      BY <2>2, <2>6, <2>8, <3>1
    <3>4. \A k \in RestTo(n + 1) : k = i \/ k = n + 1
      BY <2>2, <3>2
    <3>5. i \in RestTo(n + 1) /\ n + 1 \in RestTo(n + 1) /\ i \in Nat
      BY <2>2
    <3> QED
      BY <2>5, <2>8, <3>3, <3>4, <3>5 DEF TellsRest
  <2>9. CASE Len(args) >= 2
    <3>1. PICK i \in rest, j \in rest :
            args[1] = words[i] /\ args[2] = words[j] /\ i < j /\ \A k \in rest : k = i \/ j <= k
      BY <1>1, <2>9 DEF TellsRest
    <3>2. t.positional[1] = words[i] /\ t.positional[2] = words[j] /\ j < n + 1
      BY <2>2, <2>6, <2>9, <3>1
    <3>3. \A k \in RestTo(n + 1) : k = i \/ j <= k
      BY <2>2, <3>1, <3>2
    <3>4. i \in RestTo(n + 1) /\ j \in RestTo(n + 1) /\ i \in Nat /\ j \in Nat /\ \A k \in RestTo(n + 1) : k \in Nat
      BY <2>2
    <3>5. \A k \in RestTo(n + 1) : i <= k
      BY <3>1, <3>3, <3>4
    <3> QED
      BY <2>5, <2>6, <2>9, <3>1, <3>2, <3>3, <3>4, <3>5 DEF TellsRest
  <2> QED
    <3>1. Len(args) = 0 \/ Len(args) = 1 \/ Len(args) >= 2
      <4>1. Len(args) \in Nat
        BY <2>6
      <4>2. \A c \in Nat : c = 0 \/ c = 1 \/ c >= 2
        OBVIOUS
      <4> QED
        BY <4>1, <4>2
    <3> QED
      BY <2>7, <2>8, <2>9, <3>1
<1> QED
  BY <1>2, <1>3

\* At the end the options tell of all the words.
LEMMA TellsAll ==
  ASSUME words \in Seq(STRING)
  PROVE  cmdRun \in Options /\ Tells(cmdRun, Len(words))
<1> DEFINE S == {n \in Nat : n <= Len(words) => Gathered[n] \in Options /\ Tells(Gathered[n], n)}
<1>1. \A n \in 0 .. Len(words) : Gathered[n] = IF n = 0 THEN NoOptions ELSE Take(Gathered[n - 1], words[n])
  BY GatheredIs
<1>2. 0 \in S
  <2>1. Gathered[0] = NoOptions
    BY <1>1
  <2>2. NoOptions \in Options
    BY DEF NoOptions, Options
  <2>3. RestTo(0) = {} /\ ValuesTo(0) = {} /\ Good(0)
    BY DEF RestTo, ValuesTo, Good
  <2>4. NoOptions.ok /\ NoOptions.ports = <<>> /\ NoOptions.positional = <<>>
    BY DEF NoOptions
  <2>5. TellsSwitches(NoOptions, 0)
    BY DEF NoOptions, TellsSwitches, Stands
  <2>6. TellsPorts(NoOptions, 0)
    BY <2>3, <2>4 DEF TellsPorts
  <2>7. TellsRest(NoOptions, 0)
    <3>1. Len(NoOptions.positional) = 0 /\ ~(0 >= 1) /\ ~(0 >= 2)
      BY <2>4
    <3>2. IsFiniteSet({}) /\ Cardinality({}) = 0
      BY FS_EmptySet
    <3> QED
      BY <2>3, <3>1, <3>2 DEF TellsRest
  <2> QED
    BY <2>1, <2>2, <2>3, <2>4, <2>5, <2>6, <2>7 DEF Tells
<1>3. ASSUME NEW n \in Nat, n \in S PROVE n + 1 \in S
  <2> SUFFICES ASSUME n + 1 <= Len(words) PROVE Gathered[n + 1] \in Options /\ Tells(Gathered[n + 1], n + 1)
    OBVIOUS
  <2>1. n \in 0 .. Len(words) /\ n + 1 \in 0 .. Len(words) /\ n + 1 # 0 /\ (n + 1) - 1 = n /\ words[n + 1] \in STRING
    OBVIOUS
  <2>2. Gathered[n] \in Options /\ Tells(Gathered[n], n)
    BY <1>3, <2>1
  <2>3. Gathered[n + 1] = Take(Gathered[n], words[n + 1])
    BY <1>1, <2>1
  <2>4. Takes(Gathered[n], words[n + 1], Gathered[n + 1])
    BY <2>1, <2>2, <2>3, TakeIs
  <2>5. Gathered[n + 1].ok <=> Good(n + 1)
    BY <2>2, <2>4, GoodStep
  <2>6. Gathered[n + 1].ok => TellsSwitches(Gathered[n + 1], n + 1)
    BY <2>2, <2>4, SwitchesStep
  <2>7. Gathered[n + 1].ok => TellsPorts(Gathered[n + 1], n + 1)
    BY <2>2, <2>4, PortsStep
  <2>8. Gathered[n + 1].ok => TellsRest(Gathered[n + 1], n + 1)
    BY <2>2, <2>4, RestStep
  <2> QED
    BY <2>4, <2>5, <2>6, <2>7, <2>8 DEF Takes, Tells
<1>4. Len(words) \in S
  <2>1. Len(words) \in Nat
    OBVIOUS
  <2> HIDE DEF S
  <2> QED
    BY <1>2, <1>3, <2>1, NumbersInduction
<1> QED
  BY <1>4 DEF cmdRun

LEMMA MinIs ==
  ASSUME NEW S \in SUBSET Nat, NEW x \in S, \A y \in S : x <= y
  PROVE  Min(S) = x
<1>1. \A y \in S : (\A z \in S : y <= z) => y = x
  OBVIOUS
<1> QED
  BY <1>1 DEF Min

LEMMA PlacesAre ==
  ASSUME words \in Seq(STRING)
  PROVE  /\ Values = ValuesTo(Len(words) + 1)
         /\ Rest = RestTo(Len(words))
         /\ \A kind, i : i \in Places(kind) <=> i \in 1 .. Len(words) /\ words[i] \in kind
<1> DEFINE N == Len(words)
<1>1. N \in Nat /\ DOMAIN words = 1 .. N
  OBVIOUS
<1> HIDE DEF N
<1>2. \A kind, i : i \in Places(kind) <=> i \in 1 .. N /\ words[i] \in kind
  BY <1>1 DEF Places
<1>3. \A i : i \in Values <=> i \in ValuesTo(N + 1)
  <2>1. ASSUME NEW i \in Values PROVE i \in ValuesTo(N + 1)
    <3>1. PICK k \in Places(Publish) : i = k + 1
      BY DEF Values
    <3>2. k \in 1 .. N /\ words[k] \in Publish
      BY <1>2
    <3> QED
      BY <1>1, <3>1, <3>2 DEF ValuesTo, IsValue
  <2>2. ASSUME NEW i \in ValuesTo(N + 1) PROVE i \in Values
    <3>1. i \in 1 .. N + 1 /\ i > 1 /\ words[i - 1] \in Publish
      BY DEF ValuesTo, IsValue
    <3>2. i - 1 \in Places(Publish) /\ i = (i - 1) + 1
      BY <1>1, <1>2, <3>1
    <3> QED
      BY <3>2 DEF Values
  <2> QED
    BY <2>1, <2>2
<1>4. \A i : i \in Rest <=> i \in RestTo(N)
  <2>1. \A i : i \in Rest <=> i \in 1 .. N /\ ~(words[i] \in Detach \cup Publish \cup Modes) /\ i \notin Values
    BY <1>1, <1>2 DEF Rest
  <2>2. \A i \in 1 .. N : i \in Values <=> IsValue(i)
    BY <1>1, <1>3 DEF ValuesTo
  <2> QED
    BY <2>1, <2>2 DEF RestTo
<1> QED
  BY <1>2, <1>3, <1>4 DEF N

\* The first two words left over, by their places.
LEMMA FirstTwo ==
  ASSUME words \in Seq(STRING), TellsRest(cmdRun, Len(words)), cmdRun \in Options, Len(cmdRun.positional) >= 2
  PROVE  /\ cmdRun.positional[1] = words[Min(Rest)]
         /\ cmdRun.positional[2] = words[Min(Rest \ {Min(Rest)})]
<1>1. Rest = RestTo(Len(words))
  BY PlacesAre
<1>2. PICK i \in Rest, j \in Rest :
        /\ cmdRun.positional[1] = words[i] /\ cmdRun.positional[2] = words[j]
        /\ i < j /\ \A k \in Rest : k = i \/ j <= k
  BY <1>1 DEF TellsRest
<1>3. Rest \in SUBSET Nat
  BY <1>1 DEF RestTo
<1>4. Min(Rest) = i
  <2>1. \A k \in Rest : i <= k
    BY <1>2, <1>3
  <2> QED
    BY <1>3, <2>1, MinIs
<1>5. Min(Rest \ {i}) = j
  <2>1. j \in Rest \ {i} /\ \A k \in Rest \ {i} : j <= k
    BY <1>2, <1>3
  <2>2. Rest \ {i} \in SUBSET Nat
    BY <1>3
  <2> QED
    BY <2>1, <2>2, MinIs
<1> QED
  BY <1>2, <1>4, <1>5

\* When a run starts, said of the words.
LEMMA StartsIf ==
  ASSUME words \in Seq(STRING)
  PROVE  Starts <=> /\ Values \subseteq Places(Published) /\ Places(OtherModes) = {}
                    /\ \A i, j \in Values : i # j => Binding[words[i]] # Binding[words[j]]
                    /\ Cardinality(Rest) >= 2 /\ words[Min(Rest \ {Min(Rest)})] # ""
<1> DEFINE N == Len(words)
           bindings == [i \in DOMAIN cmdRun.ports |-> Binding[cmdRun.ports[i]]]
<1>1. cmdRun \in Options /\ Tells(cmdRun, N) /\ N \in Nat
  BY TellsAll
<1>2. /\ Values = ValuesTo(N + 1) /\ Rest = RestTo(N)
      /\ \A kind, i : i \in Places(kind) <=> i \in 1 .. N /\ words[i] \in kind
  BY PlacesAre
<1> HIDE DEF N
<1>3. Values \subseteq Places(Published) /\ Places(OtherModes) = {} <=> Good(N) /\ ~IsValue(N + 1)
  <2>1. Places(OtherModes) = {} <=> \A i \in 1 .. N : words[i] \notin OtherModes
    BY <1>2
  <2>2. ASSUME Values \subseteq Places(Published) PROVE ~IsValue(N + 1) /\ \A i \in 1 .. N : IsValue(i) => words[i] \in Published
    BY <1>1, <1>2, <2>2 DEF ValuesTo
  <2>3. ASSUME ~IsValue(N + 1), \A i \in 1 .. N : IsValue(i) => words[i] \in Published PROVE Values \subseteq Places(Published)
    <3>1. \A i \in ValuesTo(N + 1) : i \in 1 .. N /\ IsValue(i)
      BY <1>1, <2>3 DEF ValuesTo
    <3> QED
      BY <1>2, <2>3, <3>1
  <2> QED
    BY <2>1, <2>2, <2>3 DEF Good
<1>4. IsValue(N + 1) <=> N > 0 /\ words[N] \in Publish
  BY <1>1 DEF IsValue
<1>5. cmdRun.ok /\ ~cmdRun.publish <=> Values \subseteq Places(Published) /\ Places(OtherModes) = {}
  BY <1>1, <1>3, <1>4 DEF Tells, TellsSwitches
<1>6. ASSUME cmdRun.ok, ~cmdRun.publish
      PROVE  /\ IsInjective(bindings) <=> \A i, j \in Values : i # j => Binding[words[i]] # Binding[words[j]]
             /\ Len(cmdRun.positional) = Cardinality(Rest)
             /\ Len(cmdRun.positional) >= 2 => cmdRun.positional[2] = words[Min(Rest \ {Min(Rest)})]
  <2>1. TellsSwitches(cmdRun, N) /\ TellsPorts(cmdRun, N) /\ TellsRest(cmdRun, N)
    BY <1>1, <1>6 DEF Tells
  <2>2. Values = ValuesTo(N)
    <3>1. ~IsValue(N + 1)
      BY <1>4, <1>6, <2>1 DEF TellsSwitches
    <3> QED
      BY <1>1, <1>2, <3>1 DEF ValuesTo
  <2>3. IsInjective(bindings)
          <=> \A k, l \in 1 .. Len(cmdRun.ports) : k # l => Binding[cmdRun.ports[k]] # Binding[cmdRun.ports[l]]
    <3>1. DOMAIN cmdRun.ports = 1 .. Len(cmdRun.ports)
      BY <1>1 DEF Options
    <3>2. DOMAIN bindings = 1 .. Len(cmdRun.ports)
          /\ \A k \in 1 .. Len(cmdRun.ports) : bindings[k] = Binding[cmdRun.ports[k]]
      BY <3>1
    <3> HIDE DEF bindings
    <3> QED
      BY <3>2 DEF IsInjective
  <2>4. Len(cmdRun.positional) = Cardinality(Rest)
    BY <1>2, <2>1 DEF TellsRest
  <2> QED
    BY <1>1, <2>1, <2>2, <2>3, <2>4, FirstTwo DEF TellsPorts, N
<1> QED
  BY <1>5, <1>6 DEF Starts

\* What Starts allows one to use.
LEMMA StartedTells ==
  ASSUME words \in Seq(STRING), Starts
  PROVE  /\ cmdRun \in Options /\ TellsSwitches(cmdRun, Len(words)) /\ TellsPorts(cmdRun, Len(words))
         /\ TellsRest(cmdRun, Len(words)) /\ Len(cmdRun.positional) >= 2
         /\ Values = ValuesTo(Len(words))
<1>1. cmdRun \in Options /\ Tells(cmdRun, Len(words)) /\ cmdRun.ok /\ ~cmdRun.publish /\ Len(words) \in Nat
      /\ Len(cmdRun.positional) >= 2
  <2>1. cmdRun \in Options /\ Tells(cmdRun, Len(words)) /\ Len(words) \in Nat
    BY TellsAll
  <2>2. cmdRun.ok /\ ~cmdRun.publish /\ Len(cmdRun.positional) >= 2
    BY DEF Starts
  <2> QED
    BY <2>1, <2>2
<1>2. TellsSwitches(cmdRun, Len(words)) /\ TellsPorts(cmdRun, Len(words)) /\ TellsRest(cmdRun, Len(words))
  BY <1>1 DEF Tells
<1>3. ~IsValue(Len(words) + 1)
  BY <1>1, <1>2 DEF TellsSwitches, IsValue
<1>4. Values = ValuesTo(Len(words) + 1)
  BY PlacesAre
<1>5. Values = ValuesTo(Len(words))
  BY <1>1, <1>3, <1>4 DEF ValuesTo
<1> QED
  BY <1>1, <1>2, <1>5

LEMMA StandsIf ==
  ASSUME words \in Seq(STRING), NEW set, NEW unset
  PROVE  ~Stands(Len(words), set, unset) <=>
           \A i \in Places({set}) : \E j \in Places({unset}) : i < j
<1>1. \A kind, i : i \in Places(kind) <=> i \in 1 .. Len(words) /\ words[i] \in kind
  BY PlacesAre
<1>2. \A i, j \in 1 .. Len(words) : i < j <=> j > i
  OBVIOUS
<1>3. ASSUME ~Stands(Len(words), set, unset), NEW i \in Places({set})
      PROVE  \E j \in Places({unset}) : i < j
  <2>1. i \in 1 .. Len(words) /\ words[i] = set
    BY <1>1
  <2>2. PICK j \in 1 .. Len(words) : j > i /\ words[j] = unset
    BY <1>3, <2>1 DEF Stands
  <2>3. j \in Places({unset}) /\ i < j
    BY <1>1, <1>2, <2>1, <2>2
  <2> QED
    BY <2>3
<1>4. ASSUME Stands(Len(words), set, unset)
      PROVE  \E i \in Places({set}) : \A j \in Places({unset}) : ~(i < j)
  <2>1. PICK i \in 1 .. Len(words) :
          words[i] = set /\ \A j \in 1 .. Len(words) : j > i => words[j] # unset
    BY <1>4 DEF Stands
  <2>2. i \in Places({set})
    BY <1>1, <2>1
  <2>3. ASSUME NEW j \in Places({unset}) PROVE ~(i < j)
    BY <1>1, <1>2, <2>1
  <2> QED
    BY <2>2, <2>3
<1> QED
  BY <1>3, <1>4

LEMMA OptionsLemma == ASSUME words \in Seq(STRING) PROVE OptionsAsGiven
<1> SUFFICES ASSUME Starts
             PROVE  /\ cmdRun.detach <=> Places(Detach) # {}
                    /\ ToSet(cmdRun.ports) = {words[i] : i \in Values}
                    /\ "net" \in CloneFlags <=> \A i \in Places({"--net=host"}) :
                                                 \E j \in Places({"--net=bridge"}) : i < j
                    /\ "pid" \in CloneFlags <=> \A i \in Places({"--pid=host"}) :
                                                 \E j \in Places({"--pid=private"}) : i < j
  BY StartsIf DEF OptionsAsGiven
<1>1. /\ cmdRun \in Options /\ TellsSwitches(cmdRun, Len(words)) /\ TellsPorts(cmdRun, Len(words))
      /\ Values = ValuesTo(Len(words))
  BY StartedTells
<1>2. cmdRun.detach <=> Places(Detach) # {}
  <2>1. \A i : i \in Places(Detach) <=> i \in 1 .. Len(words) /\ words[i] \in Detach
    BY PlacesAre
  <2> QED
    BY <1>1, <2>1 DEF TellsSwitches
<1>3. ToSet(cmdRun.ports) = {words[i] : i \in Values}
  <2>1. DOMAIN cmdRun.ports = 1 .. Len(cmdRun.ports)
    BY <1>1 DEF Options
  <2> QED
    <3>1. ToSet(cmdRun.ports) = {cmdRun.ports[k] : k \in 1 .. Len(cmdRun.ports)}
      BY <2>1 DEF ToSet
    <3>2. /\ \A k \in 1 .. Len(cmdRun.ports) : \E i \in Values : cmdRun.ports[k] = words[i]
          /\ \A i \in Values : \E k \in 1 .. Len(cmdRun.ports) : cmdRun.ports[k] = words[i]
      BY <1>1 DEF TellsPorts
    <3> DEFINE I == 1 .. Len(cmdRun.ports)
    <3> HIDE DEF I
    <3>3. {cmdRun.ports[k] : k \in I} = {words[i] : i \in Values}
      <4>1. /\ \A k \in I : \E i \in Values : cmdRun.ports[k] = words[i]
            /\ \A i \in Values : \E k \in I : cmdRun.ports[k] = words[i]
        BY <3>2 DEF I
      <4> DEFINE given == {words[i] : i \in Values}
                 taken == {cmdRun.ports[k] : k \in I}
      <4>2. ASSUME NEW x \in taken PROVE x \in given
        BY <4>1
      <4>3. ASSUME NEW x \in given PROVE x \in taken
        BY <4>1
      <4> HIDE DEF given, taken
      <4>4. given = taken
        BY <4>2, <4>3
      <4> QED
        BY <4>4 DEF given, taken
    <3> QED
      BY <3>1, <3>3 DEF I
<1>4. ("net" \in CloneFlags <=> ~cmdRun.HostNetwork) /\ ("pid" \in CloneFlags <=> ~cmdRun.HostPID)
  BY DEF CloneFlags
<1>5. "net" \in CloneFlags <=> \A i \in Places({"--net=host"}) : \E j \in Places({"--net=bridge"}) : i < j
  BY <1>1, <1>4, StandsIf DEF TellsSwitches
<1>6. "pid" \in CloneFlags <=> \A i \in Places({"--pid=host"}) : \E j \in Places({"--pid=private"}) : i < j
  BY <1>1, <1>4, StandsIf DEF TellsSwitches
<1> QED
  BY <1>2, <1>3, <1>5, <1>6

LEMMA CommandLemma == ASSUME words \in Seq(STRING) PROVE InitRunsCommand
<1> SUFFICES ASSUME Starts
             PROVE  /\ Image = words[Min(Rest)]
                    /\ containerInit = [ok |-> TRUE, expects |-> "nothing", over |-> TRUE,
                                        rootfs |-> Rootfs, hostname |-> ID, args |-> Command]
                    /\ Len(Command) = Cardinality(Rest) - 1
  BY DEF InitRunsCommand
<1>1. cmdRun \in Options /\ TellsRest(cmdRun, Len(words)) /\ Len(cmdRun.positional) >= 2
  BY StartedTells
<1>2. Image = words[Min(Rest)]
  BY <1>1, FirstTwo DEF Image
<1>3. cmdRun.positional \in Seq(STRING) /\ cmdRun.positional # <<>>
  BY <1>1 DEF Options
<1>4. Command \in Seq(STRING) /\ Len(Command) = Len(cmdRun.positional) - 1
  BY <1>3, HeadTailProperties DEF Command
<1>5. Len(cmdRun.positional) = Cardinality(Rest)
  BY <1>1, PlacesAre DEF TellsRest
<1> QED
  BY <1>2, <1>4, <1>5, FlagsAreParsed

LEMMA WordsStay == LineSpec => [](words \in Seq(STRING))
<1>1. words \in CommandLines => words \in Seq(STRING)
  BY LineAssumption
<1>2. words \in Seq(STRING) /\ [UNCHANGED words]_words => (words \in Seq(STRING))'
  OBVIOUS
<1> QED
  BY <1>1, <1>2, PTL DEF LineSpec

\* cmdRun takes the options out of the words, wherever they stand and however many.
THEOREM OptionsAsGivenAlways == LineSpec => []OptionsAsGiven
<1>1. words \in Seq(STRING) => OptionsAsGiven
  BY OptionsLemma
<1> QED
  BY WordsStay, <1>1, PTL

\* What is left over of a command line reaches execve as it is, through both parsers.
THEOREM InitRunsCommandAlways == LineSpec => []InitRunsCommand
<1>1. words \in Seq(STRING) => InitRunsCommand
  BY CommandLemma
<1> QED
  BY WordsStay, <1>1, PTL
=============================================================================
