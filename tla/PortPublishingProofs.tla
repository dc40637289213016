------------------------ MODULE PortPublishingProofs ------------------------
(***************************************************************************)
(* Host ports of different containers: the port registry keeps them apart  *)
(* but for races, for any runs, mappings, addresses and clients, any number *)
(* of stops, failing commands and killed invocations.                      *)
(***************************************************************************)
EXTENDS PortPublishing, WellFoundedInduction, SequenceTheorems, FiniteSetTheorems, TLAPS

-----------------------------------------------------------------------------
(* Lists and bags.                                                          *)

\* Induction over the numbers, said of a set (the provers cannot instantiate an operator).
LEMMA NumbersInduction ==
  ASSUME NEW S, 0 \in S, \A n \in Nat : n \in S => n + 1 \in S
  PROVE  Nat \subseteq S
<1> DEFINE T == Nat \ S
           R == OpToRel(<, Nat)
<1> SUFFICES ASSUME T # {} PROVE FALSE
  OBVIOUS
<1>1. IsWellFoundedOn(R, Nat)
  BY NatLessThanWellFounded
<1>2. \A m, n \in Nat : m < n => <<m, n>> \in R
  BY DEF OpToRel
<1>3. T \subseteq Nat
  OBVIOUS
<1> HIDE DEF T, R
<1>4. PICK x \in T : \A y \in T : <<y, x>> \notin R
  BY <1>1, <1>3, WFMin, Zenon
<1>5. x # 0 /\ x - 1 \in Nat /\ x = (x - 1) + 1
  BY <1>4 DEF T
<1>6. x - 1 \in T /\ x - 1 < x
  BY <1>5, <1>4 DEF T
<1> QED
  BY <1>2, <1>3, <1>4, <1>6

\* The function FlattenSeq is defined by.
Flattens(f, s, n) == f = [i \in 1 .. n |-> IF i = 1 THEN s[i] ELSE f[i - 1] \o s[i]]

LEMMA FlattensAt ==
  ASSUME NEW s, NEW n, NEW f, Flattens(f, s, n)
  PROVE  \A i \in 1 .. n : f[i] = IF i = 1 THEN s[i] ELSE f[i - 1] \o s[i]
<1> TAKE i \in 1 .. n
<1>1. f[i] = [j \in 1 .. n |-> IF j = 1 THEN s[j] ELSE f[j - 1] \o s[j]][i]
  BY Zenon DEF Flattens
<1> QED
  BY <1>1, Zenon

LEMMA FlattensExists == ASSUME NEW s, NEW n \in Nat PROVE \E f : Flattens(f, s, n)
<1> DEFINE S == {k \in Nat : \E f : Flattens(f, s, k)}
<1>1. 0 \in S
  <2> DEFINE f == [i \in 1 .. 0 |-> s]
  <2>1. Flattens(f, s, 0)
    BY DEF Flattens
  <2> QED
    BY <2>1
<1>2. ASSUME NEW k \in Nat, k \in S PROVE k + 1 \in S
  <2>1. PICK f : Flattens(f, s, k)
    BY <1>2
  <2> DEFINE g == [i \in 1 .. k + 1 |-> IF i = 1 THEN s[i] ELSE f[i - 1] \o s[i]]
  <2>2. \A i \in 1 .. k : g[i] = f[i]
    BY <2>1, FlattensAt
  <2>3. g = [i \in 1 .. k + 1 |-> IF i = 1 THEN s[i] ELSE g[i - 1] \o s[i]]
    <3>1. \A i \in 1 .. k + 1 : i # 1 => i - 1 \in 1 .. k
      OBVIOUS
    <3> QED
      BY <2>2, <3>1
  <2> HIDE DEF g
  <2>4. Flattens(g, s, k + 1)
    BY <2>3 DEF Flattens
  <2> QED
    BY <2>4
<1>3. n \in S
  <2> HIDE DEF S
  <2> QED
    BY <1>1, <1>2, NumbersInduction
<1> QED
  BY <1>3

LEMMA FlattenIs ==
  ASSUME NEW s, Len(s) \in Nat, Len(s) # 0
  PROVE  \E f : Flattens(f, s, Len(s)) /\ FlattenSeq(s) = f[Len(s)]
<1> DEFINE g == CHOOSE f : f = [i \in 1 .. Len(s) |-> IF i = 1 THEN s[i] ELSE f[i - 1] \o s[i]]
<1>1. FlattenSeq(s) = g[Len(s)]
  BY Zenon DEF FlattenSeq
<1>2. PICK h : Flattens(h, s, Len(s))
  BY FlattensExists
<1>3. g = [i \in 1 .. Len(s) |-> IF i = 1 THEN s[i] ELSE g[i - 1] \o s[i]]
  BY <1>2, Zenon DEF Flattens
<1> HIDE DEF g
<1>4. Flattens(g, s, Len(s))
  BY <1>3 DEF Flattens
<1> QED
  BY <1>1, <1>4

LEMMA FlattensType ==
  ASSUME NEW R, NEW s \in Seq(Seq(R)), NEW f, Flattens(f, s, Len(s))
  PROVE  \A i \in 1 .. Len(s) : f[i] \in Seq(R)
<1> DEFINE S == {k \in Nat : k \in 1 .. Len(s) => f[k] \in Seq(R)}
<1>0. \A i \in 1 .. Len(s) : f[i] = IF i = 1 THEN s[i] ELSE f[i - 1] \o s[i]
  BY FlattensAt
<1>1. 0 \in S
  OBVIOUS
<1>2. ASSUME NEW k \in Nat, k \in S PROVE k + 1 \in S
  <2> SUFFICES ASSUME k + 1 \in 1 .. Len(s) PROVE f[k + 1] \in Seq(R)
    OBVIOUS
  <2>1. s[k + 1] \in Seq(R)
    OBVIOUS
  <2>2. CASE k = 0
    BY <2>1, <2>2 DEF Flattens
  <2>3. CASE k # 0
    <3>1. f[k + 1] = f[k] \o s[k + 1]
      <4>1. k + 1 # 1 /\ (k + 1) - 1 = k /\ Len(s) \in Nat
        BY <2>3
      <4>2. f[k + 1] = IF k + 1 = 1 THEN s[k + 1] ELSE f[(k + 1) - 1] \o s[k + 1]
        BY <1>0, Zenon
      <4> QED
        BY <4>1, <4>2, Zenon
    <3>2. f[k] \in Seq(R)
      BY <1>2, <2>3
    <3> QED
      BY <2>1, <3>1, <3>2
  <2> QED
    BY <2>2, <2>3
<1>3. Nat \subseteq S
  <2> HIDE DEF S
  <2> QED
    BY <1>1, <1>2, NumbersInduction
<1> QED
  BY <1>3

\* A list of lists makes one list of their elements, ...
LEMMA FlattenType ==
  ASSUME NEW R, NEW s \in Seq(Seq(R)) PROVE FlattenSeq(s) \in Seq(R)
<1>1. CASE Len(s) = 0
  <2>1. FlattenSeq(s) = s
    BY <1>1, Zenon DEF FlattenSeq
  <2> QED
    BY <1>1, <2>1
<1>2. CASE Len(s) # 0
  <2>1. Len(s) \in Nat /\ Len(s) \in 1 .. Len(s)
    BY <1>2
  <2>2. PICK f : Flattens(f, s, Len(s)) /\ FlattenSeq(s) = f[Len(s)]
    BY <1>2, <2>1, FlattenIs
  <2> QED
    BY <2>1, <2>2, FlattensType
<1> QED
  BY <1>1, <1>2

\* ... whose last one is the last one of the last list.
LEMMA FlattenLast ==
  ASSUME NEW R, NEW s \in Seq(Seq(R)), Len(s) # 0, Len(s[Len(s)]) # 0
  PROVE  /\ FlattenSeq(s) \in Seq(R) /\ Len(FlattenSeq(s)) # 0
         /\ FlattenSeq(s)[Len(FlattenSeq(s))] = s[Len(s)][Len(s[Len(s)])]
<1> DEFINE n == Len(s)
<1>1. n \in Nat /\ n \in 1 .. n /\ s[n] \in Seq(R) /\ Len(s[n]) \in Nat \ {0}
  OBVIOUS
<1>2. PICK f : Flattens(f, s, n) /\ FlattenSeq(s) = f[n]
  BY <1>1, FlattenIs
<1>3. \A i \in 1 .. n : f[i] \in Seq(R)
  BY <1>2, FlattensType
<1>4. CASE n = 1
  <2>1. f[n] = s[n]
    BY <1>1, <1>2, <1>4 DEF Flattens
  <2> QED
    BY <1>1, <1>2, <2>1
<1>5. CASE n # 1
  <2>1. f[n] = f[n - 1] \o s[n] /\ f[n - 1] \in Seq(R)
    <3>1. \A i \in 1 .. n : f[i] = IF i = 1 THEN s[i] ELSE f[i - 1] \o s[i]
      BY <1>2, FlattensAt
    <3> HIDE DEF n
    <3>2. n - 1 \in 1 .. n
      BY <1>1, <1>5
    <3> QED
      BY <1>1, <1>3, <1>5, <3>1, <3>2
  <2> HIDE DEF n
  <2>2. /\ Len(f[n]) = Len(f[n - 1]) + Len(s[n]) /\ Len(f[n]) # 0 /\ f[n] \in Seq(R)
        /\ f[n][Len(f[n])] = s[n][Len(s[n])]
    <3> DEFINE a == f[n - 1]
               b == s[n]
    <3>1. a \in Seq(R) /\ b \in Seq(R) /\ Len(b) \in Nat \ {0}
      BY <1>1, <2>1
    <3>2. f[n] = a \o b
      BY <2>1
    <3> HIDE DEF a, b
    <3>3. Len(a) \in Nat /\ Len(a) + Len(b) \in 1 .. Len(a) + Len(b) /\ Len(a) + Len(b) > Len(a)
          /\ Len(a) + Len(b) - Len(a) = Len(b)
      BY <3>1
    <3>4. a \o b \in Seq(R) /\ Len(a \o b) = Len(a) + Len(b)
          /\ (a \o b)[Len(a) + Len(b)] = IF Len(a) + Len(b) <= Len(a) THEN a[Len(a) + Len(b)] ELSE b[Len(a) + Len(b) - Len(a)]
      BY <3>1, <3>3, ConcatProperties
    <3>5. (a \o b)[Len(a \o b)] = b[Len(b)] /\ Len(a \o b) # 0
      BY <3>1, <3>3, <3>4
    <3> QED
      BY <3>1, <3>2, <3>4, <3>5 DEF a, b
  <2> QED
    BY <1>2, <2>2 DEF n
<1> QED
  BY <1>4, <1>5

\* iptables -A adds one rule to the bag, ...
LEMMA AddOne ==
  ASSUME NEW bag, IsABag(bag), NEW rule, NEW sum, sum = bag (+) SetToBag({rule})
  PROVE  /\ IsABag(sum) /\ BagToSet(sum) = BagToSet(bag) \cup {rule}
         /\ Copies(sum, rule) = Copies(bag, rule) + 1
BY DEF IsABag, BagToSet, SetToBag, BagIn, Copies, (+)

LEMMA AddOneOnly ==
  ASSUME NEW bag, IsABag(bag), NEW rule, NEW x, x # rule
  PROVE  Copies(bag (+) SetToBag({rule}), x) = Copies(bag, x)
BY DEF IsABag, BagToSet, SetToBag, BagIn, Copies, (+)

\* ... and -D takes one of the same, if there is one.
LEMMA RemoveOne ==
  ASSUME NEW bag, IsABag(bag), NEW rule, NEW rest, rest = bag (-) SetToBag({rule})
  PROVE  /\ IsABag(rest) /\ BagToSet(rest) \subseteq BagToSet(bag)
         /\ Copies(bag, rule) > 0 => Copies(rest, rule) = Copies(bag, rule) - 1
         /\ Copies(bag, rule) = 0 => Copies(rest, rule) = 0
BY DEF IsABag, BagToSet, SetToBag, BagIn, Copies, (-)

LEMMA RemoveOneOnly ==
  ASSUME NEW bag, IsABag(bag), NEW rule, NEW x, x # rule
  PROVE  Copies(bag (-) SetToBag({rule}), x) = Copies(bag, x)
BY DEF IsABag, BagToSet, SetToBag, BagIn, Copies, (-)

LEMMA CopiesType == ASSUME NEW bag, IsABag(bag), NEW x
                    PROVE  Copies(bag, x) \in Nat /\ (BagIn(x, bag) <=> Copies(bag, x) > 0)
BY DEF IsABag, BagToSet, BagIn, Copies

LEMMA CountType == ASSUME NEW f, NEW x, NEW m \in Int, NEW n \in Int
                   PROVE  /\ IsFiniteSet(Places(f, x, m, n))
                          /\ Count(f, x, m, n) \in Nat
                          /\ m > n => Count(f, x, m, n) = 0
<1> DEFINE S == Places(f, x, m, n)
<1>1. IsFiniteSet(m .. n) /\ S \in SUBSET (m .. n)
  BY FS_Interval DEF Places
<1>2. IsFiniteSet(S)
  BY <1>1, FS_Subset
<1>3. m > n => S = {}
  BY DEF Places
<1> QED
  BY <1>2, <1>3, FS_CardinalityType, FS_EmptySet DEF Count

-----------------------------------------------------------------------------
(* The rules of a container.                                                *)

RulesOfAddress(ip) == UNION {ToSet(portMappingRules(ip, m)) : m \in PortMapping(1 .. MaxPort)}

\* Three rules for every mapping.
LEMMA RulesType == ASSUME NEW r \in Runs PROVE Rules(r) \in Seq(RulesOfAddress(IPOf[r]))
<1> DEFINE R == RulesOfAddress(IPOf[r])
           s == [i \in DOMAIN Publish[r] |-> portMappingRules(IPOf[r], Publish[r][i])]
<1>1. Publish[r] \in Seq(PortMapping(1 .. MaxPort))
  BY PublishingAssumption
<1>2. ASSUME NEW m \in PortMapping(1 .. MaxPort) PROVE portMappingRules(IPOf[r], m) \in Seq(R)
  <2> DEFINE t == portMappingRules(IPOf[r], m)
  <2>1. ToSet(t) \subseteq R
    BY DEF RulesOfAddress
  <2>2. Len(t) = 3 /\ DOMAIN t = 1 .. 3
    BY DEF portMappingRules
  <2>3. t[1] \in R /\ t[2] \in R /\ t[3] \in R
    BY <2>1, <2>2 DEF ToSet
  <2>4. t = <<t[1], t[2], t[3]>>
    BY DEF portMappingRules
  <2> HIDE DEF t, R
  <2>5. \A a, b, c \in R : <<a, b, c>> \in Seq(R)
    OBVIOUS
  <2>6. t \in Seq(R)
    BY <2>3, <2>4, <2>5, Zenon
  <2> QED
    BY <2>6 DEF t
<1>3. s \in Seq(Seq(R))
  <2> HIDE DEF R
  <2>1. Len(Publish[r]) \in Nat /\ DOMAIN Publish[r] = 1 .. Len(Publish[r])
        /\ \A i \in DOMAIN Publish[r] : Publish[r][i] \in PortMapping(1 .. MaxPort)
    BY <1>1
  <2>2. \A i \in 1 .. Len(Publish[r]) : portMappingRules(IPOf[r], Publish[r][i]) \in Seq(R)
    BY <1>2, <2>1
  <2> QED
    BY <2>1, <2>2
<1>4. Rules(r) = FlattenSeq(s)
  BY DEF Rules, RuleLists
<1> HIDE DEF R, s
<1>5. Rules(r) \in Seq(R)
  BY <1>3, <1>4, FlattenType
<1> QED
  BY <1>5 DEF R

\* The last argument of a DNAT rule is where it leads.
LEMMA DnatTellsAddress ==
  ASSUME NEW ip, NEW m \in PortMapping(1 .. MaxPort)
  PROVE  dnatMatch(ip, m)[Len(dnatMatch(ip, m))] = Val(<<ip, m.ContainerPort>>)
<1> DEFINE match == << Opt("-p"), Val(protocol(m)), Opt("--dport"), Val(m.HostPort),
                       Opt("-j"), Val("DNAT"),
                       Opt("--to-destination"), Val(<<ip, m.ContainerPort>>) >>
           extra == <<Opt("-d"), Val(m.HostIP)>>
           s == [i \in DOMAIN match |-> IF match[i] = Opt("-p") THEN <<match[i]>> \o extra ELSE <<match[i]>>]
           R == ToSet(match) \cup ToSet(extra)
<1>1. DOMAIN match = 1 .. 8 /\ Len(match) = 8 /\ match[8] = Val(<<ip, m.ContainerPort>>)
  OBVIOUS
<1>2. CASE m.HostIP = AnyIP
  <2>1. dnatMatch(ip, m) = match
    BY <1>2 DEF dnatMatch
  <2> QED
    BY <1>1, <2>1, Zenon
<1>3. CASE m.HostIP # AnyIP
  <2>1. dnatMatch(ip, m) = FlattenSeq(s)
    BY <1>3, Zenon DEF dnatMatch, insertAfter
  <2>2. match[8] # Opt("-p")
    BY <1>1 DEF Opt, Val
  <2>3. extra \in Seq(R) /\ \A i \in DOMAIN match : match[i] \in R
    BY DEF ToSet
  <2> HIDE DEF match, extra, R
  <2>4. \A a \in R : <<a>> \in Seq(R)
    OBVIOUS
  <2>5. \A a \in R : <<a>> \o extra \in Seq(R)
    BY <2>3, <2>4, ConcatProperties
  <2>6. \A i \in 1 .. 8 : s[i] \in Seq(R)
    BY <1>1, <2>3, <2>4, <2>5
  <2>7. s \in Seq(Seq(R)) /\ Len(s) = 8
    BY <1>1, <2>6
  <2>8. s[8] = <<match[8]>> /\ Len(s[8]) = 1 /\ s[8][1] = match[8]
    BY <1>1, <2>2
  <2> HIDE DEF s
  <2>9. FlattenSeq(s)[Len(FlattenSeq(s))] = s[8][1]
    <3>1. s \in Seq(Seq(R)) /\ Len(s) # 0 /\ Len(s[Len(s)]) # 0
      BY <2>7, <2>8
    <3>2. FlattenSeq(s)[Len(FlattenSeq(s))] = s[Len(s)][Len(s[Len(s)])]
      BY <3>1, FlattenLast
    <3> QED
      BY <3>2, <2>7, <2>8
  <2> QED
    BY <1>1, <2>1, <2>8, <2>9
<1> QED
  BY <1>2, <1>3

\* A rule leads to one address only.
LEMMA RulesTellAddress ==
  ASSUME NEW ip, NEW jp, NEW rule \in RulesOfAddress(ip) \cap RulesOfAddress(jp) PROVE ip = jp
<1>1. ASSUME NEW p, NEW m \in PortMapping(1 .. MaxPort), rule \in ToSet(portMappingRules(p, m))
      PROVE  \/ rule.chain = "FORWARD" /\ rule.args[4] = Val(p)
             \/ rule.chain # "FORWARD" /\ rule.args[Len(rule.args)] = Val(<<p, m.ContainerPort>>)
  <2>1. \/ rule = Rule("filter", "FORWARD", forwardMatch(p, m))
        \/ rule = Rule("nat", "PREROUTING", dnatMatch(p, m))
        \/ rule = Rule("nat", "OUTPUT", dnatMatch(p, m))
    BY <1>1 DEF ToSet, portMappingRules
  <2>2. forwardMatch(p, m)[4] = Val(p)
    BY DEF forwardMatch
  <2>3. dnatMatch(p, m)[Len(dnatMatch(p, m))] = Val(<<p, m.ContainerPort>>)
    BY DnatTellsAddress
  <2> QED
    BY <2>1, <2>2, <2>3 DEF Rule
<1>2. PICK m \in PortMapping(1 .. MaxPort) : rule \in ToSet(portMappingRules(ip, m))
  BY DEF RulesOfAddress
<1>3. PICK n \in PortMapping(1 .. MaxPort) : rule \in ToSet(portMappingRules(jp, n))
  BY DEF RulesOfAddress
<1>4. CASE rule.chain = "FORWARD"
  <2>1. Val(ip) = Val(jp)
    BY <1>1, <1>2, <1>3, <1>4
  <2> QED
    BY <2>1 DEF Val
<1>5. CASE rule.chain # "FORWARD"
  <2>1. Val(<<ip, m.ContainerPort>>) = Val(<<jp, n.ContainerPort>>)
    BY <1>1, <1>2, <1>3, <1>5
  <2> QED
    BY <2>1 DEF Val
<1> QED
  BY <1>4, <1>5

\* Containers that have a rule in common have their address in common.
LEMMA SharedRuleSharesAddress ==
  ASSUME NEW r \in Runs, NEW q \in Runs, NEW rule \in ToSet(Rules(r)) \cap ToSet(Rules(q))
  PROVE  IPOf[r] = IPOf[q]
<1>1. ToSet(Rules(r)) \subseteq RulesOfAddress(IPOf[r]) /\ ToSet(Rules(q)) \subseteq RulesOfAddress(IPOf[q])
  BY RulesType DEF ToSet
<1> QED
  BY <1>1, RulesTellAddress

-----------------------------------------------------------------------------
(* The port registry.                                                       *)

\* The conflict test does not depend on which of the two came first.
LEMMA ConflictIsSymmetric ==
  ASSUME NEW r, NEW q, Conflict(r, q) PROVE Conflict(q, r)
<1>1. PICK i \in DOMAIN Publish[r], j \in DOMAIN Publish[q] : bindingsConflict(Publish[r][i], Publish[q][j])
  BY DEF Conflict
<1>2. bindingsConflict(Publish[q][j], Publish[r][i])
  BY <1>1 DEF bindingsConflict
<1> QED
  BY <1>2 DEF Conflict

LEMMA RivalsAreSymmetric ==
  ASSUME NEW r, NEW q, Rivals(r, q)
  PROVE  Rivals(q, r) /\ {r, q} = {q, r} /\ (Raced(r, q) <=> Raced(q, r))
<1>1. {r, q} = {q, r}
  OBVIOUS
<1> QED
  BY <1>1, ConflictIsSymmetric DEF Rivals, Raced

\* A run that passes the check conflicts with none that it has seen.
LEMMA SeenIsChecked ==
  ASSUME NEW r \in Runs, NEW q \in seen[r], Rivals(r, q)
  PROVE  ~NoConflicts(UNION {ToSet(Publish[p]) : p \in seen[r]}, Publish[r])
<1>1. PICK i \in DOMAIN Publish[r], j \in DOMAIN Publish[q] : bindingsConflict(Publish[r][i], Publish[q][j])
  BY DEF Rivals, Conflict
<1>2. Publish[q][j] \in ToSet(Publish[q])
  BY DEF ToSet
<1>3. Publish[q][j] \in UNION {ToSet(Publish[p]) : p \in seen[r]}
  BY <1>2
<1> QED
  BY <1>1, <1>3 DEF NoConflicts

LEMMA RegistryInit == ASSUME Init PROVE RegistryInv
BY DEF Init, RegistryInv, RegistryTypeOK, RunPC, ConfState, UpHasSaved, RivalsInFlightRaced, InFlight,
  PublishersAreSeen, Published, ConflictNeedsRace

LEMMA RegistryTypeStep == ASSUME RegistryTypeOK, UpHasSaved, [Next]_vars PROVE RegistryTypeOK' /\ UpHasSaved'
<1> DEFINE Goal == RegistryTypeOK' /\ UpHasSaved'
<1> USE DEF RegistryTypeOK, UpHasSaved, RunPC, ConfState, Go, ClientGoes, runVars, fileVars, clientVars
<1>1. ASSUME NEW r \in Runs, SkipRegistry(r) \/ Load(r) \/ Check(r) PROVE Goal
  BY <1>1 DEF SkipRegistry, Load, Check
<1>2. ASSUME NEW r \in Runs, NEW q \in Runs, Read(r, q) PROVE Goal
  BY <1>2 DEF Read
<1>3. ASSUME NEW r \in Runs, Start(r) \/ StartFails(r) \/ Save(r) \/ SaveFails(r) PROVE Goal
  BY <1>3 DEF Start, StartFails, Save, SaveFails
<1>4. ASSUME NEW r \in Runs, Setup(r) \/ Masquerade(r) \/ Apply(r) \/ ApplyEnds(r) PROVE Goal
  BY <1>4 DEF Setup, Masquerade, Apply, ApplyEnds
<1>5. ASSUME NEW r \in Runs, RunCrashes(r) \/ ProcessExits(r) PROVE Goal
  BY <1>5 DEF RunCrashes, ProcessExits
<1>6. ASSUME NEW r \in Runs, RewriteOpen(r) \/ RewriteWrite(r) PROVE Goal
  BY <1>6 DEF RewriteOpen, RewriteWrite
<1>7. ASSUME NEW k \in Clients, NEW r \in Runs, BeginRemove(k, r) PROVE Goal
  BY <1>7 DEF BeginRemove
<1>8. ASSUME NEW k \in Clients, RemoveRelabel(k) \/ RemoveRule(k) \/ RemoveDir(k) PROVE Goal
  <2>1. CASE RemoveRelabel(k)
    BY <2>1 DEF RemoveRelabel
  <2>2. CASE RemoveRule(k)
    BY <2>2 DEF RemoveRule
  <2>3. CASE RemoveDir(k)
    BY <2>3 DEF RemoveDir
  <2> QED
    BY <1>8, <2>1, <2>2, <2>3
<1>9. CASE UNCHANGED vars
  BY <1>9 DEF vars
<1> QED
  BY <1>1, <1>2, <1>3, <1>4, <1>5, <1>6, <1>7, <1>8, <1>9 DEF Next, RunStep

\* What is the same before and after every step but the load, the read, the check and
\* the save: nobody comes into flight or up, no container comes back to have a
\* config.json, and nothing that was seen, left or raced is forgotten.
Frame ==
  /\ host' = host
  /\ \A r \in Runs : pc'[r] \in InFlight => pc[r] \in InFlight
  /\ \A r \in Runs : pc'[r] = "load" => pc[r] = "load" /\ left'[r] = left[r] /\ seen'[r] = seen[r]
  /\ \A r \in Runs : pc'[r] \in InFlight \ {"load"} => pc[r] \in InFlight \ {"load"}
  /\ Published' \subseteq Published
  /\ together' = together /\ torn' = torn

LEMMA FrameStep ==
  ASSUME RegistryTypeOK,
         \/ \E r \in Runs : \/ Start(r) \/ StartFails(r) \/ Setup(r) \/ Masquerade(r) \/ Apply(r)
                           \/ ApplyEnds(r) \/ SaveFails(r) \/ RunCrashes(r) \/ ProcessExits(r)
                           \/ RewriteOpen(r) \/ RewriteWrite(r)
         \/ \E k \in Clients, r \in Runs : BeginRemove(k, r)
         \/ \E k \in Clients : RemoveRelabel(k) \/ RemoveRule(k) \/ RemoveDir(k)
         \/ UNCHANGED vars
  PROVE  Frame
<1> USE DEF RegistryTypeOK, RunPC, ConfState, InFlight, Published, Registered, Go, ClientGoes, runVars, fileVars,
      clientVars, Frame
<1>1. ASSUME NEW r \in Runs, Start(r) \/ StartFails(r) \/ SaveFails(r) PROVE Frame
  BY <1>1 DEF Start, StartFails, SaveFails
<1>2. ASSUME NEW r \in Runs, Setup(r) \/ Masquerade(r) \/ Apply(r) \/ ApplyEnds(r) PROVE Frame
  BY <1>2 DEF Setup, Masquerade, Apply, ApplyEnds
<1>3. ASSUME NEW r \in Runs, RunCrashes(r) \/ ProcessExits(r) PROVE Frame
  BY <1>3 DEF RunCrashes, ProcessExits
<1>4. ASSUME NEW r \in Runs, RewriteOpen(r) \/ RewriteWrite(r) PROVE Frame
  BY <1>4 DEF RewriteOpen, RewriteWrite
<1>5. ASSUME NEW k \in Clients, NEW r \in Runs, BeginRemove(k, r) PROVE Frame
  BY <1>5 DEF BeginRemove
<1>6. ASSUME NEW k \in Clients, RemoveRelabel(k) \/ RemoveRule(k) \/ RemoveDir(k) PROVE Frame
  BY <1>6 DEF RemoveRelabel, RemoveRule, RemoveDir
<1>7. CASE UNCHANGED vars
  BY <1>7 DEF vars
<1> QED
  BY <1>1, <1>2, <1>3, <1>4, <1>5, <1>6, <1>7

\* The part of the invariant that is about races.
RaceInv == RivalsInFlightRaced /\ PublishersAreSeen /\ ConflictNeedsRace

\* A load finds out which rivals are under way and which have a directory.
LEMMA LoadRaces == ASSUME RegistryInv, NEW r \in Runs, Load(r) PROVE RaceInv'
<1> USE DEF RegistryInv, RegistryTypeOK, Load, Go
<1>1. /\ pc' = [pc EXCEPT ![r] = "load"] /\ host' = host /\ torn' = torn /\ cfg' = cfg /\ seen' = seen
      /\ together \subseteq together'
      /\ \A q \in Runs : pc[q] \in InFlight => {r, q} \in together'
      /\ left' = [left EXCEPT ![r] = {q \in Runs : cfg[q] # "nodir"}]
  BY DEF fileVars
<1>2. Published' = Published /\ r \notin Published'
  BY <1>1 DEF Published
<1>3. ASSUME NEW p \in Runs, NEW q \in Runs, Rivals(p, q)',
             pc'[p] \in InFlight, pc'[q] \in InFlight
      PROVE  Raced(p, q)'
  <2>1. Rivals(p, q) /\ Rivals(q, p) /\ {p, q} = {q, p}
    BY <1>1, <1>3, RivalsAreSymmetric DEF Rivals, Conflict
  <2>2. CASE p = r
    BY <1>1, <1>3, <2>1, <2>2 DEF Raced, Rivals
  <2>3. CASE q = r
    BY <1>1, <1>3, <2>1, <2>3 DEF Raced, Rivals
  <2>4. CASE p # r /\ q # r
    BY <1>1, <1>3, <2>1, <2>4 DEF Raced, RivalsInFlightRaced
  <2> QED
    BY <2>2, <2>3, <2>4
<1>4. ASSUME NEW p \in Runs, NEW q \in Published', Rivals(p, q)'
      PROVE  /\ pc'[p] = "load" => q \in left'[p] \cup seen'[p] \/ Raced(p, q)'
             /\ pc'[p] \in InFlight \ {"load"} => Raced(p, q)'
  <2>1. Rivals(p, q) /\ q \in Published
    BY <1>1, <1>2, <1>4 DEF Rivals, Conflict
  <2>2. CASE p = r
    BY <1>1, <2>1, <2>2 DEF Published
  <2>3. CASE p # r
    BY <1>1, <2>1, <2>3 DEF Raced, PublishersAreSeen
  <2> QED
    BY <2>2, <2>3
<1>5. ConflictNeedsRace'
  BY <1>1, <1>2 DEF ConflictNeedsRace, Conflict
<1> QED
  BY <1>3, <1>4, <1>5 DEF RaceInv, RivalsInFlightRaced, PublishersAreSeen

\* A run that passes the check has raced with every rival that publishes.
LEMMA CheckRaces == ASSUME RegistryInv, NEW r \in Runs, Check(r) PROVE RaceInv'
<1> USE DEF RegistryInv, RegistryTypeOK, Check, Go
<1>1. /\ pc[r] = "load" /\ left[r] = {} /\ pc'[r] \in {"start", "refused"}
      /\ \A p \in Runs \ {r} : pc'[p] = pc[p]
      /\ host' = host /\ torn' = torn /\ together' = together /\ cfg' = cfg /\ seen' = seen /\ left' = left
  BY DEF fileVars
<1>2. ASSUME NEW q \in seen[r], Rivals(r, q) PROVE pc'[r] = "refused"
  BY <1>2, SeenIsChecked
<1>3. Published' = Published /\ r \notin Published
  BY <1>1 DEF Published
<1>4. ASSUME NEW p, NEW q PROVE (Rivals(p, q)' <=> Rivals(p, q)) /\ (Raced(p, q)' <=> Raced(p, q))
  BY <1>1 DEF Rivals, Conflict, Raced
<1>5. RivalsInFlightRaced'
  BY <1>1, <1>4 DEF RivalsInFlightRaced, InFlight
<1>6. ASSUME NEW p \in Runs, NEW q \in Published, Rivals(p, q)
      PROVE  /\ pc'[p] = "load" => q \in left'[p] \cup seen'[p] \/ Raced(p, q)
             /\ pc'[p] \in InFlight \ {"load"} => Raced(p, q)
  <2>1. CASE p = r
    BY <1>1, <1>2, <1>6, <2>1 DEF PublishersAreSeen, InFlight
  <2>2. CASE p # r
    BY <1>1, <1>6, <2>2 DEF PublishersAreSeen
  <2> QED
    BY <2>1, <2>2
<1>7. PublishersAreSeen'
  BY <1>3, <1>4, <1>6 DEF PublishersAreSeen
<1>8. ConflictNeedsRace'
  BY <1>1, <1>3 DEF ConflictNeedsRace, Conflict
<1> QED
  BY <1>5, <1>7, <1>8 DEF RaceInv

\* A run that saves has raced with every rival that publishes or is under way.
LEMMA SaveRaces == ASSUME RegistryInv, NEW r \in Runs, Save(r) PROVE RaceInv'
<1> USE DEF RegistryInv, RegistryTypeOK, Save, Go
<1>1. /\ pc[r] = "save" /\ pc' = [pc EXCEPT ![r] = "up"] /\ cfg' = [cfg EXCEPT ![r] = "running"]
      /\ host' = host /\ torn' = torn /\ together' = together /\ seen' = seen /\ left' = left
  OBVIOUS
<1>2. Published' \subseteq Published \cup {r}
  BY <1>1 DEF Published
<1>3. ASSUME NEW p, NEW q PROVE (Rivals(p, q)' <=> Rivals(p, q)) /\ (Raced(p, q)' <=> Raced(p, q))
  BY <1>1 DEF Rivals, Conflict, Raced
<1>4. RivalsInFlightRaced'
  BY <1>1, <1>3 DEF RivalsInFlightRaced, InFlight
<1>5. ASSUME NEW p \in Runs, NEW q \in Published', Rivals(p, q), pc'[p] \in InFlight
      PROVE  \/ (pc'[p] = "load" /\ q \in left'[p] \cup seen'[p])
             \/ Raced(p, q)
  <2>1. p # r /\ pc[p] \in InFlight /\ pc'[p] = pc[p]
    BY <1>1, <1>5 DEF InFlight
  <2>2. CASE q = r
    BY <1>1, <1>5, <2>1, <2>2 DEF RivalsInFlightRaced, InFlight
  <2>3. CASE q # r
    BY <1>1, <1>2, <1>5, <2>1, <2>3 DEF PublishersAreSeen, InFlight
  <2> QED
    BY <2>2, <2>3
<1>6. PublishersAreSeen'
  BY <1>3, <1>5 DEF PublishersAreSeen, InFlight
<1>7. ASSUME NEW p \in Published', NEW q \in Published', p # q, Conflict(p, q) PROVE Raced(p, q)
  <2>1. Rivals(p, q) /\ Rivals(q, p) /\ (Raced(p, q) <=> Raced(q, p)) /\ p \in Runs /\ q \in Runs
    <3>1. Rivals(p, q) /\ p \in Runs /\ q \in Runs
      BY <1>1, <1>7 DEF Rivals, Published
    <3> QED
      BY <3>1, RivalsAreSymmetric
  <2>2. CASE p = r
    BY <1>1, <1>2, <1>7, <2>1, <2>2 DEF PublishersAreSeen, InFlight
  <2>3. CASE q = r
    BY <1>1, <1>2, <1>7, <2>1, <2>3 DEF PublishersAreSeen, InFlight
  <2>4. CASE p # r /\ q # r
    BY <1>2, <1>7, <2>4 DEF ConflictNeedsRace, Raced
  <2> QED
    BY <2>2, <2>3, <2>4
<1>8. ConflictNeedsRace'
  BY <1>3, <1>7 DEF ConflictNeedsRace, Conflict, Raced
<1> QED
  BY <1>4, <1>6, <1>8 DEF RaceInv

LEMMA RaceStep == ASSUME RegistryInv, RegistryTypeOK', [Next]_vars PROVE RaceInv'
<1> USE DEF RegistryInv, RegistryTypeOK, RunPC, ConfState, RaceInv, RivalsInFlightRaced, PublishersAreSeen,
      ConflictNeedsRace, Rivals, Raced, Published, InFlight, Conflict, Go, runVars, fileVars, clientVars
<1>1. CASE Frame
  BY <1>1 DEF Frame
<1>2. ASSUME NEW r \in Runs, SkipRegistry(r) PROVE RaceInv'
  BY <1>2 DEF SkipRegistry
<1>3. ASSUME NEW r \in Runs, NEW q \in Runs, Read(r, q) PROVE RaceInv'
  BY <1>3 DEF Read, UpHasSaved, Registered
<1> QED
  BY <1>1, <1>2, <1>3, LoadRaces, CheckRaces, SaveRaces, FrameStep DEF Next, RunStep

-----------------------------------------------------------------------------
(* The rules in iptables.                                                   *)

LEMMA RulesFacts ==
  ASSUME NEW r \in Runs
  PROVE  /\ Len(Rules(r)) \in Nat /\ DOMAIN Rules(r) = 1 .. Len(Rules(r))
         /\ \A i \in 1 .. Len(Rules(r)) : Rules(r)[i] \in ToSet(Rules(r)) /\ Rules(r)[i] \in AllRules
<1>1. Rules(r) \in Seq(RulesOfAddress(IPOf[r]))
  BY RulesType
<1>2. Len(Rules(r)) \in Nat /\ DOMAIN Rules(r) = 1 .. Len(Rules(r))
  BY <1>1
<1>3. \A i \in DOMAIN Rules(r) : Rules(r)[i] \in ToSet(Rules(r))
  BY DEF ToSet
<1>4. ToSet(Rules(r)) \subseteq AllRules
  BY DEF AllRules
<1> QED
  BY <1>2, <1>3, <1>4

\* What is counted are places of lists, each with its container.
LEMMA LaidIs ==
  \A rule, p : p \in Laid(rule) <=>
    \E q \in Runs : \E i \in 1 .. at[q] - 1 : Rules(q)[i] = rule /\ p = <<q, i>>
BY DEF Laid, Places

LEMMA HeldIsFinite ==
  ASSUME NEW rule, IsFiniteSet(Laid(rule))
  PROVE  IsFiniteSet(Held(rule)) /\ Cardinality(Held(rule)) \in Nat
<1>1. Held(rule) \in SUBSET Laid(rule)
  BY DEF Held
<1> QED
  BY <1>1, FS_Subset, FS_CardinalityType

LEMMA RulesInit == ASSUME Init PROVE RulesInv
<1> USE DEF Init
<1>1. \A r \in Runs : Len(Rules(r)) \in Nat
  BY RulesFacts
<1>2. IsABag(nat) /\ BagToSet(nat) = {} /\ \A rule : Copies(nat, rule) = 0
  BY DEF EmptyBag, SetToBag, IsABag, BagToSet, BagIn, Copies
<1>3. TypeOK
  BY <1>1, <1>2 DEF TypeOK, RegistryTypeOK, RulesTypeOK, RunPC, ConfState
<1>4. RemovesSaved /\ AppliedIsAll /\ RemovedIsPassed
  BY DEF RemovesSaved, AppliedIsAll, RemovedIsPassed, Removed, Registered
<1>5. ASSUME NEW rule PROVE Laid(rule) = {} /\ Held(rule) = {}
  BY LaidIs DEF Held
<1>6. ASSUME NEW rule
      PROVE  IsFiniteSet(Laid(rule)) /\ Cardinality(Held(rule)) = 0 /\ Copies(nat, rule) = 0
  <2>1. IsFiniteSet(Laid(rule)) /\ Cardinality(Held(rule)) = 0
    BY <1>5, FS_EmptySet, Zenon
  <2> QED
    BY <1>2, <2>1
<1>7. LaidIsFinite /\ NoneIsMissing /\ NoneInExcess
  BY <1>6 DEF LaidIsFinite, NoneIsMissing, NoneInExcess
<1> QED
  BY <1>3, <1>4, <1>7 DEF RulesInv

LEMMA RulesTypeStep == ASSUME RegistryTypeOK, RulesTypeOK, [Next]_vars PROVE RulesTypeOK'
<1> USE DEF RegistryTypeOK, RulesTypeOK, Go, ClientGoes, Fault, runVars, fileVars, natVars, clientVars, boundVars
<1>1. ASSUME NEW r \in Runs, SkipRegistry(r) \/ Load(r) \/ Check(r) PROVE RulesTypeOK'
  BY <1>1 DEF SkipRegistry, Load, Check
<1>2. ASSUME NEW r \in Runs, NEW q \in Runs, Read(r, q) PROVE RulesTypeOK'
  BY <1>2 DEF Read
<1>3. ASSUME NEW r \in Runs, Start(r) \/ StartFails(r) PROVE RulesTypeOK'
  BY <1>3 DEF Start, StartFails
<1>4. ASSUME NEW r \in Runs, Save(r) \/ SaveFails(r) PROVE RulesTypeOK'
  BY <1>4 DEF Save, SaveFails
<1>5. ASSUME NEW r \in Runs, Setup(r) \/ Masquerade(r) \/ ApplyEnds(r) PROVE RulesTypeOK'
  <2>1. CASE Setup(r) \/ Masquerade(r)
    BY <2>1 DEF Setup, Masquerade
  <2>2. CASE ApplyEnds(r)
    <3>1. applied' \in [Runs -> BOOLEAN] /\ faults' \in Nat /\ nat' = nat /\ at' = at
      <4>1. applied' = [applied EXCEPT ![r] = TRUE] \/ applied' = applied
        BY <2>2 DEF ApplyEnds
      <4>2. faults' = faults + 1 \/ faults' = faults
        BY <2>2 DEF ApplyEnds
      <4>3. nat' = nat /\ at' = at
        BY <2>2 DEF ApplyEnds
      <4>4. applied' \in [Runs -> BOOLEAN]
        BY <4>1, Zenon
      <4> QED
        BY <4>2, <4>3, <4>4
    <3>2. cpc' = cpc /\ cat' = cat /\ on' = on
      BY <2>2 DEF ApplyEnds
    <3> QED
      BY <3>1, <3>2
  <2> QED
    BY <1>5, <2>1, <2>2
<1>6. ASSUME NEW r \in Runs, Apply(r) PROVE RulesTypeOK'
  <2>1. IsABag(nat') /\ BagToSet(nat') \subseteq AllRules
    <3> DEFINE rule == Rules(r)[at[r]]
    <3>1. rule \in AllRules /\ nat' = nat (+) SetToBag({rule})
      BY <1>6, RulesFacts DEF Apply
    <3> HIDE DEF rule
    <3>2. IsABag(nat') /\ BagToSet(nat') = BagToSet(nat) \cup {rule}
      BY <3>1, AddOne, Zenon
    <3> QED
      BY <3>1, <3>2
  <2>2. DOMAIN at' = Runs /\ \A q \in Runs : at'[q] \in 1 .. Len(Rules(q)) + 1
    BY <1>6, RulesFacts DEF Apply
  <2> QED
    BY <1>6, <2>1, <2>2 DEF Apply
<1>7. ASSUME NEW r \in Runs, RunCrashes(r) \/ ProcessExits(r) PROVE RulesTypeOK'
  BY <1>7 DEF RunCrashes, ProcessExits
<1>8. ASSUME NEW r \in Runs, RewriteOpen(r) \/ RewriteWrite(r) PROVE RulesTypeOK'
  BY <1>8 DEF RewriteOpen, RewriteWrite
<1>9. ASSUME NEW k \in Clients, NEW r \in Runs, BeginRemove(k, r) PROVE RulesTypeOK'
  <2>1. cpc' \in [Clients -> {"idle", "relabel", "rules", "end"}]
    <3>1. cpc' = [cpc EXCEPT ![k] = "rules"] \/ cpc' = [cpc EXCEPT ![k] = "relabel"]
      BY <1>9 DEF BeginRemove
    <3> QED
      BY <3>1
  <2>2. \A c \in Clients : \A p, q \in on'[c] : p = q
    BY <1>9 DEF BeginRemove
  <2>3. at' = at /\ nat' = nat /\ cat' = cat /\ applied' = applied /\ faults' = faults
    BY <1>9 DEF BeginRemove
  <2> QED
    BY <2>1, <2>2, <2>3
<1>10. ASSUME NEW k \in Clients, RemoveRelabel(k) \/ RemoveDir(k) PROVE RulesTypeOK'
  BY <1>10 DEF RemoveRelabel, RemoveDir
<1>11. ASSUME NEW k \in Clients, RemoveRule(k) PROVE RulesTypeOK'
  <2>1. IsABag(nat') /\ BagToSet(nat') \subseteq AllRules
    <3>1. nat' = nat \/ \E rule : nat' = nat (-) SetToBag({rule})
      BY <1>11 DEF RemoveRule
    <3>2. ASSUME NEW rule, nat' = nat (-) SetToBag({rule}) PROVE IsABag(nat') /\ BagToSet(nat') \subseteq AllRules
      BY <3>2, RemoveOne
    <3> QED
      BY <3>1, <3>2
  <2> QED
    BY <1>11, <2>1 DEF RemoveRule
<1>12. CASE UNCHANGED vars
  BY <1>12 DEF vars
<1> QED
  BY <1>1, <1>2, <1>3, <1>4, <1>5, <1>6, <1>7, <1>8, <1>9, <1>10, <1>11, <1>12 DEF Next, RunStep

LEMMA RemovesStep == ASSUME RegistryTypeOK, RulesTypeOK, RemovesSaved, AppliedIsAll, [Next]_vars PROVE RemovesSaved' /\ AppliedIsAll'
<1> DEFINE Goal == RemovesSaved' /\ AppliedIsAll'
<1> USE DEF RegistryTypeOK, RulesTypeOK, RemovesSaved, AppliedIsAll, Registered, RunPC, ConfState, InFlight, Go, ClientGoes,
      runVars, fileVars, natVars, clientVars
<1>1. ASSUME NEW r \in Runs, SkipRegistry(r) \/ Load(r) \/ Check(r) PROVE Goal
  BY <1>1 DEF SkipRegistry, Load, Check
<1>2. ASSUME NEW r \in Runs, NEW q \in Runs, Read(r, q) PROVE Goal
  BY <1>2 DEF Read
<1>3. ASSUME NEW r \in Runs, Start(r) \/ StartFails(r) PROVE Goal
  <2>1. AppliedIsAll'
    BY <1>3 DEF Start, StartFails
  <2>2. /\ \A q \in Runs \ {r} : pc'[q] = pc[q] /\ cfg'[q] = cfg[q]
        /\ pc[r] # "up" /\ (cfg'[r] \in {"running", "final", "torn"} => pc'[r] = "up")
        /\ on' = on /\ cpc' = cpc /\ cat' = cat
    BY <1>3 DEF Start, StartFails
  <2>3. RemovesSaved'
    BY <2>2
  <2> QED
    BY <2>1, <2>3
<1>4. ASSUME NEW r \in Runs, Save(r) \/ SaveFails(r) PROVE Goal
  <2>1. AppliedIsAll'
    BY <1>4 DEF Save, SaveFails
  <2>2. /\ \A q \in Runs \ {r} : pc'[q] = pc[q] /\ cfg'[q] = cfg[q]
        /\ pc[r] # "up" /\ (cfg'[r] \in {"running", "final", "torn"} => pc'[r] = "up")
        /\ on' = on /\ cpc' = cpc /\ cat' = cat
    BY <1>4 DEF Save, SaveFails
  <2>3. RemovesSaved'
    BY <2>2
  <2> QED
    BY <2>1, <2>3
<1>5. ASSUME NEW r \in Runs, Setup(r) \/ Masquerade(r) PROVE Goal
  BY <1>5 DEF Setup, Masquerade
<1>6. ASSUME NEW r \in Runs, Apply(r) \/ ApplyEnds(r) PROVE Goal
  <2>1. AppliedIsAll'
    <3>1. CASE Apply(r)
      <4>1. applied' = applied /\ at' = [at EXCEPT ![r] = @ + 1]
        BY <3>1 DEF Apply
      <4> QED
        BY <4>1, RulesFacts
    <3>2. CASE ApplyEnds(r)
      <4>1. /\ at' = at
            /\ \/ applied' = applied
               \/ at[r] > Len(Rules(r)) /\ applied' = [applied EXCEPT ![r] = TRUE]
        <5>1. at' = at
          BY <3>2 DEF ApplyEnds
        <5>2. ASSUME at[r] > Len(Rules(r)) PROVE applied' = [applied EXCEPT ![r] = TRUE]
          BY <3>2, <5>2 DEF ApplyEnds
        <5>3. ASSUME ~(at[r] > Len(Rules(r))) PROVE applied' = applied
          BY <3>2, <5>3, Zenon DEF ApplyEnds
        <5> QED
          BY <5>1, <5>2, <5>3
      <4>2. \A q \in Runs : applied'[q] => applied[q] \/ (q = r /\ at[r] > Len(Rules(r)))
        BY <4>1, Zenon
      <4> QED
        BY <4>1, <4>2
    <3> QED
      BY <1>6, <3>1, <3>2
  <2>2. RemovesSaved'
    BY <1>6 DEF Apply, ApplyEnds
  <2> QED
    BY <2>1, <2>2
<1>7. ASSUME NEW r \in Runs, RunCrashes(r) \/ ProcessExits(r) PROVE Goal
  BY <1>7 DEF RunCrashes, ProcessExits
<1>8. ASSUME NEW r \in Runs, RewriteOpen(r) \/ RewriteWrite(r) PROVE Goal
  BY <1>8 DEF RewriteOpen, RewriteWrite
<1>9. ASSUME NEW k \in Clients, NEW r \in Runs, BeginRemove(k, r) PROVE Goal
  BY <1>9 DEF BeginRemove
<1>10. ASSUME NEW k \in Clients, RemoveRelabel(k) \/ RemoveDir(k) PROVE Goal
  BY <1>10 DEF RemoveRelabel, RemoveDir
<1>11. ASSUME NEW k \in Clients, RemoveRule(k) PROVE Goal
  BY <1>11 DEF RemoveRule
<1>12. CASE UNCHANGED vars
  BY <1>12 DEF vars
<1> QED
  BY <1>1, <1>2, <1>3, <1>4, <1>5, <1>6, <1>7, <1>8, <1>9, <1>10, <1>11, <1>12 DEF Next, RunStep

\* What every step keeps but the installation and the removal of a rule, and those that
\* begin an rm or end it.
Untouched ==
  /\ nat' = nat /\ at' = at /\ on' = on /\ cat' = cat
  /\ faults' = 0 => faults = 0
  /\ \A r \in Runs : Removed(r)' => Removed(r)

\* The counts of the invariant.
CountsInv == RemovedIsPassed /\ LaidIsFinite /\ NoneIsMissing /\ NoneInExcess

LEMMA UntouchedStep ==
  ASSUME RegistryTypeOK, RulesTypeOK, NEW r \in Runs,
         \/ SkipRegistry(r) \/ Load(r) \/ (\E q \in Runs : Read(r, q)) \/ Check(r) \/ Start(r) \/ StartFails(r)
         \/ Setup(r) \/ Masquerade(r) \/ ApplyEnds(r) \/ Save(r) \/ SaveFails(r)
         \/ RunCrashes(r) \/ ProcessExits(r) \/ RewriteOpen(r) \/ RewriteWrite(r)
  PROVE  Untouched
<1> USE DEF Untouched, Removed, RegistryTypeOK, Go, Fault, Registered, runVars, fileVars, natVars, clientVars, boundVars
<1>0. faults \in Nat
  BY DEF RulesTypeOK
<1>1. CASE SkipRegistry(r) \/ Load(r) \/ Check(r)
  BY <1>1 DEF SkipRegistry, Load, Check
<1>2. CASE \E q \in Runs : Read(r, q)
  BY <1>2 DEF Read
<1>3. CASE Start(r) \/ StartFails(r)
  BY <1>0, <1>3 DEF Start, StartFails
<1>4. CASE Save(r) \/ SaveFails(r)
  BY <1>0, <1>4 DEF Save, SaveFails
<1>5. CASE Setup(r) \/ Masquerade(r)
  BY <1>0, <1>5 DEF Setup, Masquerade
<1>6. CASE ApplyEnds(r)
  BY <1>0, <1>6 DEF ApplyEnds
<1>7. CASE RunCrashes(r) \/ ProcessExits(r)
  BY <1>7 DEF RunCrashes, ProcessExits
<1>8. CASE RewriteOpen(r) \/ RewriteWrite(r)
  BY <1>8 DEF RewriteOpen, RewriteWrite
<1> QED
  BY <1>1, <1>2, <1>3, <1>4, <1>5, <1>6, <1>7, <1>8

LEMMA UntouchedCounts == ASSUME CountsInv, Untouched PROVE CountsInv'
<1>1. ASSUME NEW rule PROVE Laid(rule)' = Laid(rule) /\ Held(rule)' = Held(rule)
  BY DEF Untouched, Laid, Held
<1>2. ASSUME NEW q PROVE TakesItsOwn(q)' = TakesItsOwn(q)
  BY DEF Untouched, TakesItsOwn
<1> QED
  BY <1>1, <1>2 DEF CountsInv, Untouched, RemovedIsPassed, LaidIsFinite, NoneIsMissing, NoneInExcess

\* A rule that is installed is one more place of its own container's list.
LEMMA ApplyCounts ==
  ASSUME RulesInv, NEW r \in Runs, Apply(r) PROVE CountsInv'
<1> DEFINE new == Rules(r)[at[r]]
           place == <<r, at[r]>>
<1> USE DEF RulesInv, TypeOK
<1>1. /\ pc[r] = "apply" /\ at[r] \in 1 .. Len(Rules(r)) /\ Len(Rules(r)) \in Nat
      /\ at' = [at EXCEPT ![r] = @ + 1] /\ nat' = nat (+) SetToBag({new})
      /\ on' = on /\ cat' = cat /\ pc' = pc /\ cfg' = cfg /\ faults' = faults
  BY RulesFacts DEF RulesTypeOK, Apply, clientVars, boundVars, fileVars
<1>2. \A k \in Clients : r \notin on[k]
  BY <1>1 DEF RemovesSaved
<1>3. /\ \A rule : Copies(nat, rule) \in Nat
      /\ Copies(nat', new) = Copies(nat, new) + 1
      /\ \A rule : rule # new => Copies(nat', rule) = Copies(nat, rule)
  <2>1. IsABag(nat) /\ nat' = nat (+) SetToBag({new})
    BY <1>1 DEF RulesTypeOK
  <2> HIDE DEF new
  <2>2. \A rule : Copies(nat, rule) \in Nat
    BY <2>1, CopiesType
  <2>3. Copies(nat', new) = Copies(nat, new) + 1
    BY <2>1, AddOne
  <2>4. ASSUME NEW rule, rule # new PROVE Copies(nat', rule) = Copies(nat, rule)
    BY <2>1, <2>4, AddOneOnly
  <2> QED
    BY <2>2, <2>3, <2>4
<1>4. ASSUME NEW rule
      PROVE  /\ rule = new => Laid(rule)' = Laid(rule) \cup {place} /\ Held(rule)' = Held(rule) \cup {place}
             /\ rule # new => Laid(rule)' = Laid(rule) /\ Held(rule)' = Held(rule)
             /\ place \notin Laid(rule)
  <2>1. ASSUME NEW p PROVE p \in Laid(rule)' <=> p \in Laid(rule) \/ (rule = new /\ p = place)
    <3> DEFINE I(q) == 1 .. at[q] - 1
               J(q) == 1 .. at'[q] - 1
               Is(q, i) == Rules(q)[i] = rule /\ p = <<q, i>>
    <3>1. p \in Laid(rule)' <=> \E q \in Runs : \E i \in J(q) : Is(q, i)
      BY DEF Laid, Places
    <3>2. p \in Laid(rule) <=> \E q \in Runs : \E i \in I(q) : Is(q, i)
      BY LaidIs
    <3>3. \A q \in Runs : J(q) = IF q = r THEN I(q) \cup {at[r]} ELSE I(q)
      <4>1. \A q \in Runs : at'[q] = IF q = r THEN at[r] + 1 ELSE at[q]
        BY <1>1 DEF RulesTypeOK
      <4>2. 1 .. (at[r] + 1) - 1 = (1 .. at[r] - 1) \cup {at[r]}
        BY <1>1
      <4> QED
        BY <4>1, <4>2
    <3>4. Is(r, at[r]) <=> rule = new /\ p = place
      OBVIOUS
    <3> HIDE DEF I, J, Is, new, place
    <3> QED
      BY <3>1, <3>2, <3>3, <3>4
  <2>2. place \notin Laid(rule)
    BY <1>1, LaidIs
  <2>3. ASSUME NEW p PROVE p \in Held(rule)' <=> p \in Held(rule) \/ (rule = new /\ p = place)
    BY <1>1, <1>2, <2>1 DEF Held
  <2> QED
    BY <2>1, <2>2, <2>3
<1>5. \A rule \in AllRules : /\ IsFiniteSet(Laid(rule)) /\ IsFiniteSet(Held(rule))
                             /\ Cardinality(Held(rule)) \in Nat
  BY HeldIsFinite DEF LaidIsFinite
<1>6. LaidIsFinite'
  BY <1>4, <1>5, FS_AddElement DEF LaidIsFinite
<1>7. ASSUME NEW rule \in AllRules
      PROVE  /\ Cardinality(Held(rule)') = Cardinality(Held(rule)) + IF rule = new THEN 1 ELSE 0
             /\ Copies(nat', rule) = Copies(nat, rule) + IF rule = new THEN 1 ELSE 0
             /\ Cardinality(Held(rule)) \in Nat /\ Copies(nat, rule) \in Nat
  <2>1. place \notin Held(rule)
    BY <1>4 DEF Held
  <2>2. Cardinality(Held(rule) \cup {place}) = Cardinality(Held(rule)) + 1
    BY <1>5, <2>1, FS_AddElement
  <2>3. CASE rule = new
    <3>1. Held(rule)' = Held(rule) \cup {place}
      BY <1>4, <2>3
    <3>2. Cardinality(Held(rule)') = Cardinality(Held(rule)) + 1
      BY <2>2, <3>1, Zenon
    <3> HIDE DEF place, new
    <3> QED
      BY <1>3, <1>5, <2>3, <3>2
  <2>4. CASE rule # new
    <3>1. Held(rule)' = Held(rule)
      BY <1>4, <2>4
    <3>2. Cardinality(Held(rule)') = Cardinality(Held(rule))
      BY <3>1, Zenon
    <3> HIDE DEF place, new
    <3> QED
      BY <1>3, <1>5, <2>4, <3>2
  <2> QED
    BY <2>3, <2>4
<1>8. \A q \in Runs : TakesItsOwn(q)' => TakesItsOwn(q)
  BY <1>1, <1>2 DEF TakesItsOwn, RulesTypeOK
<1> HIDE DEF new, place
<1>9. NoneIsMissing'
  <2> SUFFICES ASSUME NEW rule \in AllRules, \A q \in Runs : rule \in ToSet(Rules(q)) => TakesItsOwn(q)'
               PROVE  Copies(nat', rule) >= Cardinality(Held(rule)')
    BY DEF NoneIsMissing
  <2>1. Copies(nat, rule) >= Cardinality(Held(rule))
    BY <1>8 DEF NoneIsMissing
  <2> QED
    BY <1>7, <2>1
<1>11. NoneInExcess'
  <2> SUFFICES ASSUME faults = 0, NEW rule \in AllRules PROVE Copies(nat', rule) <= Cardinality(Held(rule)')
    BY <1>1 DEF NoneInExcess
  <2>1. Copies(nat, rule) <= Cardinality(Held(rule))
    BY DEF NoneInExcess
  <2> QED
    BY <1>7, <2>1
<1>10. RemovedIsPassed'
  BY <1>1 DEF RemovedIsPassed, Removed
<1> QED
  BY <1>6, <1>9, <1>10, <1>11 DEF CountsInv

\* An rm passes one place of its container's list, and takes one copy of the rule there if
\* iptables has any.
LEMMA RemoveCounts ==
  ASSUME RulesInv, TypeOK', NEW k \in Clients, RemoveRule(k) PROVE CountsInv'
<1> USE DEF RulesInv, TypeOK
<1>1. PICK r \in on[k] : /\ cat[k] <= Len(Rules(r))
                        /\ \/ nat' = nat (-) SetToBag({Rules(r)[cat[k]]}) /\ faults' = faults
                           \/ nat' = nat /\ faults' = faults + 1
  <2>1. PICK r \in on[k] : /\ cat[k] <= Len(Rules(r))
                          /\ \/ nat' = nat (-) SetToBag({Rules(r)[cat[k]]}) /\ UNCHANGED boundVars
                             \/ UNCHANGED nat /\ Fault
    BY Zenon DEF RemoveRule
  <2> QED
    BY <2>1 DEF Fault, boundVars
<1> DEFINE gone == Rules(r)[cat[k]]
           place == <<r, cat[k]>>
<1>2. /\ on' = on /\ at' = at /\ pc' = pc /\ cfg' = cfg /\ cat' = [cat EXCEPT ![k] = @ + 1]
      /\ faults \in Nat /\ IsABag(nat) /\ r \in Runs /\ cat[k] \in 1 .. Len(Rules(r)) /\ Len(Rules(r)) \in Nat
      /\ \A c \in Clients : cat[c] \in Nat
  BY <1>1, RulesFacts DEF RemoveRule, RegistryTypeOK, RulesTypeOK, runVars, fileVars
<1>3. ASSUME NEW rule
      PROVE  /\ Copies(nat, rule) \in Nat /\ Copies(nat', rule) \in Nat
             /\ rule # gone => Copies(nat', rule) = Copies(nat, rule)
             /\ Copies(nat', rule) <= Copies(nat, rule) /\ Copies(nat', rule) >= Copies(nat, rule) - 1
             /\ faults' = 0 => faults = 0 /\ (rule = gone /\ Copies(nat, rule) > 0 => Copies(nat', rule) = Copies(nat, rule) - 1)
  <2>1. Copies(nat, rule) \in Nat
    BY <1>2, CopiesType
  <2>2. CASE nat' = nat (-) SetToBag({gone}) /\ faults' = faults
    <3>1. IsABag(nat) /\ nat' = nat (-) SetToBag({gone})
      BY <1>2, <2>2
    <3>2. Copies(nat, gone) \in Nat
      BY <1>2, CopiesType
    <3> HIDE DEF gone
    <3>3. /\ Copies(nat, gone) > 0 => Copies(nat', gone) = Copies(nat, gone) - 1
          /\ Copies(nat, gone) = 0 => Copies(nat', gone) = 0
      BY <3>1, RemoveOne
    <3>4. rule # gone => Copies(nat', rule) = Copies(nat, rule)
      BY <3>1, RemoveOneOnly
    <3>5. CASE rule = gone
      <4>1. Copies(nat, gone) > 0 \/ Copies(nat, gone) = 0
        BY <3>2
      <4> QED
        BY <2>2, <3>2, <3>3, <3>5, <4>1
    <3>6. CASE rule # gone
      BY <2>1, <2>2, <3>4, <3>6
    <3> QED
      BY <3>5, <3>6
  <2>3. CASE nat' = nat /\ faults' = faults + 1
    BY <1>2, <2>1, <2>3
  <2> QED
    BY <1>1, <2>2, <2>3
<1>4. ASSUME NEW rule PROVE Laid(rule)' = Laid(rule)
  BY <1>2 DEF Laid
<1>5. ASSUME NEW rule
      PROVE  /\ Held(rule)' = Held(rule) \ {place}
             /\ rule # gone => place \notin Held(rule)
  <2>1. ASSUME NEW p \in Laid(rule) PROVE p \in Held(rule)' <=> p \in Held(rule) /\ p # place
    <3>0. PICK q \in Runs : \E i \in 1 .. at[q] - 1 : p = <<q, i>>
      BY LaidIs
    <3>1. PICK i \in 1 .. at[q] - 1 : p = <<q, i>>
      BY <3>0
    <3>2. p \in Held(rule) <=> \A c \in Clients : q \in on[c] => cat[c] <= i
      BY <3>1 DEF Held
    <3>3. p \in Held(rule)' <=> \A c \in Clients : q \in on[c] => cat'[c] <= i
      BY <1>2, <1>4, <3>1 DEF Held
    <3>4. \A c \in Clients : cat'[c] = IF c = k THEN cat[k] + 1 ELSE cat[c]
      BY <1>2 DEF RulesTypeOK
    <3>5. q \in on[k] => q = r
      BY <1>1, <1>2 DEF RulesTypeOK
    <3>6. p = place <=> q = r /\ i = cat[k]
      BY <3>1
    <3>7. i \in Int /\ (cat[k] + 1 <= i <=> cat[k] <= i /\ i # cat[k])
      BY <1>2, <3>1
    <3> HIDE DEF place
    <3>8. CASE q \in on[k]
      BY <3>2, <3>3, <3>4, <3>5, <3>6, <3>7, <3>8
    <3>9. CASE q \notin on[k]
      BY <1>1, <3>2, <3>3, <3>4, <3>6, <3>9
    <3> QED
      BY <3>8, <3>9
  <2>2. place \in Laid(rule) => rule = gone
    BY LaidIs
  <2> QED
    BY <1>4, <2>1, <2>2 DEF Held
<1>6. \A rule \in AllRules : IsFiniteSet(Held(rule)) /\ Cardinality(Held(rule)) \in Nat
  BY HeldIsFinite DEF LaidIsFinite
<1>7. ASSUME NEW rule \in AllRules
      PROVE  Cardinality(Held(rule)') = Cardinality(Held(rule)) - IF place \in Held(rule) THEN 1 ELSE 0
  <2>1. place \in Held(rule) => Cardinality(Held(rule) \ {place}) = Cardinality(Held(rule)) - 1
    BY <1>6, FS_RemoveElement
  <2>2. place \notin Held(rule) => Held(rule) \ {place} = Held(rule)
    OBVIOUS
  <2>3. Held(rule)' = Held(rule) \ {place}
    BY <1>5
  <2>4. Cardinality(Held(rule)') = Cardinality(Held(rule) \ {place})
    BY <2>3, Zenon
  <2> HIDE DEF place
  <2>5. CASE place \in Held(rule)
    BY <1>6, <2>1, <2>4, <2>5
  <2>6. CASE place \notin Held(rule)
    <3>1. Cardinality(Held(rule)') = Cardinality(Held(rule))
      BY <2>2, <2>4, <2>6, Zenon
    <3> QED
      BY <1>6, <2>6, <3>1
  <2> QED
    BY <2>5, <2>6
<1>8. \A q \in Runs : TakesItsOwn(q)' => TakesItsOwn(q)
  <2>1. \A c \in Clients : cat'[c] = IF c = k THEN cat[k] + 1 ELSE cat[c]
    BY <1>2 DEF RulesTypeOK
  <2>2. \A q \in Runs : at[q] \in Int
    BY RulesFacts DEF RulesTypeOK
  <2>3. \A c \in Clients : cat[c] # 0
    BY DEF RulesTypeOK
  <2> QED
    BY <1>2, <2>1, <2>2, <2>3 DEF TakesItsOwn
<1>9. TakesItsOwn(r)' => place \in Held(gone)
  <2> SUFFICES ASSUME TakesItsOwn(r)' PROVE place \in Held(gone)
    OBVIOUS
  <2>1. \A c \in Clients : cat'[c] = IF c = k THEN cat[k] + 1 ELSE cat[c]
    BY <1>2 DEF RulesTypeOK
  <2>2. cat[k] + 1 <= at[r] /\ at[r] \in Int
    BY <1>1, <1>2, <2>1, RulesFacts DEF TakesItsOwn, RulesTypeOK
  <2>3. place \in Laid(gone)
    <3>1. cat[k] \in 1 .. at[r] - 1
      BY <1>2, <2>2
    <3> QED
      BY <1>2, <3>1, LaidIs
  <2>4. \A c \in Clients \ {k} : r \in on[c] => cat[c] = 1
    BY <1>1, <1>2, <2>1 DEF TakesItsOwn
  <2>5. \A c \in Clients : r \in on[c] => cat[c] <= cat[k]
    BY <1>2, <2>4
  <2> QED
    BY <2>3, <2>5 DEF Held
<1>10. gone \in ToSet(Rules(r)) /\ gone \in AllRules
  BY <1>2, RulesFacts
<1> HIDE DEF gone, place
<1>11. LaidIsFinite'
  BY <1>4 DEF LaidIsFinite
<1>12. NoneIsMissing'
  <2> SUFFICES ASSUME NEW rule \in AllRules, \A q \in Runs : rule \in ToSet(Rules(q)) => TakesItsOwn(q)'
               PROVE  Copies(nat', rule) >= Cardinality(Held(rule)')
    BY DEF NoneIsMissing
  <2>1. Copies(nat, rule) >= Cardinality(Held(rule))
    BY <1>8 DEF NoneIsMissing
  <2>2. CASE rule = gone
    <3>1. place \in Held(rule)
      BY <1>2, <1>9, <1>10, <2>2
    <3> QED
      BY <1>3, <1>6, <1>7, <2>1, <3>1
  <2>3. CASE rule # gone
    BY <1>3, <1>5, <1>6, <1>7, <2>1, <2>3
  <2> QED
    BY <2>2, <2>3
<1>13. NoneInExcess'
  <2> SUFFICES ASSUME faults' = 0, NEW rule \in AllRules PROVE Copies(nat', rule) <= Cardinality(Held(rule)')
    BY DEF NoneInExcess
  <2>1. Copies(nat, rule) <= Cardinality(Held(rule))
    BY <1>3 DEF NoneInExcess
  <2>2. CASE place \in Held(rule)
    <3>1. rule = gone
      BY <1>5, <2>2
    <3>2. Cardinality(Held(rule)') = Cardinality(Held(rule)) - 1
      BY <1>7, <2>2
    <3>3. Copies(nat, rule) = 0 => Held(rule)' \in SUBSET Held(rule) /\ Cardinality(Held(rule)') \in Nat
      <4>1. Held(rule)' \in SUBSET Held(rule)
        BY <1>5
      <4> QED
        BY <1>6, <4>1, FS_Subset, FS_CardinalityType
    <3> QED
      BY <1>3, <1>6, <2>1, <3>1, <3>2, <3>3
  <2>3. CASE place \notin Held(rule)
    BY <1>3, <1>6, <1>7, <2>1, <2>3
  <2> QED
    BY <2>2, <2>3
<1>14. RemovedIsPassed'
  <2>1. \A c \in Clients, n \in Nat : cat[c] > n => cat'[c] > n
    BY <1>2 DEF RulesTypeOK
  <2> QED
    BY <1>2, <2>1, RulesFacts DEF RemovedIsPassed, Removed
<1> QED
  BY <1>11, <1>12, <1>13, <1>14 DEF CountsInv

\* An rm begins before the first place.
LEMMA BeginCounts ==
  ASSUME RulesInv, NEW k \in Clients, NEW r \in Runs, BeginRemove(k, r) PROVE CountsInv'
<1> USE DEF RulesInv, TypeOK
<1>1. /\ nat' = nat /\ at' = at /\ cat' = cat /\ pc' = pc /\ faults' = faults
      /\ on' = [on EXCEPT ![k] = {r}] /\ on[k] = {} /\ cat[k] = 1
      /\ \A q \in Runs : cfg'[q] = "nodir" => cfg[q] = "nodir"
  BY DEF BeginRemove, ClientGoes, RemovesSaved, RegistryTypeOK, runVars, natVars, boundVars
<1>2. \A c \in Clients : on'[c] = IF c = k THEN {r} ELSE on[c]
  BY <1>1 DEF RegistryTypeOK
<1>3. ASSUME NEW rule PROVE Laid(rule)' = Laid(rule)
  BY <1>1 DEF Laid
<1>4. ASSUME NEW rule PROVE Held(rule)' = Held(rule)
  <2>1. \A p \in Laid(rule) : 1 <= p[2]
    BY LaidIs
  <2> QED
    BY <1>1, <1>2, <1>3, <2>1 DEF Held
<1>5. \A q \in Runs : TakesItsOwn(q)' => TakesItsOwn(q)
  BY <1>1, <1>2 DEF TakesItsOwn
<1>6. LaidIsFinite' /\ NoneIsMissing' /\ NoneInExcess'
  BY <1>1, <1>3, <1>4, <1>5 DEF LaidIsFinite, NoneIsMissing, NoneInExcess
<1>7. RemovedIsPassed'
  BY <1>1, <1>2 DEF RemovedIsPassed, Removed
<1> QED
  BY <1>6, <1>7 DEF CountsInv

\* An rm ends behind the last place.
LEMMA EndCounts ==
  ASSUME RulesInv, NEW k \in Clients, RemoveRelabel(k) \/ RemoveDir(k) PROVE CountsInv'
<1> USE DEF RulesInv, TypeOK
<1>1. /\ nat' = nat /\ at' = at /\ cat' = cat /\ pc' = pc /\ faults' = faults /\ on' = on
      /\ \A q \in Runs : cfg'[q] = "nodir"
           => (cfg[q] = "nodir" \/ (q \in on[k] /\ cat[k] > Len(Rules(q))))
  <2>1. CASE RemoveRelabel(k)
    BY <2>1 DEF RemoveRelabel, RegistryTypeOK, ConfState, runVars, natVars, boundVars
  <2>2. CASE RemoveDir(k)
    <3>1. PICK r \in on[k] : cat[k] > Len(Rules(r)) /\ cfg' = [cfg EXCEPT ![r] = "nodir"]
      BY <2>2 DEF RemoveDir
    <3>2. \A q \in Runs : cfg'[q] = "nodir" => cfg[q] = "nodir" \/ q = r
      BY <3>1 DEF RegistryTypeOK
    <3>3. nat' = nat /\ at' = at /\ cat' = cat /\ pc' = pc /\ faults' = faults /\ on' = on
      BY <2>2 DEF RemoveDir, runVars, natVars, boundVars
    <3> QED
      BY <3>1, <3>2, <3>3
  <2> QED
    BY <2>1, <2>2
<1>2. ASSUME NEW rule PROVE Laid(rule)' = Laid(rule) /\ Held(rule)' = Held(rule)
  BY <1>1 DEF Laid, Held
<1>3. ASSUME NEW q PROVE TakesItsOwn(q)' = TakesItsOwn(q)
  BY <1>1 DEF TakesItsOwn
<1>4. LaidIsFinite' /\ NoneIsMissing' /\ NoneInExcess'
  BY <1>1, <1>2, <1>3 DEF LaidIsFinite, NoneIsMissing, NoneInExcess
<1>5. RemovedIsPassed'
  BY <1>1 DEF RemovedIsPassed, Removed
<1> QED
  BY <1>4, <1>5 DEF CountsInv

-----------------------------------------------------------------------------
\* The registry check, the saves and the removals keep the inductive invariant.
THEOREM RegistryInvariance == Spec => []RegistryInv
<1>1. RegistryInv /\ [Next]_vars => RegistryInv'
  <2> SUFFICES ASSUME RegistryInv, [Next]_vars PROVE RegistryInv'
    OBVIOUS
  <2>1. RegistryTypeOK' /\ UpHasSaved'
    BY RegistryTypeStep DEF RegistryInv
  <2>2. RaceInv'
    BY <2>1, RaceStep
  <2> QED
    BY <2>1, <2>2 DEF RegistryInv, RaceInv
<1> QED
  BY RegistryInit, <1>1, PTL DEF Spec

\* registry.go rejects conflicts across containers: two containers publish overlapping
\* bindings only if their runs were under way together, or one run read the other's
\* config.json while that was being rewritten.
THEOREM ConflictNeedsRaceAlways == Spec => []ConflictNeedsRace
<1>1. RegistryInv => ConflictNeedsRace
  BY DEF RegistryInv
<1> QED
  BY RegistryInvariance, <1>1, PTL

LEMMA TypeStep == ASSUME TypeOK, RegistryTypeOK', [Next]_vars PROVE TypeOK'
<1>1. RulesTypeOK'
  BY RulesTypeStep DEF TypeOK
<1> DEFINE Rest == /\ host \subseteq HostNet /\ alive \in [Runs -> BOOLEAN] /\ masq \in Nat
                   /\ rewrite \in [Runs -> BOOLEAN] /\ stops \in Nat /\ crashes \in Nat
           Pairs == together \cup torn \subseteq SUBSET Runs
<1>2. Rest'
  <2> USE DEF TypeOK, Go, Fault, runVars, fileVars, natVars, clientVars, boundVars
  <2>1. ASSUME NEW r \in Runs, SkipRegistry(r) \/ Load(r) \/ Check(r) PROVE Rest'
    BY <2>1 DEF SkipRegistry, Load, Check
  <2>2. ASSUME NEW r \in Runs, NEW q \in Runs, Read(r, q) PROVE Rest'
    BY <2>2 DEF Read
  <2>3. ASSUME NEW r \in Runs, Start(r) \/ StartFails(r) \/ Save(r) \/ SaveFails(r) PROVE Rest'
    BY <2>3 DEF Start, StartFails, Save, SaveFails
  <2>4. ASSUME NEW r \in Runs, Setup(r) \/ Masquerade(r) \/ Apply(r) \/ ApplyEnds(r) PROVE Rest'
    BY <2>4 DEF Setup, Masquerade, Apply, ApplyEnds
  <2>5. ASSUME NEW r \in Runs, RunCrashes(r) \/ ProcessExits(r) PROVE Rest'
    <3>1. CASE RunCrashes(r)
      BY <3>1 DEF RunCrashes
    <3>2. CASE ProcessExits(r)
      BY <3>2 DEF ProcessExits
    <3> QED
      BY <2>5, <3>1, <3>2
  <2>6. ASSUME NEW r \in Runs, RewriteOpen(r) \/ RewriteWrite(r) PROVE Rest'
    <3>1. CASE RewriteOpen(r)
      <4>1. rewrite' = [rewrite EXCEPT ![r] = TRUE]
        BY <3>1 DEF RewriteOpen
      <4>2. UNCHANGED <<host, alive, masq>> /\ stops' \in Nat /\ crashes' \in Nat
        BY <3>1 DEF RewriteOpen
      <4> QED
        BY <4>1, <4>2
    <3>2. CASE RewriteWrite(r)
      BY <3>2 DEF RewriteWrite
    <3> QED
      BY <2>6, <3>1, <3>2
  <2>7. ASSUME NEW k \in Clients, NEW r \in Runs, BeginRemove(k, r) PROVE Rest'
    BY <2>7 DEF BeginRemove
  <2>8. ASSUME NEW k \in Clients, RemoveRelabel(k) \/ RemoveDir(k) \/ RemoveRule(k) PROVE Rest'
    BY <2>8 DEF RemoveRelabel, RemoveDir, RemoveRule
  <2>9. CASE UNCHANGED vars
    BY <2>9 DEF vars
  <2> QED
    BY <2>1, <2>2, <2>3, <2>4, <2>5, <2>6, <2>7, <2>8, <2>9 DEF Next, RunStep
<1>3. Pairs'
  <2>1. ASSUME NEW r \in Runs, Load(r) PROVE Pairs'
    BY <2>1 DEF Load, TypeOK
  <2>2. ASSUME NEW r \in Runs, NEW q \in Runs, Read(r, q) PROVE Pairs'
    BY <2>2 DEF Read, TypeOK
  <2>3. CASE together' = together /\ torn' = torn
    BY <2>3 DEF TypeOK
  <2>4. \/ \E r \in Runs : Load(r)
        \/ \E r, q \in Runs : Read(r, q)
        \/ together' = together /\ torn' = torn
    BY DEF Next, RunStep, SkipRegistry, Check, Start, StartFails, Setup, Masquerade, Apply, ApplyEnds, Save,
      SaveFails, RunCrashes, ProcessExits, RewriteOpen, RewriteWrite, BeginRemove, RemoveRelabel, RemoveRule,
      RemoveDir, runVars, vars
  <2> QED
    BY <2>1, <2>2, <2>3, <2>4
<1> QED
  BY <1>1, <1>2, <1>3 DEF TypeOK

\* Every step keeps the counts.
LEMMA CountsStep == ASSUME RulesInv, TypeOK', [Next]_vars PROVE CountsInv'
<1>1. CountsInv /\ RegistryTypeOK /\ RulesTypeOK
  BY DEF RulesInv, CountsInv, TypeOK
<1>2. CASE Untouched
  BY <1>1, <1>2, UntouchedCounts
<1>3. CASE UNCHANGED vars
  <2>1. Untouched
    BY <1>3 DEF Untouched, Removed, vars, runVars, fileVars, natVars, clientVars, boundVars
  <2> QED
    BY <1>2, <2>1
<1> QED
  BY <1>1, <1>2, <1>3, UntouchedStep, ApplyCounts, RemoveCounts, BeginCounts, EndCounts DEF Next, RunStep

\* iptables has a rule as often as the lists of containers hold it, also if several of them
\* have one address: never more often if no command failed, and not less often unless an rm
\* tried to remove more than was installed.
THEOREM RulesInvariance == Spec => []RulesInv
<1>1. RulesInv /\ RegistryTypeOK' /\ [Next]_vars => RulesInv'
  <2> SUFFICES ASSUME RulesInv, RegistryTypeOK', [Next]_vars PROVE RulesInv'
    OBVIOUS
  <2>1. RegistryTypeOK /\ RulesTypeOK /\ TypeOK /\ RemovesSaved /\ AppliedIsAll
    BY DEF RulesInv, TypeOK
  <2>2. TypeOK'
    BY <2>1, TypeStep
  <2>3. RemovesSaved' /\ AppliedIsAll'
    BY <2>1, RemovesStep
  <2>4. CountsInv'
    BY <2>2, CountsStep
  <2> QED
    BY <2>2, <2>3, <2>4 DEF RulesInv, CountsInv
<1>2. RegistryInv => RegistryTypeOK
  BY DEF RegistryInv
<1> QED
  BY RegistryInvariance, RulesInit, <1>1, <1>2, PTL DEF Spec

\* RemovePortMappings of one container takes no rule of another: the rules of a container
\* that were all installed stay installed, each as often as its mappings ask for, until its
\* own rm begins; also if containers share an address, unless an rm of another one tries to
\* remove more than was installed.
THEOREM RulesStayAlways == Spec => []RulesStay
<1>1. RulesInv => RulesStay
  <2> SUFFICES ASSUME RulesInv, NEW r \in Runs, applied[r], \A k \in Clients : r \notin on[k],
                      \A q \in Runs : IPOf[q] = IPOf[r] => TakesItsOwn(q), NEW rule \in ToSet(Rules(r))
               PROVE  Copies(nat, rule) >= Times(rule, r)
    BY DEF RulesStay
  <2> USE DEF RulesInv, TypeOK
  <2>1. at[r] - 1 = Len(Rules(r)) /\ Len(Rules(r)) \in Nat /\ rule \in AllRules
    BY RulesFacts DEF AppliedIsAll, RulesTypeOK, AllRules
  <2>2. Copies(nat, rule) >= Cardinality(Held(rule))
    BY <2>1, SharedRuleSharesAddress DEF NoneIsMissing
  <2>3. Cardinality(Held(rule)) >= Times(rule, r)
    <3> DEFINE S == Places(Rules(r), rule, 1, Len(Rules(r)))
               f == [i \in S |-> <<r, i>>]
    <3>1. IsFiniteSet(Held(rule))
      BY <2>1, HeldIsFinite DEF LaidIsFinite
    <3>2. \A i \in S : <<r, i>> \in Held(rule)
      BY <2>1, LaidIs DEF Places, Held
    <3>3. f \in Injection(S, Held(rule))
      <4> HIDE DEF S
      <4> QED
        BY <3>2 DEF Injection, IsInjective
    <3> HIDE DEF f
    <3> QED
      BY <3>1, <3>3, FS_Injection DEF Times, Count
  <2>4. Copies(nat, rule) \in Nat /\ Cardinality(Held(rule)) \in Nat /\ Times(rule, r) \in Nat
    BY <2>1, CopiesType, CountType, HeldIsFinite DEF Times, RulesTypeOK, LaidIsFinite
  <2> QED
    BY <2>2, <2>3, <2>4
<1> QED
  BY RulesInvariance, <1>1, PTL

\* What a run has installed, all or some of it, is gone once its container is removed, if no
\* iptables command and no save failed by itself: iptables has a rule no more often than the
\* containers that are not removed installed it; also when two rms of one overlapped, and when
\* several containers have one address.
THEOREM RulesGoAlways == Spec => []RulesGo
<1>1. RulesInv => RulesGo
  <2> SUFFICES ASSUME RulesInv, faults = 0, NEW rule \in AllRules
               PROVE  Copies(nat, rule) <= Cardinality({p \in Laid(rule) : ~Removed(p[1])})
    BY DEF RulesGo
  <2> USE DEF RulesInv, TypeOK
  <2> DEFINE S == {p \in Laid(rule) : ~Removed(p[1])}
  <2>1. Held(rule) \in SUBSET S
    <3> SUFFICES ASSUME NEW p \in Held(rule), Removed(p[1]) PROVE FALSE
      BY DEF Held
    <3>0. PICK q \in Runs : \E i \in 1 .. at[q] - 1 : p = <<q, i>>
      BY LaidIs DEF Held
    <3>1. PICK i \in 1 .. at[q] - 1 : p = <<q, i>>
      BY <3>0
    <3>2. PICK k \in Clients : q \in on[k] /\ cat[k] > Len(Rules(q))
      BY <3>1 DEF RemovedIsPassed
    <3>3. cat[k] <= i
      BY <3>1, <3>2 DEF Held
    <3>4. i <= Len(Rules(q)) /\ i \in Int /\ Len(Rules(q)) \in Int /\ cat[k] \in Int
      BY <3>1, RulesFacts DEF RulesTypeOK
    <3> QED
      BY <3>2, <3>3, <3>4
  <2>2. IsFiniteSet(S) /\ S \in SUBSET Laid(rule)
    BY FS_Subset DEF LaidIsFinite
  <2>3. Cardinality(Held(rule)) <= Cardinality(S) /\ Cardinality(S) \in Nat /\ Cardinality(Held(rule)) \in Nat
    <3> HIDE DEF S
    <3> QED
      BY <2>1, <2>2, FS_Subset, FS_CardinalityType
  <2>4. Copies(nat, rule) <= Cardinality(Held(rule)) /\ Copies(nat, rule) \in Nat
    BY CopiesType DEF NoneInExcess, RulesTypeOK
  <2> QED
    BY <2>3, <2>4
<1> QED
  BY RulesInvariance, <1>1, PTL
=============================================================================
