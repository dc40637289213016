---------------------------- MODULE PortPublishing ----------------------------
(***************************************************************************)
(* Publishing ports (container.Runtime.Run and Remove, with                *)
(* internal/network/registry.go and nat.go): concurrent runs check the     *)
(* config.json files of the others, install iptables rules and save their   *)
(* own; rm takes the rules away again. The check, the rules and the save   *)
(* are not one step, and nothing locks them.                               *)
(*                                                                         *)
(* Each run is a minidocker process of its own, so natSetup, which is once  *)
(* per process, is once per run. Here config.json tells no more than       *)
(* whether the registry can read it; ContainerRuntime has its content.      *)
(***************************************************************************)
EXTENDS PortMappings, Bags

CONSTANTS
  Runs,      \* the calls of Runtime.Run, one container each
  Clients,   \* the invocations of rm
  Publish,   \* the -p mappings of each run
  HostNet,   \* the runs that may have --net=host
  IPOf,      \* ContainerIP: the address derived from each container's ID
  MaxStops,  \* bound on the stops
  MaxMishaps \* bound on failing commands and system calls and on invocations
             \* killed from outside, together

ASSUME PublishingAssumption ==
  /\ HostNet \subseteq Runs
  /\ \A r \in Runs : Publish[r] \in Seq(PortMapping(1 .. MaxPort))
  /\ MaxStops \in Nat /\ MaxMishaps \in Nat

VARIABLES
  host,    \* the runs that have --net=host
  pc,      \* where each run is
  cfg,     \* config.json of each container
  alive,   \* the container's process lives
  left,    \* the entries of the container root a run has yet to read
  seen,    \* the containers in the registry a run loaded
  at,      \* the rule a run installs next
  applied, \* all rules of a run were installed
  nat,     \* iptables: the bag of installed rules
  masq,    \* iptables: the number of MASQUERADE rules
  rewrite, \* someone has a container's config.json open to save a final status
  cpc, on, cat, \* where each rm is, its container and the rule it removes next
  together, \* history: the pairs of runs that were under way at the same time
  torn,    \* history: the pairs one of which found the other's config.json
           \* truncated
  stops, faults, crashes

runVars    == <<host, pc, left, seen, at, applied, together, torn>>
fileVars   == <<cfg, rewrite>>
natVars    == <<nat, masq>>
clientVars == <<cpc, on, cat>>
boundVars  == <<stops, faults, crashes>>
vars == <<runVars, fileVars, alive, natVars, clientVars, boundVars>>

RunPC     == {"new", "load", "start", "setup", "masquerade", "apply", "save",
              "up", "refused", "failed", "dead"}
ConfState == {"nodir", "nofile", "torn", "running", "final"}
RuleLists == [r \in Runs |->
  FlattenSeq([i \in DOMAIN Publish[r] |-> portMappingRules(IPOf[r], Publish[r][i])])]
Rules(r)  == RuleLists[r]

AllRules  == UNION {ToSet(Rules(r)) : r \in Runs}
InFlight  == {"load", "start", "setup", "masquerade", "apply", "save"}

\* The config.json files LoadPortRegistry can read.
Registered(r) == cfg[r] \in {"running", "final"}

Fault == faults + crashes < MaxMishaps /\ faults' = faults + 1 /\ UNCHANGED <<stops, crashes>>

-----------------------------------------------------------------------------
(* Runtime.Run.                                                             *)

Go(r, from, to) == pc[r] = from /\ pc' = [pc EXCEPT ![r] = to]

\* A run without mappings, or on the host's network, has no registry to check.
SkipRegistry(r) ==
  /\ Go(r, "new", "start")
  /\ Publish[r] = <<>> \/ r \in host
  /\ UNCHANGED <<host, left, seen, at, applied, together, torn, fileVars, alive, natVars, clientVars, boundVars>>

\* LoadPortRegistry lists the container root...
Load(r) ==
  /\ Go(r, "new", "load")
  /\ Publish[r] # <<>> /\ r \notin host
  /\ left'  = [left EXCEPT ![r] = {q \in Runs : cfg[q] # "nodir"}]
  /\ together' = together \cup {{r, q} : q \in {q \in Runs : pc[q] \in InFlight}}
  /\ UNCHANGED <<host, seen, at, applied, torn, fileVars, alive, natVars, clientVars, boundVars>>

\* Mutant: a container that has ended reserves nothing.
ReadRunningOnly(r, q) ==
  /\ pc[r] = "load" /\ q \in left[r]
  /\ left'  = [left EXCEPT ![r] = @ \ {q}]
  /\ seen'  = IF cfg[q] = "running" THEN [seen EXCEPT ![r] = @ \cup {q}] ELSE seen
  /\ torn'  = IF cfg[q] = "torn" THEN torn \cup {{r, q}} ELSE torn
  /\ UNCHANGED <<host, pc, at, applied, together, fileVars, alive, natVars, clientVars, boundVars>>

\* ... and reads one config.json after the other, skipping what it cannot read.
Read(r, q) ==
  /\ pc[r] = "load" /\ q \in left[r]
  /\ left'  = [left EXCEPT ![r] = @ \ {q}]
  /\ seen'  = IF Registered(q) THEN [seen EXCEPT ![r] = @ \cup {q}] ELSE seen
  /\ torn'  = IF cfg[q] = "torn" THEN torn \cup {{r, q}} ELSE torn
  /\ UNCHANGED <<host, pc, at, applied, together, fileVars, alive, natVars, clientVars, boundVars>>

\* CheckConflicts refuses the run, or lets it start.
Check(r) ==
  /\ left[r] = {}
  /\ LET held == UNION {ToSet(Publish[q]) : q \in seen[r]}
     IN  Go(r, "load", IF NoConflicts(held, Publish[r]) THEN "start" ELSE "refused")
  /\ UNCHANGED <<host, left, seen, at, applied, together, torn, fileVars, alive, natVars, clientVars, boundVars>>

\* startContainer makes the directory and starts the process.
Start(r) ==
  /\ Go(r, "start", IF r \in host THEN "save" ELSE "setup")
  /\ cfg'   = [cfg EXCEPT ![r] = "nofile"]
  /\ alive' = [alive EXCEPT ![r] = TRUE]
  /\ UNCHANGED <<host, left, seen, at, applied, together, torn, rewrite, natVars, clientVars, boundVars>>

StartFails(r) ==
  /\ Go(r, "start", "failed")
  /\ cfg' = [cfg EXCEPT ![r] = "nofile"]
  /\ Fault
  /\ UNCHANGED <<host, left, seen, at, applied, together, torn, rewrite, alive, natVars, clientVars>>

\* Setup of the bridge network; without it no port is published.
Setup(r) ==
  /\ \/ /\ Go(r, "setup", IF Publish[r] = <<>> THEN "save" ELSE "masquerade")
        /\ UNCHANGED boundVars
     \/ Go(r, "setup", "save") /\ Fault
  /\ UNCHANGED <<host, left, seen, at, applied, together, torn, fileVars, alive, natVars, clientVars>>

\* ensureOutboundNAT, for the first time in this process.
Masquerade(r) ==
  /\ \/ Go(r, "masquerade", "apply") /\ masq' = masq + 1 /\ UNCHANGED boundVars
     \/ Go(r, "masquerade", "save") /\ Fault /\ UNCHANGED masq
  /\ UNCHANGED <<host, left, seen, at, applied, together, torn, fileVars, alive, nat, clientVars>>

\* ApplyPortMappings: one iptables -A after the other, up to the first that
\* fails.
Apply(r) ==
  /\ pc[r] = "apply"
  /\ at[r] <= Len(Rules(r)) /\ Accepted(Rules(r)[at[r]].args)
  /\ nat' = nat (+) SetToBag({Rules(r)[at[r]]})
  /\ at'  = [at EXCEPT ![r] = @ + 1]
  /\ UNCHANGED <<host, pc, left, seen, applied, together, torn, fileVars, alive, masq, clientVars, boundVars>>

ApplyEnds(r) ==
  /\ Go(r, "apply", "save")
  /\ IF at[r] > Len(Rules(r))
     THEN applied' = [applied EXCEPT ![r] = TRUE] /\ UNCHANGED boundVars
     ELSE /\ UNCHANGED applied
          /\ IF Accepted(Rules(r)[at[r]].args) THEN Fault ELSE UNCHANGED boundVars
  /\ UNCHANGED <<host, left, seen, at, together, torn, fileVars, alive, natVars, clientVars>>

Save(r) ==
  /\ Go(r, "save", "up")
  /\ cfg' = [cfg EXCEPT ![r] = "running"]
  /\ UNCHANGED <<host, left, seen, at, applied, together, torn, rewrite, alive, natVars, clientVars, boundVars>>

\* Run returns the error; the process, its rules and the directory remain.
SaveFails(r) ==
  /\ Go(r, "save", "failed")
  /\ Fault
  /\ UNCHANGED <<host, left, seen, at, applied, together, torn, fileVars, alive, natVars, clientVars>>

RunStep(r) ==
  \/ SkipRegistry(r) \/ Load(r) \/ (\E q \in Runs : Read(r, q)) \/ Check(r)
  \/ Start(r) \/ StartFails(r) \/ Setup(r) \/ Masquerade(r)
  \/ Apply(r) \/ ApplyEnds(r) \/ Save(r) \/ SaveFails(r)

\* The invocation is killed on its way to the save.
RunCrashes(r) ==
  /\ pc[r] \in InFlight
  /\ pc' = [pc EXCEPT ![r] = "dead"]
  /\ faults + crashes < MaxMishaps /\ crashes' = crashes + 1
  /\ UNCHANGED <<host, left, seen, at, applied, together, torn, fileVars, alive, natVars, clientVars, stops, faults>>

ProcessExits(r) ==
  /\ alive[r]
  /\ alive' = [alive EXCEPT ![r] = FALSE]
  /\ UNCHANGED <<runVars, fileVars, natVars, clientVars, boundVars>>

\* saveInfo with a final status truncates config.json: a stop's, or that of the
\* run when its process has ended.
RewriteOpen(r) ==
  /\ Registered(r) /\ ~rewrite[r]
  /\ \/ ~alive[r] /\ cfg[r] = "running" /\ UNCHANGED boundVars
     \/ stops < MaxStops /\ stops' = stops + 1 /\ UNCHANGED <<faults, crashes>>
  /\ cfg'     = [cfg EXCEPT ![r] = "torn"]
  /\ rewrite' = [rewrite EXCEPT ![r] = TRUE]
  /\ UNCHANGED <<runVars, alive, natVars, clientVars>>

RewriteWrite(r) ==
  /\ rewrite[r]
  /\ rewrite' = [rewrite EXCEPT ![r] = FALSE]
  /\ cfg' = IF cfg[r] = "torn" THEN [cfg EXCEPT ![r] = "final"] ELSE cfg
  /\ UNCHANGED <<runVars, alive, natVars, clientVars, boundVars>>

-----------------------------------------------------------------------------
(* Runtime.Remove.                                                          *)

ClientGoes(k, from, to) == cpc[k] = from /\ cpc' = [cpc EXCEPT ![k] = to]

\* A container with a final status is removed; one that should be running only
\* if its process is gone, and after a save.
BeginRemove(k, r) ==
  /\ on' = [on EXCEPT ![k] = {r}]
  /\ \/ cfg[r] = "final" /\ ClientGoes(k, "idle", "rules") /\ UNCHANGED cfg
     \/ /\ cfg[r] = "running" /\ ~alive[r]
        /\ ClientGoes(k, "idle", "relabel")
        /\ cfg' = [cfg EXCEPT ![r] = "torn"]
  /\ UNCHANGED <<runVars, rewrite, alive, natVars, cat, boundVars>>

RemoveRelabel(k) ==
  \E r \in on[k] :
    /\ ClientGoes(k, "relabel", "rules")
    /\ cfg' = IF cfg[r] = "torn" THEN [cfg EXCEPT ![r] = "final"] ELSE cfg
    /\ UNCHANGED <<runVars, rewrite, alive, natVars, on, cat, boundVars>>

\* Mutant: iptables -D is repeated until it finds no such rule.
RemoveRuleRepeatedly(k) ==
  \E r \in on[k] :
    /\ cpc[k] = "rules" /\ cat[k] <= Len(Rules(r))
    /\ nat' = [rule \in BagToSet(nat) \ {Rules(r)[cat[k]]} |-> nat[rule]]
    /\ cat' = [cat EXCEPT ![k] = @ + 1]
    /\ UNCHANGED <<runVars, fileVars, alive, masq, cpc, on, boundVars>>

\* RemovePortMappings: iptables -D takes one rule that is the same, if there is
\* one; its error is dropped.
RemoveRule(k) ==
  \E r \in on[k] :
    /\ cpc[k] = "rules" /\ cat[k] <= Len(Rules(r))
    /\ cat' = [cat EXCEPT ![k] = @ + 1]
    /\ \/ nat' = nat (-) SetToBag({Rules(r)[cat[k]]}) /\ UNCHANGED boundVars
       \/ UNCHANGED nat /\ Fault
    /\ UNCHANGED <<runVars, fileVars, alive, masq, cpc, on>>

\* Mutant: the last rule of the list is forgotten.
RemoveDirEarly(k) ==
  \E r \in on[k] :
    /\ cat[k] >= Len(Rules(r))
    /\ ClientGoes(k, "rules", "end")
    /\ cfg' = [cfg EXCEPT ![r] = "nodir"]
    /\ UNCHANGED <<runVars, rewrite, alive, natVars, on, cat, boundVars>>

\* os.RemoveAll.
RemoveDir(k) ==
  \E r \in on[k] :
    /\ cat[k] > Len(Rules(r))
    /\ ClientGoes(k, "rules", "end")
    /\ cfg' = [cfg EXCEPT ![r] = "nodir"]
    /\ UNCHANGED <<runVars, rewrite, alive, natVars, on, cat, boundVars>>

-----------------------------------------------------------------------------
Init ==
  /\ host \in SUBSET HostNet
  /\ pc      = [r \in Runs |-> "new"]
  /\ cfg     = [r \in Runs |-> "nodir"]
  /\ alive   = [r \in Runs |-> FALSE]
  /\ left    = [r \in Runs |-> {}]
  /\ seen    = [r \in Runs |-> {}]
  /\ at      = [r \in Runs |-> 1]
  /\ applied = [r \in Runs |-> FALSE]
  /\ nat     = EmptyBag
  /\ masq    = 0
  /\ rewrite = [r \in Runs |-> FALSE]
  /\ cpc     = [k \in Clients |-> "idle"]
  /\ on      = [k \in Clients |-> {}]
  /\ cat     = [k \in Clients |-> 1]
  /\ together = {} /\ torn = {}
  /\ stops = 0 /\ faults = 0 /\ crashes = 0

Next ==
  \/ \E r \in Runs :
       RunStep(r) \/ RunCrashes(r) \/ ProcessExits(r) \/ RewriteOpen(r) \/ RewriteWrite(r)
  \/ \E k \in Clients, r \in Runs : BeginRemove(k, r)
  \/ \E k \in Clients : RemoveRelabel(k) \/ RemoveRule(k) \/ RemoveDir(k)

Spec == Init /\ [][Next]_vars

-----------------------------------------------------------------------------
(* Properties.                                                              *)

RegistryTypeOK ==
  /\ pc   \in [Runs -> RunPC]
  /\ cfg  \in [Runs -> ConfState]
  /\ left \in [Runs -> SUBSET Runs]
  /\ seen \in [Runs -> SUBSET Runs]
  /\ on   \in [Clients -> SUBSET Runs]

RulesTypeOK ==
  /\ applied \in [Runs -> BOOLEAN]
  /\ DOMAIN at = Runs /\ \A r \in Runs : at[r] \in 1 .. Len(Rules(r)) + 1
  /\ IsABag(nat) /\ BagToSet(nat) \subseteq AllRules
  /\ cpc \in [Clients -> {"idle", "relabel", "rules", "end"}]
  /\ cat \in [Clients -> Nat \ {0}]
  /\ \A k \in Clients : \A r, q \in on[k] : r = q
  /\ faults \in Nat

TypeOK ==
  /\ RegistryTypeOK /\ RulesTypeOK
  /\ host    \subseteq HostNet
  /\ alive   \in [Runs -> BOOLEAN]
  /\ masq    \in Nat
  /\ rewrite \in [Runs -> BOOLEAN]
  /\ together \cup torn \subseteq SUBSET Runs
  /\ stops \in Nat /\ crashes \in Nat

Conflict(r, q) ==
  \E i \in DOMAIN Publish[r], j \in DOMAIN Publish[q] :
    bindingsConflict(Publish[r][i], Publish[q][j])

\* The containers that publish: on the bridge network, saved and not removed.
Published == {r \in Runs \ host : pc[r] = "up" /\ cfg[r] # "nodir"}

\* A container keeps its host ports until it is removed: two containers publish
\* overlapping bindings only if their runs were under way together, or one run
\* read the other's config.json while it was being rewritten.
ConflictNeedsRace ==
  \A r, q \in Published : r # q /\ Conflict(r, q) => {r, q} \in together \cup torn

\* README: the port registry rejects cross-container host-port conflicts.
NoConflict == \A r, q \in Published : r # q => ~Conflict(r, q)

\* README: the port registry rejects cross-container host-port conflicts, at
\* least those with the containers of runs that were over.
LaterRunIsRejected ==
  \A r, q \in Published : r # q /\ Conflict(r, q) => {r, q} \in together

\* How often a rule is found in the places m to n of a list.
Places(rules, rule, m, n) == {i \in m .. n : rules[i] = rule}
Count(rules, rule, m, n)  == Cardinality(Places(rules, rule, m, n))

Times(rule, r) == Count(Rules(r), rule, 1, Len(Rules(r)))

Copies(bag, rule) == IF BagIn(rule, bag) THEN bag[rule] ELSE 0

\* What was removed of a container's list was installed before, and one rm removed it.
TakesItsOwn(q) ==
  /\ \A k \in Clients : q \in on[k] => cat[k] <= at[q]
  /\ \A k, l \in Clients : k # l /\ q \in on[k] \cap on[l] => cat[k] = 1 \/ cat[l] = 1

\* The rules of a container that were all installed stay installed, each as often as its
\* list has it, until its rm begins: no rm of another container takes them, even if both
\* have one address and so the same rules; only one that tries to remove more than its own
\* run installed (a list installed in part, the host's network, two rms at once).
RulesStay ==
  \A r \in Runs :
    /\ applied[r] /\ \A k \in Clients : r \notin on[k]
    /\ \A q \in Runs : IPOf[q] = IPOf[r] => TakesItsOwn(q)
    => \A rule \in ToSet(Rules(r)) : Copies(nat, rule) >= Times(rule, r)

\* README: port mappings are removed when the container is deleted with rm; so not when
\* another one is, even if their addresses agree.
RulesStayToo ==
  \A r \in Runs : applied[r] /\ (\A k \in Clients : r \notin on[k])
    => \A rule \in ToSet(Rules(r)) : Copies(nat, rule) >= Times(rule, r)

Removed(q) == pc[q] = "up" /\ cfg[q] = "nodir"

\* The places of all lists where a rule was installed.
Laid(rule) ==
  UNION {{<<q, i>> : i \in Places(Rules(q), rule, 1, at[q] - 1)} : q \in Runs}

\* As long as no command failed by itself, the rules that were installed, all or only
\* some of them, are gone once the container is removed: iptables has a rule no more often
\* than the containers that are not removed installed it.
RulesGo ==
  faults = 0 => \A rule \in AllRules :
    Copies(nat, rule) <= Cardinality({p \in Laid(rule) : ~Removed(p[1])})

\* README: outbound traffic is NATed via a one-time MASQUERADE rule.
MasqueradeOnce == masq <= 1

-----------------------------------------------------------------------------
(* The inductive invariant behind ConflictNeedsRace.                        *)

\* A run that is up has saved, whatever became of its config.json since.
UpHasSaved == \A r \in Runs : pc[r] = "up" => cfg[r] # "nofile"

\* Two runs that take part in the port registry.
Rivals(r, q) == r # q /\ {r, q} \cap host = {} /\ Conflict(r, q)

Raced(r, q) == {r, q} \in together \cup torn

\* Of two rivals that are under way, the later one found the other under way.
RivalsInFlightRaced == \A r, q \in Runs :
  Rivals(r, q) /\ pc[r] \in InFlight /\ pc[q] \in InFlight => Raced(r, q)

\* A run that loads the registry has seen each rival that publishes, or will read
\* its config.json, or they have raced; once it is past the check they have raced.
PublishersAreSeen == \A r \in Runs, q \in Published :
  Rivals(r, q) =>
    /\ pc[r] = "load" => q \in left[r] \cup seen[r] \/ Raced(r, q)
    /\ pc[r] \in InFlight \ {"load"} => Raced(r, q)

\* What the check, the save and every rm and rewrite of config.json keep true: rivals
\* that publish have raced, and why.
RegistryInv ==
  RegistryTypeOK /\ UpHasSaved /\ RivalsInFlightRaced /\ PublishersAreSeen /\ ConflictNeedsRace

-----------------------------------------------------------------------------
(* The inductive invariant behind RulesStay and RulesGo.                    *)

\* The places of a rule in the lists that an rm has not passed.
Held(rule) == {p \in Laid(rule) : \A k \in Clients : p[1] \in on[k] => cat[k] <= p[2]}

\* Only a container that was saved can be removed, so no rm of a container begins
\* while its run still installs rules.
RemovesSaved ==
  /\ \A r \in Runs : Registered(r) \/ cfg[r] = "torn" => pc[r] = "up"
  /\ \A k \in Clients : \A r \in on[k] : pc[r] = "up"
  /\ \A k \in Clients : cpc[k] \in {"idle", "relabel"} => cat[k] = 1
  /\ \A k \in Clients : cpc[k] = "idle" => on[k] = {}

AppliedIsAll == \A r \in Runs : applied[r] => at[r] > Len(Rules(r))

\* An rm has passed the whole list of a container that is removed.
RemovedIsPassed == \A q \in Runs :
  Removed(q) => \E k \in Clients : q \in on[k] /\ cat[k] > Len(Rules(q))

LaidIsFinite == \A rule \in AllRules : IsFiniteSet(Laid(rule))

\* A rule is there at least as often as lists hold it, unless an rm tried to remove more
\* than was installed...
NoneIsMissing == \A rule \in AllRules :
  (\A q \in Runs : rule \in ToSet(Rules(q)) => TakesItsOwn(q))
    => Copies(nat, rule) >= Cardinality(Held(rule))

\* ... and never more often, whatever several rms of one container have taken.
NoneInExcess == faults = 0 =>
  \A rule \in AllRules : Copies(nat, rule) <= Cardinality(Held(rule))

RulesInv ==
  /\ TypeOK /\ RemovesSaved /\ AppliedIsAll /\ RemovedIsPassed
  /\ LaidIsFinite /\ NoneIsMissing /\ NoneInExcess
=============================================================================
