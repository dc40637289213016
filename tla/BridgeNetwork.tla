---------------------------- MODULE BridgeNetwork ----------------------------
(***************************************************************************)
(* network.Manager (internal/network/network.go): Setup and Teardown as    *)
(* the ip commands they run one by one, against one network namespace of    *)
(* the host that every invocation shares. Each container's namespace goes  *)
(* when its process is gone, and takes its end of the veth pair, and so the *)
(* pair, with it.                                                          *)
(***************************************************************************)
EXTENDS Naturals, FiniteSets

CONSTANTS
  Runs,        \* the runs on the bridge network, one container each
  VethOf,      \* hostVethName of each container
  MaxMishaps   \* bound on ip commands that fail for no reason of this model and
               \* invocations killed from outside, together

ASSUME NetworkAssumption ==
  /\ {"none", "host"} \cap Runs = {}
  /\ MaxMishaps \in Nat

VARIABLES
  hostEth0, \* the host has an interface called eth0 of its own
  pc,     \* where each run is in Setup
  alive,  \* the container's process, and with it its namespace, exists
  bridge, \* minidocker0
  pair,   \* the veth pair each run added: where its peer, eth0, is
  master, \* the host ends attached to the bridge
  hostUp, \* the host ends that are up
  config, \* what is set in each container's namespace
  result, \* what Setup returned
  blamed, \* history: the runs whose Setup has an excuse to fail
  robbed, \* history: the runs whose link a command of another one moved or deleted
  faults, crashes

linkVars == <<bridge, pair, master, hostUp, config>>
vars == <<hostEth0, pc, alive, linkVars, result, blamed, robbed, faults, crashes>>

\* The peer of a pair is nowhere, in the host's namespace or in a container's.
Places == {"none", "host"} \cup Runs
Bridge == {"absent", "added", "addressed", "up"}
Config == {"lo", "eth0", "addr", "route"}

SetupPC == {"new", "show", "addBridge", "addrBridge", "upBridge", "addVeth", "move",
            "delVeth", "attach", "upVeth", "lo", "eth0", "addr", "route", "ok", "end", "dead"}

InSetup(r) == pc[r] \notin {"new", "end", "dead"}

\* The pair, if any, whose host end has a name; names are unique in a namespace.
PairNamed(name) == {q \in Runs : pair[q] # "none" /\ VethOf[q] = name}

\* The pair, if any, whose peer is the eth0 of a place.
Eth0In(place) == {q \in Runs : pair[q] = place}

HasLinkNamed(q, name) == VethOf[q] = name /\ pair[q] \in Runs

\* A command of r moves or deletes these pairs.
Take(r, pairs) == robbed' = robbed \cup (pairs \ {r})

-----------------------------------------------------------------------------
\* Setup's commands: each succeeds under a condition of the host, or Setup
\* returns an error.

Step(r, from) == pc[r] = from /\ UNCHANGED <<hostEth0, crashes>>

Then(r, to) == pc' = [pc EXCEPT ![r] = to] /\ UNCHANGED <<alive, result>>

Return(r, value) ==
  /\ pc' = [pc EXCEPT ![r] = "end"]
  /\ result' = [result EXCEPT ![r] = value]
  /\ UNCHANGED alive

\* A command that fails without a cause in the model excuses some runs.
Fault(excused) ==
  /\ faults + crashes < MaxMishaps /\ faults' = faults + 1
  /\ blamed' = blamed \cup excused

NoFault == UNCHANGED <<faults, blamed>>

\* The command does its work when ok, and may fail anyway.
Command(r, ok, work, next) ==
  /\ UNCHANGED robbed
  /\ \/ ok /\ work /\ Then(r, next) /\ NoFault
     \/ ~ok /\ UNCHANGED linkVars /\ Return(r, "error") /\ NoFault
     \/ ok /\ UNCHANGED linkVars /\ Return(r, "error") /\ Fault({r})

\* The process is started; Setup begins. Runs whose Setups overlap can be in
\* each other's way, and so is a container connected under the same name.
Begin(r) ==
  /\ Step(r, "new")
  /\ pc'     = [pc EXCEPT ![r] = "show"]
  /\ alive'  = [alive EXCEPT ![r] = TRUE]
  /\ blamed' = blamed \cup {q \in Runs : InSetup(q)}
                     \cup {q \in {r} : \E p \in Runs : InSetup(p) \/ HasLinkNamed(p, VethOf[r])}
  /\ UNCHANGED <<linkVars, result, robbed, faults>>

\* ensureBridge: an existing bridge is taken as it is.
ShowBridge(r) ==
  /\ Step(r, "show")
  /\ Then(r, IF bridge = "absent" THEN "addBridge" ELSE "addVeth")
  /\ UNCHANGED <<linkVars, robbed>> /\ NoFault

AddBridge(r) ==
  /\ Step(r, "addBridge")
  /\ Command(r, bridge = "absent",
             bridge' = "added" /\ UNCHANGED <<pair, master, hostUp, config>>, "addrBridge")

\* Mutant: the bridge gets its address but is left down.
AddrBridgeLeavesDown(r) ==
  /\ Step(r, "addrBridge")
  /\ Command(r, bridge = "added",
             bridge' = "addressed" /\ UNCHANGED <<pair, master, hostUp, config>>, "addVeth")

AddrBridge(r) ==
  /\ Step(r, "addrBridge")
  /\ Command(r, bridge = "added",
             bridge' = "addressed" /\ UNCHANGED <<pair, master, hostUp, config>>, "upBridge")

UpBridge(r) ==
  /\ Step(r, "upBridge")
  /\ Command(r, TRUE, bridge' = "up" /\ UNCHANGED <<pair, master, hostUp, config>>, "addVeth")

\* ip link add makes both ends in the host's namespace, where each name must be
\* free.
AddVeth(r) ==
  /\ Step(r, "addVeth")
  /\ Command(r, PairNamed(VethOf[r]) = {} /\ Eth0In("host") = {} /\ ~hostEth0,
             pair' = [pair EXCEPT ![r] = "host"] /\ UNCHANGED <<bridge, master, hostUp, config>>,
             "move")

\* ip link set eth0 netns: whichever pair eth0 belongs to. Its failure has a
\* cleanup of its own.
MovePeer(r) ==
  /\ Eth0In("host") # {} /\ alive[r]
  /\ pair' = [q \in Runs |-> IF pair[q] = "host" THEN r ELSE pair[q]]
  /\ Take(r, Eth0In("host"))
  /\ UNCHANGED <<bridge, master, hostUp, config>>
  /\ Then(r, "attach") /\ NoFault

MoveFails(r) ==
  /\ \/ (Eth0In("host") = {} \/ ~alive[r]) /\ NoFault
     \/ Fault({r})
  /\ UNCHANGED <<linkVars, robbed>>

\* Mutant: a move that failed is taken for done.
MoveErrorIgnored(r) ==
  /\ Step(r, "move")
  /\ MovePeer(r) \/ (MoveFails(r) /\ Then(r, "attach"))

MoveEth0(r) ==
  /\ Step(r, "move")
  /\ MovePeer(r) \/ (MoveFails(r) /\ Then(r, "delVeth"))

\* ip link del of a host end takes the pair.
Delete(r, pairs) ==
  /\ Take(r, pairs)
  /\ pair'   = [q \in Runs |-> IF q \in pairs THEN "none" ELSE pair[q]]
  /\ master' = master \ pairs
  /\ hostUp' = hostUp \ pairs
  /\ UNCHANGED <<bridge, config>>

\* Mutant: the failed Setup leaves its pair behind.
DelVethForgotten(r) ==
  /\ Step(r, "delVeth")
  /\ UNCHANGED <<linkVars, robbed>>
  /\ Return(r, "error") /\ NoFault

\* If it fails the pair stays, and with it the host's eth0: that excuses everyone.
DelVeth(r) ==
  /\ Step(r, "delVeth")
  /\ \/ Delete(r, PairNamed(VethOf[r])) /\ NoFault
     \/ UNCHANGED <<linkVars, robbed>> /\ Fault(Runs)
  /\ Return(r, "error")

Attach(r) ==
  /\ Step(r, "attach")
  /\ Command(r, PairNamed(VethOf[r]) # {} /\ bridge # "absent",
             master' = master \cup PairNamed(VethOf[r]) /\ UNCHANGED <<bridge, pair, hostUp, config>>,
             "upVeth")

\* Mutant: the host end stays down.
UpVethForgotten(r) ==
  /\ Step(r, "upVeth")
  /\ Command(r, PairNamed(VethOf[r]) # {}, UNCHANGED linkVars, "lo")

UpVeth(r) ==
  /\ Step(r, "upVeth")
  /\ Command(r, PairNamed(VethOf[r]) # {},
             hostUp' = hostUp \cup PairNamed(VethOf[r]) /\ UNCHANGED <<bridge, pair, master, config>>,
             "lo")

\* The four commands inside the container's namespace; the route needs the
\* address on a device that is up.
Configure(r, what, ok, next) ==
  /\ Step(r, what)
  /\ Command(r, alive[r] /\ ok,
             config' = [config EXCEPT ![r] = @ \cup {what}] /\ UNCHANGED <<bridge, pair, master, hostUp>>,
             next)

SetLo(r)    == Configure(r, "lo", TRUE, "eth0")
SetEth0(r)  == Configure(r, "eth0", Eth0In(r) # {}, "addr")
AddAddr(r)  == Configure(r, "addr", Eth0In(r) # {}, "route")
AddRoute(r) == Configure(r, "route", Eth0In(r) # {} /\ {"eth0", "addr"} \subseteq config[r], "ok")

\* Setup returns the address.
Succeed(r) ==
  /\ Step(r, "ok")
  /\ Return(r, "ip")
  /\ UNCHANGED <<linkVars, robbed>> /\ NoFault

SetupStep(r) ==
  \/ Begin(r) \/ ShowBridge(r) \/ AddBridge(r) \/ AddrBridge(r) \/ UpBridge(r)
  \/ AddVeth(r) \/ MoveEth0(r) \/ DelVeth(r) \/ Attach(r) \/ UpVeth(r)
  \/ SetLo(r) \/ SetEth0(r) \/ AddAddr(r) \/ AddRoute(r) \/ Succeed(r)

-----------------------------------------------------------------------------
\* The process ends; its namespace goes with every pair that has an end in it.
\* That excuses its own Setup.
ProcessExits(r) ==
  /\ alive[r]
  /\ alive'  = [alive EXCEPT ![r] = FALSE]
  /\ Delete(r, Eth0In(r))
  /\ blamed' = blamed \cup {r}
  /\ UNCHANGED <<hostEth0, pc, result, faults, crashes>>

\* Teardown, by an rm, which may come before a stopped process ends: ip link del
\* of the name, if there is one.
Teardown(r) ==
  /\ pc[r] = "end" /\ result[r] # "removed"
  /\ result' = [result EXCEPT ![r] = "removed"]
  /\ Delete(r, PairNamed(VethOf[r]))
  /\ UNCHANGED <<hostEth0, pc, alive, blamed, faults, crashes>>

\* The invocation is killed inside Setup; no later run has an excuse of its own.
RunCrashes(r) ==
  /\ InSetup(r)
  /\ faults + crashes < MaxMishaps /\ crashes' = crashes + 1
  /\ pc' = [pc EXCEPT ![r] = "dead"]
  /\ UNCHANGED <<hostEth0, alive, linkVars, result, blamed, robbed, faults>>

Init ==
  /\ hostEth0 \in BOOLEAN
  /\ pc     = [r \in Runs |-> "new"]
  /\ alive  = [r \in Runs |-> FALSE]
  /\ bridge = "absent"
  /\ pair   = [r \in Runs |-> "none"]
  /\ master = {}
  /\ hostUp = {}
  /\ config = [r \in Runs |-> {}]
  /\ result = [r \in Runs |-> "none"]
  /\ blamed = {}
  /\ robbed = {}
  /\ faults = 0
  /\ crashes = 0

Next == \E r \in Runs : SetupStep(r) \/ ProcessExits(r) \/ Teardown(r) \/ RunCrashes(r)

Spec == Init /\ [][Next]_vars

\* A run that is in Setup goes on.
FairSpec == Spec /\ \A r \in Runs : WF_vars(SetupStep(r))

-----------------------------------------------------------------------------
(* Properties.                                                              *)

TypeOK ==
  /\ hostEth0 \in BOOLEAN
  /\ pc     \in [Runs -> SetupPC]
  /\ alive  \in [Runs -> BOOLEAN]
  /\ bridge \in Bridge
  /\ pair   \in [Runs -> Places]
  /\ master \cup hostUp \subseteq {q \in Runs : pair[q] # "none"}
  /\ config \in [Runs -> SUBSET Config]
  /\ result \in [Runs -> {"none", "ip", "error", "removed"}]
  /\ blamed \subseteq Runs /\ robbed \subseteq Runs
  /\ faults \in Nat /\ crashes \in Nat /\ faults + crashes <= MaxMishaps

\* A container Setup returned an address for is connected until its process ends
\* or its own rm, unless a command of another one took its link; and no Setup, no
\* cleanup of a Setup and no end of a process ever does that: only after an rm (Teardown)
\* of a container that has the link name of another one.
Connected(r) ==
  /\ config[r] = Config
  /\ \E q \in Eth0In(r) : q \in master \cap hostUp

TakenOnlyByRm ==
  robbed # {} => \E r, q \in Runs : r # q /\ VethOf[r] = VethOf[q] /\ result[q] = "removed"

StaysConnected ==
  /\ \A r \in Runs : result[r] = "ip" /\ alive[r] => Connected(r) \/ r \in robbed
  /\ TakenOnlyByRm

\* README: each container receives an address on the host's bridge; and it keeps the
\* link, also when another container with the same link name is removed.
StaysConnectedToo == \A r \in Runs : result[r] = "ip" /\ alive[r] => Connected(r)

\* On a host without an eth0, and as long as no run was killed in Setup, it fails
\* for a reason: a command failed, its process ended, another Setup overlapped, a container
\* was connected under the same link name, or an rm took the link. What earlier runs left
\* behind is no reason, unless their cleanup failed.
FailureHasReason ==
  ~hostEth0 /\ crashes = 0 =>
    \A r \in Runs : result[r] = "error" => r \in blamed \cup robbed

\* If no command failed by itself, a pair whose Setup is over has its peer in a living
\* container, its own unless it was taken: none is left over when the process is gone,
\* wherever in Setup it ended, and none stays in the host's namespace.
NoPairLeft ==
  faults = 0 => \A r \in Runs : pc[r] = "end" /\ pair[r] # "none" =>
    \E q \in Runs : pair[r] = q /\ alive[q] /\ (q = r \/ r \in robbed)

\* Even if the first runs race to make it, the bridge is up some time after a
\* Setup succeeded, unless the run that made it was killed or a command failed.
BridgeGetsReady ==
  (\E r \in Runs : result[r] = "ip") ~> bridge = "up" \/ faults > 0 \/ crashes > 0

\* README: the bridge minidocker0 has its address; so it has when a container
\* was connected to it.
BridgeIsReady == \A r \in Runs : result[r] = "ip" => bridge \in {"addressed", "up"}

-----------------------------------------------------------------------------
(* The inductive invariant behind StaysConnected, NoPairLeft and             *)
(* FailureHasReason.                                                       *)

\* Of the containers with one link name only one has a link.
OneHasTheName == \A r, q \in Runs :
  VethOf[r] = VethOf[q] /\ pair[r] # "none" /\ pair[q] # "none" => r = q

\* The peer of a pair is where its run put it, unless it was taken, and in a living
\* container if in one.
PairIsOwn == \A r \in Runs :
  /\ pair[r] \in {"none", "host", r} \/ r \in robbed
  /\ pair[r] \in Runs => alive[pair[r]]

\* Only one interface of the host is called eth0, and who is about to move or delete it
\* made it.
Eth0IsOwn ==
  /\ \A r, q \in Runs : pair[r] = "host" /\ pair[q] = "host" => r = q
  /\ \A r \in Runs \ robbed : pc[r] \in {"move", "delVeth"} => pair[r] = "host"

\* What the commands have done that Setup has past.
Linked     == {"attach", "upVeth", "lo", "eth0", "addr", "route", "ok"}
CommandsDone(r) ==
  /\ pc[r] \in Linked => pair[r] = r
  /\ pc[r] \in Linked \ {"attach"} => r \in master
  /\ pc[r] \in Linked \ {"attach", "upVeth"} => r \in hostUp
  /\ pc[r] \in {"eth0", "addr", "route", "ok"} => "lo" \in config[r]
  /\ pc[r] \in {"addr", "route", "ok"} => "eth0" \in config[r]
  /\ pc[r] \in {"route", "ok"} => "addr" \in config[r]
  /\ pc[r] = "ok" => "route" \in config[r]
  /\ result[r] = "ip" => pair[r] = r /\ r \in master \cap hostUp /\ config[r] = Config

\* A process lives once Setup has begun, until it ends; a result is that of a Setup
\* that is over; and an early or a failed one holds no pair.
SetupIsKnown == \A r \in Runs :
  /\ pc[r] = "new" => ~alive[r]
  /\ result[r] # "none" => pc[r] = "end"
  /\ pc[r] \in {"new", "show", "addBridge", "addrBridge", "upBridge", "addVeth"} => pair[r] = "none"

\* If no command failed by itself, a run past the move has no pair in the host's
\* namespace.
PairIsReclaimed == faults = 0 =>
  \A r \in Runs : pc[r] \in Linked \cup {"end"} => pair[r] # "host"

\* If no run was killed, a pair whose peer is still in the host's namespace belongs
\* to a Setup that is about to move or delete it, or its deletion failed.
HostPairHasOwner == crashes = 0 =>
  \A r \in Runs : pair[r] = "host" => pc[r] \in {"move", "delVeth"} \/ Runs \subseteq blamed

\* A Setup without an excuse to fail has a living process, no other Setup beside
\* it, a name nobody is connected under, and the bridge as its own commands made or found it.
GoesWell(r) ==
  /\ alive[r] /\ pc[r] # "delVeth"
  /\ \A q \in Runs : InSetup(q) => q = r
  /\ \A q \in Runs : VethOf[q] = VethOf[r] /\ pair[q] # "none" => q = r
  /\ pc[r] = "addBridge" => bridge = "absent"
  /\ pc[r] = "addrBridge" => bridge = "added"
  /\ pc[r] \in {"upBridge", "addVeth", "move"} \cup Linked => bridge # "absent"

BlamelessGoesWell == ~hostEth0 /\ crashes = 0 =>
  \A r \in Runs \ (blamed \cup robbed) : InSetup(r) => GoesWell(r)

\* What every command of Setup and Teardown and the end of a process keep true: a
\* living container's pair is its own and as far set up as its Setup has come, unless
\* another container's command took it.
BridgeInv ==
  /\ TypeOK /\ OneHasTheName /\ PairIsOwn /\ Eth0IsOwn /\ SetupIsKnown
  /\ \A r \in Runs \ robbed : alive[r] => CommandsDone(r)
  /\ StaysConnected /\ PairIsReclaimed
  /\ HostPairHasOwner /\ BlamelessGoesWell /\ FailureHasReason
=============================================================================
