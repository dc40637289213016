------------------------- MODULE BridgeNetworkProofs -------------------------
(***************************************************************************)
(* Theorems about BridgeNetwork, for any number of runs, failing commands   *)
(* and killed invocations, and for any names of the containers' links, also *)
(* names that several of them share.                                       *)
(***************************************************************************)
EXTENDS BridgeNetwork, TLAPS

LEMMA BridgeInit == ASSUME Init PROVE BridgeInv
BY NetworkAssumption DEF NetworkAssumption, Init, BridgeInv, TypeOK, SetupPC, Places, Bridge, Config,
  OneHasTheName, PairIsOwn, Eth0IsOwn, SetupIsKnown, CommandsDone, Linked, StaysConnected, TakenOnlyByRm,
  PairIsReclaimed, HostPairHasOwner, BlamelessGoesWell, FailureHasReason, InSetup

LinkTypes ==
  /\ bridge \in Bridge
  /\ pair   \in [Runs -> Places]
  /\ master \cup hostUp \subseteq {q \in Runs : pair[q] # "none"}
  /\ config \in [Runs -> SUBSET Config]
  /\ robbed \subseteq Runs

\* Nothing stays attached or up that has no link any more.
LEMMA DeleteTypes == ASSUME TypeOK, NEW r, NEW pairs \in SUBSET Runs, Delete(r, pairs) PROVE LinkTypes'
BY DEF TypeOK, Delete, Take, LinkTypes, Places

LEMMA TypeStep == ASSUME TypeOK, [Next]_vars PROVE TypeOK'
<1> USE NetworkAssumption DEF NetworkAssumption, TypeOK, SetupPC, Places, Bridge, Config, linkVars,
      Step, Then, Return, Fault, NoFault, Command
<1>1. ASSUME NEW r \in Runs, Begin(r) PROVE TypeOK'
  BY <1>1 DEF Begin
<1>2. ASSUME NEW r \in Runs, ShowBridge(r) \/ AddBridge(r) \/ AddrBridge(r) \/ UpBridge(r) PROVE TypeOK'
  BY <1>2 DEF ShowBridge, AddBridge, AddrBridge, UpBridge
<1>3. ASSUME NEW r \in Runs, AddVeth(r) PROVE TypeOK'
  BY <1>3 DEF AddVeth
<1>4. ASSUME NEW r \in Runs, MoveEth0(r) PROVE TypeOK'
  <2>1. CASE MoveFails(r) /\ Then(r, "delVeth")
    BY <1>4, <2>1 DEF MoveEth0, MoveFails
  <2>2. CASE MovePeer(r)
    BY <1>4, <2>2 DEF MoveEth0, MovePeer, Take, Eth0In
  <2> QED
    BY <1>4, <2>1, <2>2 DEF MoveEth0, MovePeer, MoveFails, Take
<1>5. ASSUME NEW r \in Runs, DelVeth(r) PROVE TypeOK'
  BY <1>5 DEF DelVeth, Delete, Take, PairNamed
<1>6. ASSUME NEW r \in Runs, Attach(r) PROVE TypeOK'
  BY <1>6 DEF Attach, PairNamed
<1>7. ASSUME NEW r \in Runs, UpVeth(r) PROVE TypeOK'
  BY <1>7 DEF UpVeth, PairNamed
<1>8. ASSUME NEW r \in Runs, SetLo(r) \/ SetEth0(r) \/ AddAddr(r) \/ AddRoute(r) PROVE TypeOK'
  BY <1>8 DEF SetLo, SetEth0, AddAddr, AddRoute, Configure
<1>9. ASSUME NEW r \in Runs, Succeed(r) PROVE TypeOK'
  BY <1>9 DEF Succeed
<1>10. ASSUME NEW r \in Runs, ProcessExits(r) \/ Teardown(r) PROVE TypeOK'
  <2>1. LinkTypes'
    BY <1>10, DeleteTypes DEF ProcessExits, Teardown, Eth0In, PairNamed
  <2>2. CASE ProcessExits(r)
    BY <2>1, <2>2 DEF ProcessExits, LinkTypes
  <2>3. CASE Teardown(r)
    BY <2>1, <2>3 DEF Teardown, LinkTypes
  <2> QED
    BY <1>10, <2>2, <2>3
<1>11. ASSUME NEW r \in Runs, RunCrashes(r) PROVE TypeOK'
  BY <1>11 DEF RunCrashes
<1>12. CASE UNCHANGED vars
  BY <1>12 DEF vars
<1> QED
  BY <1>1, <1>2, <1>3, <1>4, <1>5, <1>6, <1>7, <1>8, <1>9, <1>10, <1>11, <1>12 DEF Next, SetupStep

\* Only an rm takes a link of another container: a Setup moves and deletes its own, and
\* what goes with a process is its own, unless an rm came before.
LEMMA RobStep == ASSUME BridgeInv, [Next]_vars PROVE TakenOnlyByRm' /\ robbed \subseteq robbed'
<1> DEFINE Goal == TakenOnlyByRm' /\ robbed \subseteq robbed'
<1> USE DEF BridgeInv, TypeOK, OneHasTheName, PairIsOwn, Eth0IsOwn, SetupIsKnown, StaysConnected,
      TakenOnlyByRm, Step, Then, Return, Command
<1>1. ASSUME NEW r \in Runs, Begin(r) \/ Succeed(r) \/ RunCrashes(r) PROVE Goal
  BY <1>1 DEF Begin, Succeed, RunCrashes
<1>2. ASSUME NEW r \in Runs, ShowBridge(r) \/ AddBridge(r) \/ AddrBridge(r) \/ UpBridge(r) \/ AddVeth(r)
      PROVE Goal
  BY <1>2 DEF ShowBridge, AddBridge, AddrBridge, UpBridge, AddVeth
<1>3. ASSUME NEW r \in Runs, MoveEth0(r) PROVE Goal
  <2>1. UNCHANGED result /\ (robbed' = robbed \/ robbed' = robbed \cup (Eth0In("host") \ {r}))
    BY <1>3 DEF MoveEth0, MovePeer, MoveFails, Take
  <2>2. r \in robbed \/ Eth0In("host") \subseteq {r}
    BY <1>3 DEF MoveEth0, Eth0In
  <2> QED
    BY <2>1, <2>2
<1>4. ASSUME NEW r \in Runs, DelVeth(r) PROVE Goal
  <2>1. robbed' = robbed \/ robbed' = robbed \cup (PairNamed(VethOf[r]) \ {r})
    BY <1>4 DEF DelVeth, Delete, Take
  <2>2. r \in robbed \/ PairNamed(VethOf[r]) \subseteq {r}
    BY <1>4 DEF DelVeth, PairNamed
  <2>3. \A q \in Runs : result[q] = "removed" => result'[q] = "removed"
    BY <1>4 DEF DelVeth
  <2> QED
    BY <2>1, <2>2, <2>3
<1>5. ASSUME NEW r \in Runs, Attach(r) \/ UpVeth(r) PROVE Goal
  BY <1>5 DEF Attach, UpVeth
<1>6. ASSUME NEW r \in Runs, SetLo(r) \/ SetEth0(r) \/ AddAddr(r) \/ AddRoute(r) PROVE Goal
  BY <1>6 DEF SetLo, SetEth0, AddAddr, AddRoute, Configure
<1>7. ASSUME NEW r \in Runs, ProcessExits(r) PROVE Goal
  BY <1>7, NetworkAssumption DEF NetworkAssumption, ProcessExits, Delete, Take, Eth0In
<1>8. ASSUME NEW r \in Runs, Teardown(r) PROVE Goal
  BY <1>8 DEF Teardown, Delete, Take, PairNamed
<1>9. CASE UNCHANGED vars
  BY <1>9 DEF vars
<1> QED
  BY <1>1, <1>2, <1>3, <1>4, <1>5, <1>6, <1>7, <1>8, <1>9 DEF Next, SetupStep

\* Where the peers are: each pair's in the place of its own run, unless it was taken.
LEMMA PairStep ==
  ASSUME BridgeInv, [Next]_vars PROVE OneHasTheName' /\ PairIsOwn' /\ Eth0IsOwn' /\ SetupIsKnown'
<1> DEFINE Goal == OneHasTheName' /\ PairIsOwn' /\ Eth0IsOwn' /\ SetupIsKnown'
<1> USE RobStep, NetworkAssumption DEF NetworkAssumption, BridgeInv, TypeOK, SetupPC, OneHasTheName, PairIsOwn,
      Eth0IsOwn, SetupIsKnown, linkVars, Step, Then, Return, Command
<1>1. ASSUME NEW r \in Runs, Begin(r) PROVE Goal
  BY <1>1 DEF Begin
<1>2. ASSUME NEW r \in Runs, ShowBridge(r) \/ AddBridge(r) \/ AddrBridge(r) \/ UpBridge(r) PROVE Goal
  BY <1>2 DEF ShowBridge, AddBridge, AddrBridge, UpBridge
<1>3. ASSUME NEW r \in Runs, AddVeth(r) PROVE Goal
  BY <1>3 DEF AddVeth, Eth0In, PairNamed
<1>4. ASSUME NEW r \in Runs, MoveEth0(r) PROVE Goal
  BY <1>4 DEF MoveEth0, MovePeer, MoveFails, Take, Eth0In
<1>5. ASSUME NEW r \in Runs, DelVeth(r) PROVE Goal
  BY <1>5 DEF DelVeth, Delete, Take, PairNamed
<1>6. ASSUME NEW r \in Runs, Attach(r) \/ UpVeth(r) PROVE Goal
  BY <1>6 DEF Attach, UpVeth
<1>7. ASSUME NEW r \in Runs, SetLo(r) \/ SetEth0(r) \/ AddAddr(r) \/ AddRoute(r) PROVE Goal
  <2>1. UNCHANGED <<pair, alive>> /\ pc[r] \in Linked
    BY <1>7 DEF SetLo, SetEth0, AddAddr, AddRoute, Configure, Linked
  <2>2. \/ \E to \in {"eth0", "addr", "route", "ok"} : pc' = [pc EXCEPT ![r] = to] /\ UNCHANGED result
        \/ pc' = [pc EXCEPT ![r] = "end"] /\ result' = [result EXCEPT ![r] = "error"]
    BY <1>7 DEF SetLo, SetEth0, AddAddr, AddRoute, Configure
  <2> QED
    BY <2>1, <2>2 DEF Linked
<1>8. ASSUME NEW r \in Runs, Succeed(r) \/ RunCrashes(r) PROVE Goal
  BY <1>8 DEF Succeed, RunCrashes, InSetup
<1>9. ASSUME NEW r \in Runs, ProcessExits(r) PROVE Goal
  BY <1>9 DEF ProcessExits, Delete, Take, Eth0In
<1>10. ASSUME NEW r \in Runs, Teardown(r) PROVE Goal
  BY <1>10 DEF Teardown, Delete, Take, PairNamed
<1>11. CASE UNCHANGED vars
  BY <1>11 DEF vars
<1> QED
  BY <1>1, <1>2, <1>3, <1>4, <1>5, <1>6, <1>7, <1>8, <1>9, <1>10, <1>11 DEF Next, SetupStep

\* What Setup's commands have done is not undone while the process lives: only the
\* container's own Setup, its own rm and the end of its process take its link.
LEMMA CommandsStep ==
  ASSUME BridgeInv, [Next]_vars
  PROVE  (\A r \in Runs \ robbed : alive[r] => CommandsDone(r))'
<1> DEFINE Goal == (\A q \in Runs \ robbed : alive[q] => CommandsDone(q))'
<1> USE NetworkAssumption DEF NetworkAssumption, BridgeInv, TypeOK, SetupPC, OneHasTheName, PairIsOwn,
      Eth0IsOwn, SetupIsKnown, linkVars, Step, Then, Return, Command, CommandsDone, Linked
<1>1. ASSUME NEW r \in Runs, Begin(r) PROVE Goal
  BY <1>1 DEF Begin
<1>2. ASSUME NEW r \in Runs, ShowBridge(r) \/ AddBridge(r) \/ AddrBridge(r) \/ UpBridge(r) PROVE Goal
  BY <1>2 DEF ShowBridge, AddBridge, AddrBridge, UpBridge
<1>3. ASSUME NEW r \in Runs, AddVeth(r) PROVE Goal
  BY <1>3 DEF AddVeth
<1>4. ASSUME NEW r \in Runs, MoveEth0(r) PROVE Goal
  BY <1>4 DEF MoveEth0, MovePeer, MoveFails, Take
<1>5. ASSUME NEW r \in Runs, DelVeth(r) PROVE Goal
  BY <1>5 DEF DelVeth, Delete, Take, PairNamed
<1>6. ASSUME NEW r \in Runs, Attach(r) PROVE Goal
  BY <1>6 DEF Attach, PairNamed
<1>7. ASSUME NEW r \in Runs, UpVeth(r) PROVE Goal
  BY <1>7 DEF UpVeth, PairNamed
<1>8. ASSUME NEW r \in Runs, SetLo(r) \/ SetEth0(r) \/ AddAddr(r) \/ AddRoute(r) PROVE Goal
  BY <1>8 DEF SetLo, SetEth0, AddAddr, AddRoute, Configure
<1>9. ASSUME NEW r \in Runs, Succeed(r) PROVE Goal
  BY <1>9 DEF Succeed, Config
<1>10. ASSUME NEW r \in Runs, RunCrashes(r) PROVE Goal
  BY <1>10 DEF RunCrashes, InSetup
<1>11. ASSUME NEW r \in Runs, ProcessExits(r) PROVE Goal
  BY <1>11 DEF ProcessExits, Delete, Take
<1>12. ASSUME NEW r \in Runs, Teardown(r) PROVE Goal
  BY <1>12 DEF Teardown, Delete, Take, PairNamed
<1>13. CASE UNCHANGED vars
  BY <1>13 DEF vars
<1> QED
  BY <1>1, <1>2, <1>3, <1>4, <1>5, <1>6, <1>7, <1>8, <1>9, <1>10, <1>11, <1>12, <1>13 DEF Next, SetupStep

\* A result is only given when all of it is done, so who has it is connected.
LEMMA ConnectedStep == ASSUME BridgeInv, [Next]_vars PROVE StaysConnected'
<1>1. TypeOK' /\ TakenOnlyByRm' /\ (\A r \in Runs \ robbed : alive[r] => CommandsDone(r))'
  BY TypeStep, RobStep, CommandsStep DEF BridgeInv
<1> QED
  BY <1>1 DEF StaysConnected, CommandsDone, Connected, Eth0In, TypeOK

LEMMA ReclaimStep ==
  ASSUME BridgeInv, [Next]_vars PROVE PairIsReclaimed'
<1> USE NetworkAssumption DEF NetworkAssumption, BridgeInv, TypeOK, SetupPC, Eth0IsOwn, SetupIsKnown,
      linkVars, Step, Then, Return, Command, Fault, NoFault, Linked, PairIsReclaimed
<1>1. ASSUME NEW r \in Runs, Begin(r) PROVE PairIsReclaimed'
  BY <1>1 DEF Begin
<1>2. ASSUME NEW r \in Runs, ShowBridge(r) \/ AddBridge(r) \/ AddrBridge(r) \/ UpBridge(r)
      PROVE PairIsReclaimed'
  BY <1>2 DEF ShowBridge, AddBridge, AddrBridge, UpBridge
<1>3. ASSUME NEW r \in Runs, AddVeth(r) PROVE PairIsReclaimed'
  BY <1>3 DEF AddVeth
<1>4. ASSUME NEW r \in Runs, MoveEth0(r) PROVE PairIsReclaimed'
  BY <1>4 DEF MoveEth0, MovePeer, MoveFails, Take
<1>5. ASSUME NEW r \in Runs, DelVeth(r) PROVE PairIsReclaimed'
  BY <1>5 DEF DelVeth, Delete, Take, PairNamed
<1>6. ASSUME NEW r \in Runs, Attach(r) \/ UpVeth(r) PROVE PairIsReclaimed'
  BY <1>6 DEF Attach, UpVeth
<1>7. ASSUME NEW r \in Runs, SetLo(r) \/ SetEth0(r) \/ AddAddr(r) \/ AddRoute(r) PROVE PairIsReclaimed'
  BY <1>7 DEF SetLo, SetEth0, AddAddr, AddRoute, Configure
<1>8. ASSUME NEW r \in Runs, Succeed(r) \/ RunCrashes(r) PROVE PairIsReclaimed'
  BY <1>8 DEF Succeed, RunCrashes
<1>9. ASSUME NEW r \in Runs, ProcessExits(r) \/ Teardown(r) PROVE PairIsReclaimed'
  BY <1>9 DEF ProcessExits, Teardown, Delete, Take, Eth0In, PairNamed
<1>10. CASE UNCHANGED vars
  BY <1>10 DEF vars
<1> QED
  BY <1>1, <1>2, <1>3, <1>4, <1>5, <1>6, <1>7, <1>8, <1>9, <1>10 DEF Next, SetupStep

\* A Setup fails only where a command finds what is not as Setup left it, or fails by
\* itself: the first needs another Setup, an ended process or a pair left behind.
LEMMA ReasonStep ==
  ASSUME BridgeInv, [Next]_vars
  PROVE  HostPairHasOwner' /\ BlamelessGoesWell' /\ FailureHasReason'
<1> DEFINE Goal == HostPairHasOwner' /\ BlamelessGoesWell' /\ FailureHasReason'
<1> USE NetworkAssumption DEF NetworkAssumption, BridgeInv, TypeOK, SetupPC, Bridge, OneHasTheName, PairIsOwn,
      Eth0IsOwn, SetupIsKnown, linkVars, Step, Then, Return, Fault, NoFault, Command, InSetup, Linked, HostPairHasOwner, GoesWell,
      BlamelessGoesWell, FailureHasReason
<1>1. ASSUME NEW r \in Runs, Begin(r) PROVE Goal
  <2> USE <1>1 DEF Begin
  <2>1. HostPairHasOwner' /\ FailureHasReason'
    OBVIOUS
  <2>2. ASSUME NEW q \in Runs \ (blamed \cup robbed)', ~hostEth0', crashes' = 0, InSetup(q)' PROVE GoesWell(q)'
    <3>1. q = r
      BY <2>2
    <3>2. \A p \in Runs : ~InSetup(p) /\ ~HasLinkNamed(p, VethOf[r])
      BY <2>2, <3>1
    <3>3. \A p \in Runs : VethOf[p] = VethOf[r] => pair[p] = "none"
      BY <2>2, <3>1, <3>2 DEF HasLinkNamed, Places
    <3> QED
      BY <2>2, <3>1, <3>2, <3>3
  <2> QED
    BY <2>1, <2>2
<1>2. ASSUME NEW r \in Runs, ShowBridge(r) PROVE Goal
  BY <1>2 DEF ShowBridge
<1>3. ASSUME NEW r \in Runs, AddBridge(r) \/ AddrBridge(r) \/ UpBridge(r) PROVE Goal
  BY <1>3 DEF AddBridge, AddrBridge, UpBridge
<1>4. ASSUME NEW r \in Runs, AddVeth(r) PROVE Goal
  <2>1. r \notin blamed \cup robbed /\ ~hostEth0 /\ crashes = 0 => PairNamed(VethOf[r]) = {}
    BY <1>4 DEF AddVeth, PairNamed
  <2> QED
    BY <1>4, <2>1 DEF AddVeth, Eth0In
<1>5. ASSUME NEW r \in Runs, MoveEth0(r) PROVE Goal
  BY <1>5 DEF MoveEth0, MovePeer, MoveFails, Take, Eth0In
<1>6. ASSUME NEW r \in Runs, DelVeth(r) PROVE Goal
  BY <1>6 DEF DelVeth, Delete, Take, PairNamed
<1>7. ASSUME NEW r \in Runs, Attach(r) \/ UpVeth(r) PROVE Goal
  <2>1. r \notin blamed \cup robbed /\ ~hostEth0 /\ crashes = 0 => PairNamed(VethOf[r]) # {}
    BY <1>7 DEF Attach, UpVeth, PairNamed, CommandsDone
  <2> QED
    BY <1>7, <2>1 DEF Attach, UpVeth
<1>8. ASSUME NEW r \in Runs, SetLo(r) \/ SetEth0(r) \/ AddAddr(r) \/ AddRoute(r) PROVE Goal
  <2>1. r \notin blamed \cup robbed /\ ~hostEth0 /\ crashes = 0 => alive[r] /\ pair[r] = r
    BY <1>8 DEF SetLo, SetEth0, AddAddr, AddRoute, Configure, CommandsDone
  <2>2. pc[r] = "route" /\ alive[r] /\ r \notin robbed => {"eth0", "addr"} \subseteq config[r]
    BY DEF CommandsDone
  <2> QED
    BY <1>8, <2>1, <2>2 DEF SetLo, SetEth0, AddAddr, AddRoute, Configure, Eth0In
<1>9. ASSUME NEW r \in Runs, Succeed(r) \/ RunCrashes(r) PROVE Goal
  BY <1>9 DEF Succeed, RunCrashes
<1>10. ASSUME NEW r \in Runs, ProcessExits(r) PROVE Goal
  BY <1>10 DEF ProcessExits, Delete, Take, Eth0In
<1>11. ASSUME NEW r \in Runs, Teardown(r) PROVE Goal
  BY <1>11 DEF Teardown, Delete, Take, PairNamed
<1>12. CASE UNCHANGED vars
  BY <1>12 DEF vars
<1> QED
  BY <1>1, <1>2, <1>3, <1>4, <1>5, <1>6, <1>7, <1>8, <1>9, <1>10, <1>11, <1>12 DEF Next, SetupStep

-----------------------------------------------------------------------------
\* Setup and Teardown, run by any number of invocations, keep the inductive invariant,
\* whichever containers' links have one name (hostVethName).
THEOREM BridgeInvariance == Spec => []BridgeInv
<1>1. BridgeInv /\ [Next]_vars => BridgeInv'
  <2> SUFFICES ASSUME BridgeInv, [Next]_vars PROVE BridgeInv'
    OBVIOUS
  <2>1. TypeOK
    BY DEF BridgeInv
  <2> QED
    BY <2>1, TypeStep, RobStep, PairStep, CommandsStep, ConnectedStep, ReclaimStep, ReasonStep DEF BridgeInv
<1> QED
  BY BridgeInit, <1>1, PTL DEF Spec

\* The variables have their types, and what is attached or up has a link.
THEOREM BridgeTypeCorrect == Spec => []TypeOK
<1>1. Init => TypeOK
  BY BridgeInit DEF BridgeInv
<1>2. TypeOK /\ [Next]_vars => TypeOK'
  BY TypeStep
<1> QED
  BY <1>1, <1>2, PTL DEF Spec

\* A container that Setup returned an address for stays connected until its process
\* ends or its own rm, whatever other Setups do, fail or leave, and whatever processes end;
\* only an rm of a container with a shared link name ever makes a command take the link
\* of another one.
THEOREM StaysConnectedAlways == Spec => []StaysConnected
<1>1. BridgeInv => StaysConnected
  BY DEF BridgeInv
<1> QED
  BY BridgeInvariance, <1>1, PTL

\* No veth pair of a dead container is left over if no command failed by itself,
\* wherever in Setup its process ended, and none that is done with is on the host.
THEOREM NoPairLeftAlways == Spec => []NoPairLeft
<1>1. BridgeInv => NoPairLeft
  BY DEF BridgeInv, TypeOK, Places, PairIsOwn, PairIsReclaimed, NoPairLeft
<1> QED
  BY BridgeInvariance, <1>1, PTL

\* Setup fails for a reason, on a host without an eth0 and if no run was killed in it: a
\* failing command, the end of its process, a Setup beside it, a container connected under
\* its link name, or an rm that took its link; never for what earlier runs left behind.
THEOREM FailureHasReasonAlways == Spec => []FailureHasReason
<1>1. BridgeInv => FailureHasReason
  BY DEF BridgeInv
<1> QED
  BY BridgeInvariance, <1>1, PTL
=============================================================================
