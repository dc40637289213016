----------------------------- MODULE InitOnImage -----------------------------
(***************************************************************************)
(* One container-init from its exec to its exit (ContainerInit), whose      *)
(* PrepareRootfs runs call by call on an image that the inits of other      *)
(* containers set up as well (RootfsSetup). A signal that ends it in the    *)
(* middle of PrepareRootfs is a crash for the others.                      *)
(***************************************************************************)
EXTENDS ContainerInit, RootfsSetup

CONSTANT me \* the container-init that is followed to its end

ASSUME MeAssumption == me \in Inits

allVars == <<vars, setupVars>>

\* A call of PrepareRootfs.
SetupCall(i) ==
  Begin(i) \/ Mkdir(i) \/ PivotRoot(i) \/ Unmount(i) \/ Remove(i) \/ Mounts(i) \/ Fails(i)

MySetupCall == phase = "setup" /\ SetupCall(me) /\ UNCHANGED vars

\* Mutant: an error of PrepareRootfs is only logged.
SetupReturnsIgnored ==
  /\ pc[me] \in {"ready", "failed"}
  /\ Setup
  /\ UNCHANGED setupVars

\* PrepareRootfs returns, and SetNoNewPrivileges may fail.
SetupReturns ==
  /\ pc[me] \in {"ready", "failed"}
  /\ Setup
  /\ pc[me] = "failed" => phase' = "exited"
  /\ UNCHANGED setupVars

\* A signal; one that ends init in its setup leaves the image as it is.
Signalled(s) ==
  /\ SignalArrives(s)
  /\ IF InSetup(me) THEN Crashes(me) ELSE UNCHANGED setupVars

OtherSetup(i) == (SetupCall(i) \/ Crashes(i)) /\ UNCHANGED vars

MainGoroutine ==
  \/ MySetupCall \/ SetupReturns
  \/ /\ Boot \/ Start \/ Notify \/ \E p \in Processes : Reap(p)
     /\ UNCHANGED setupVars

Forwarding == Forwarder /\ UNCHANGED setupVars
Delivery   == Runtime /\ UNCHANGED setupVars

AnyProcess ==
  /\ \/ \E p \in Orphans : Adopt(p)
     \/ \E p \in Processes, how \in Status : ProcessEnds(p, how)
  /\ UNCHANGED setupVars

HelperInit == Init /\ SetupInit

HelperNext ==
  \/ MainGoroutine \/ Forwarding \/ Delivery \/ AnyProcess
  \/ \E s \in Signals : Signalled(s)
  \/ \E i \in Inits \ {me} : OtherSetup(i)

\* The goroutines are scheduled, as in ContainerInit.
HelperSpec ==
  /\ HelperInit /\ [][HelperNext]_allVars
  /\ WF_allVars(MainGoroutine) /\ WF_allVars(Forwarding) /\ WF_allVars(Delivery)

-----------------------------------------------------------------------------
(* Properties: those of the two modules, and what they are to each other.   *)

\* The processes of a container never run while its init can still reach the host's
\* root: none is started before PrepareRootfs has returned, and the setups of other
\* containers, which take mounts away, give none back.
ProcessesAreConfined ==
  \A p \in Processes : proc[p] # "unborn" => pc[me] = "ready" /\ oldRoot[me] = NoDir

-----------------------------------------------------------------------------
(* The inductive invariant.                                                 *)

\* Where main is says how far PrepareRootfs has come, and whether there are processes.
PhaseFollowsSetup ==
  /\ phase = "exec" => pc[me] = "new"
  /\ phase = "setup" => pc[me] # "dead"
  /\ phase \in {"start", "notify", "wait"} => pc[me] = "ready"
  /\ phase \in {"exec", "setup", "start"} => \A p \in Processes : proc[p] = "unborn"
  /\ \A p \in Processes : proc[p] # "unborn" => pc[me] = "ready"

\* A zombie has left the status that Wait4 will return.
ZombiesHaveStatus == \A p \in Processes : proc[p] = "zombie" => status[p] \in Status

\* What every step of init, of its processes and of the other inits on the image
\* keeps true: the types, the invariant of the shared directory, and how main's
\* progress, its setup and its processes belong together.
HelperInv == TypeOK /\ IInv /\ PhaseFollowsSetup /\ ZombiesHaveStatus
=============================================================================
