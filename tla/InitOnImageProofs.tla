-------------------------- MODULE InitOnImageProofs --------------------------
(***************************************************************************)
(* Theorems about InitOnImage: a container-init from exec to exit beside    *)
(* any number of other inits on its image, for any processes, signals, exit *)
(* codes, failing calls and kills; and before them the theorems about       *)
(* RootfsSetup, whose inits these are.                                      *)
(***************************************************************************)
EXTENDS InitOnImage, TLAPS

-----------------------------------------------------------------------------
(* RootfsSetup: any number of inits on one image.                           *)

LEMMA InvInit == ASSUME SetupInit PROVE IInv
BY RootfsAssumption DEF RootfsAssumption, SetupInit, IInv, SetupTypeOK, SetupPC, Unmounted,
  AloneIsUndisturbed, FailureHasReason, MakerHoldsDir, HoldsDir, InSetup

LEMMA TypeStep == ASSUME SetupTypeOK, [SetupNext]_setupVars PROVE SetupTypeOK'
<1> USE RootfsAssumption DEF RootfsAssumption, SetupTypeOK, SetupPC, boundVars
<1>1. ASSUME NEW i \in Inits, Begin(i) PROVE SetupTypeOK'
  BY <1>1 DEF Begin, SetupGoes
<1>2. ASSUME NEW i \in Inits, Mkdir(i) PROVE SetupTypeOK'
  BY <1>2 DEF Mkdir, Call, SetupGoes
<1>3. ASSUME NEW i \in Inits, PivotRoot(i) PROVE SetupTypeOK'
  BY <1>3 DEF PivotRoot, Call, SetupGoes
<1>4. ASSUME NEW i \in Inits, Unmount(i) PROVE SetupTypeOK'
  BY <1>4 DEF Unmount, Call, SetupGoes
<1>5. ASSUME NEW i \in Inits, Remove(i) PROVE SetupTypeOK'
  BY <1>5 DEF Remove, Call, SetupGoes
<1>6. ASSUME NEW i \in Inits, Mounts(i) PROVE SetupTypeOK'
  BY <1>6 DEF Mounts, Call, SetupGoes
<1>7. ASSUME NEW i \in Inits, Fails(i) \/ Crashes(i) PROVE SetupTypeOK'
  BY <1>7 DEF Fails, Crashes
<1>8. CASE UNCHANGED setupVars
  BY <1>8 DEF setupVars
<1> QED
  BY <1>1, <1>2, <1>3, <1>4, <1>5, <1>6, <1>7, <1>8 DEF SetupNext

\* A removal takes the mounts of every init off the directory, and none is put back.
LEMMA UnmountedStep == ASSUME IInv, [SetupNext]_setupVars PROVE Unmounted'
<1> USE DEF IInv, SetupTypeOK, Unmounted, boundVars
<1>1. ASSUME NEW i \in Inits, Begin(i) \/ Mkdir(i) \/ Mounts(i) PROVE Unmounted'
  BY <1>1 DEF Begin, Mkdir, Mounts, Call, SetupGoes
<1>2. ASSUME NEW i \in Inits, PivotRoot(i) PROVE Unmounted'
  BY <1>2 DEF PivotRoot, Call, SetupGoes
<1>3. ASSUME NEW i \in Inits, Unmount(i) PROVE Unmounted'
  BY <1>3 DEF Unmount, Call, SetupGoes
<1>4. ASSUME NEW i \in Inits, Remove(i) PROVE Unmounted'
  BY <1>4 DEF Remove, Call, SetupGoes
<1>5. ASSUME NEW i \in Inits, Fails(i) \/ Crashes(i) PROVE Unmounted'
  BY <1>5 DEF Fails, Crashes
<1>6. CASE UNCHANGED setupVars
  BY <1>6 DEF setupVars
<1> QED
  BY <1>1, <1>2, <1>3, <1>4, <1>5, <1>6 DEF SetupNext

\* An init that begins while others are in their setup is together with them; one
\* that is not so is the only one whose calls change the directory.
LEMMA AloneStep ==
  ASSUME IInv, [SetupNext]_setupVars PROVE AloneIsUndisturbed' /\ FailureHasReason'
<1> DEFINE Goal == AloneIsUndisturbed' /\ FailureHasReason'
<1> USE RootfsAssumption DEF RootfsAssumption, IInv, SetupTypeOK, SetupPC, AloneIsUndisturbed,
      FailureHasReason, HoldsDir, InSetup, boundVars
<1>1. ASSUME NEW i \in Inits, Begin(i) PROVE Goal
  BY <1>1 DEF Begin, SetupGoes
<1>2. ASSUME NEW i \in Inits, Mkdir(i) PROVE Goal
  BY <1>2 DEF Mkdir, Call, SetupGoes
<1>3. ASSUME NEW i \in Inits, PivotRoot(i) PROVE Goal
  BY <1>3 DEF PivotRoot, Call, SetupGoes
<1>4. ASSUME NEW i \in Inits, Unmount(i) PROVE Goal
  BY <1>4 DEF Unmount, Call, SetupGoes
<1>5. ASSUME NEW i \in Inits, Remove(i) PROVE Goal
  BY <1>5 DEF Remove, Call, SetupGoes
<1>6. ASSUME NEW i \in Inits, Mounts(i) PROVE Goal
  BY <1>6 DEF Mounts, Call, SetupGoes
<1>7. ASSUME NEW i \in Inits, Fails(i) PROVE Goal
  BY <1>7 DEF Fails
<1>8. ASSUME NEW i \in Inits, Crashes(i) PROVE Goal
  BY <1>8 DEF Crashes
<1>9. CASE UNCHANGED setupVars
  BY <1>9 DEF setupVars
<1> QED
  BY <1>1, <1>2, <1>3, <1>4, <1>5, <1>6, <1>7, <1>8, <1>9 DEF SetupNext

\* The maker's calls find its own directory, so none of them fails before the
\* removal, and a directory that another removed is nobody's.
LEMMA MakerStep == ASSUME IInv, [SetupNext]_setupVars PROVE MakerHoldsDir'
<1> USE RootfsAssumption DEF RootfsAssumption, IInv, SetupTypeOK, SetupPC, MakerHoldsDir, HoldsDir, boundVars
<1>1. ASSUME NEW i \in Inits, Begin(i) PROVE MakerHoldsDir'
  BY <1>1 DEF Begin, SetupGoes
<1>2. ASSUME NEW i \in Inits, Mkdir(i) PROVE MakerHoldsDir'
  BY <1>2 DEF Mkdir, Call, SetupGoes
<1>3. ASSUME NEW i \in Inits, PivotRoot(i) PROVE MakerHoldsDir'
  BY <1>3 DEF PivotRoot, Call, SetupGoes
<1>4. ASSUME NEW i \in Inits, Unmount(i) PROVE MakerHoldsDir'
  BY <1>4 DEF Unmount, Call, SetupGoes
<1>5. ASSUME NEW i \in Inits, Remove(i) PROVE MakerHoldsDir'
  BY <1>5 DEF Remove, Call, SetupGoes
<1>6. ASSUME NEW i \in Inits, Mounts(i) PROVE MakerHoldsDir'
  BY <1>6 DEF Mounts, Call, SetupGoes
<1>7. ASSUME NEW i \in Inits, Fails(i) \/ Crashes(i) PROVE MakerHoldsDir'
  BY <1>7 DEF Fails, Crashes
<1>8. CASE UNCHANGED setupVars
  BY <1>8 DEF setupVars
<1> QED
  BY <1>1, <1>2, <1>3, <1>4, <1>5, <1>6, <1>7, <1>8 DEF SetupNext

-----------------------------------------------------------------------------
\* PrepareRootfs, run by any number of inits on one rootfs, keeps the inductive
\* invariant.
THEOREM SetupInvariance == SetupSpec => []IInv
<1>1. IInv /\ [SetupNext]_setupVars => IInv'
  <2> SUFFICES ASSUME IInv, [SetupNext]_setupVars PROVE IInv'
    OBVIOUS
  <2> QED
    BY TypeStep, UnmountedStep, AloneStep, MakerStep DEF IInv
<1> QED
  BY InvInit, <1>1, PTL DEF SetupSpec

\* A workload starts (PrepareRootfs has returned) with the host's root unmounted,
\* whatever the other inits did to .pivot_root.
THEOREM OldRootIsGoneAlways == SetupSpec => []OldRootIsGone
<1>1. IInv => OldRootIsGone
  BY DEF IInv, Unmounted, OldRootIsGone
<1> QED
  BY SetupInvariance, <1>1, PTL

\* PrepareRootfs fails only by a failing call or by an overlapping setup.
THEOREM FailureHasReasonAlways == SetupSpec => []FailureHasReason
<1>1. IInv => FailureHasReason
  BY DEF IInv
<1> QED
  BY SetupInvariance, <1>1, PTL

\* Without failing calls and kills, .pivot_root is gone once no setup is running,
\* even if overlapping setups failed.
THEOREM ImageIsTidyAlways == SetupSpec => []ImageIsTidy
<1>1. IInv => ImageIsTidy
  BY DEF IInv, SetupTypeOK, MakerHoldsDir, HoldsDir, InSetup, ImageIsTidy
<1> QED
  BY SetupInvariance, <1>1, PTL

-----------------------------------------------------------------------------
(* InitOnImage: a container-init beside them.                               *)

LEMMA HelperInvInit == ASSUME HelperInit PROVE HelperInv
<1>1. IInv
  BY InvInit DEF HelperInit
<1>2. TypeOK
  BY DEF HelperInit, Init, TypeOK, InitPhase
<1>3. PhaseFollowsSetup /\ ZombiesHaveStatus
  BY MeAssumption DEF HelperInit, Init, SetupInit, PhaseFollowsSetup, ZombiesHaveStatus, MeAssumption
<1> QED
  BY <1>1, <1>2, <1>3 DEF HelperInv

\* What happens on the image is what happens in RootfsSetup.
LEMMA HelperStepIsSetupStep == ASSUME [HelperNext]_allVars PROVE [SetupNext]_setupVars
<1> USE MeAssumption DEF MeAssumption
<1>1. ASSUME NEW i \in Inits, SetupCall(i) \/ Crashes(i) PROVE [SetupNext]_setupVars
  BY <1>1 DEF SetupCall, SetupNext
<1>2. CASE MainGoroutine
  BY <1>1, <1>2 DEF MainGoroutine, MySetupCall, SetupReturns
<1>3. CASE Forwarding \/ Delivery \/ AnyProcess
  BY <1>3 DEF Forwarding, Delivery, AnyProcess
<1>4. ASSUME NEW s \in Signals, Signalled(s) PROVE [SetupNext]_setupVars
  BY <1>1, <1>4 DEF Signalled
<1>5. ASSUME NEW i \in Inits \ {me}, OtherSetup(i) PROVE [SetupNext]_setupVars
  BY <1>1, <1>5 DEF OtherSetup
<1>6. CASE UNCHANGED allVars
  BY <1>6 DEF allVars
<1> QED
  BY <1>2, <1>3, <1>4, <1>5, <1>6 DEF HelperNext

\* An exit code is a byte: a code of a process, or 128 and a signal.
LEMMA ExitCodeIsByte ==
  ASSUME NEW how \in Status
  PROVE  (IF how.signaled THEN 128 + how.value ELSE how.value) \in 0 .. 255
<1>1. Codes \subseteq 0 .. 255 /\ Signals \subseteq 1 .. 127
  BY InitAssumption, Zenon DEF InitAssumption
<1>2. CASE how \in [signaled : {FALSE}, value : Codes]
  <2>1. how.signaled = FALSE
    BY <1>2, Zenon
  <2>2. how.value \in Codes
    BY <1>2, Zenon
  <2>3. how.value \in 0 .. 255
    <3>1. \A c \in Codes : c \in 0 .. 255
      BY <1>1
    <3> QED
      BY <2>2, <3>1, Zenon
  <2> QED
    BY <2>1, <2>3
<1>3. CASE how \in [signaled : {TRUE}, value : Signals]
  <2>1. how.signaled = TRUE
    BY <1>3, Zenon
  <2>2. how.value \in Signals
    BY <1>3, Zenon
  <2>3. 128 + how.value \in 0 .. 255
    <3>1. \A s \in 1 .. 127 : 128 + s \in 0 .. 255
      OBVIOUS
    <3>2. \A s \in Signals : 128 + s \in 0 .. 255
      BY <1>1, <3>1
    <3> QED
      BY <2>2, <3>2, Zenon
  <2> QED
    BY <2>1, <2>3
<1> QED
  BY <1>2, <1>3, Zenon DEF Status

\* The two ways the code and the property write it are the same.
LEMMA ExitCodeIsSum ==
  ASSUME NEW how \in Status
  PROVE  (IF how.signaled THEN 128 + how.value ELSE how.value)
           = how.value + IF how.signaled THEN 128 ELSE 0
<1>1. how.value \in Codes \cup Signals
  BY Zenon DEF Status
<1>2. \A n \in Codes \cup Signals : n \in Nat
  BY InitAssumption DEF InitAssumption
<1>3. how.value \in Nat
  BY <1>1, <1>2, Zenon
<1> QED
  BY <1>3

\* The part of TypeOK that the end of init changes.
MainTypes ==
  /\ phase \in InitPhase
  /\ code  \in 0 .. 255 \cup {Killed, None}
  /\ proc  \in [Processes -> {"unborn", "alive", "zombie", "gone"}]

LEMMA ExitKeepsTypes ==
  ASSUME TypeOK, NEW c, c \in 0 .. 255 \/ c = Killed, ExitWith(c)
  PROVE  MainTypes'
BY DEF TypeOK, ExitWith, InitPhase, MainTypes

\* The main goroutine's steps.
LEMMA MainTypeStep == ASSUME HelperInv, MainGoroutine PROVE TypeOK'
<1> USE DEF HelperInv, signalVars
<1>1. CASE MySetupCall
  BY <1>1 DEF MySetupCall, vars, TypeOK
<1>2. CASE SetupReturns
  <2>1. CASE Goes("setup", "start") /\ UNCHANGED <<code, proc>>
    BY <1>2, <2>1 DEF SetupReturns, Setup, Goes, TypeOK, InitPhase
  <2>2. CASE ExitWith(1)
    <3>1. MainTypes'
      BY <2>2, ExitKeepsTypes
    <3> QED
      BY <1>2, <3>1 DEF SetupReturns, Setup, TypeOK, MainTypes
  <2> QED
    BY <1>2, <2>1, <2>2 DEF SetupReturns, Setup
<1>3. CASE Boot \/ Notify
  <2>1. CASE Boot
    BY <2>1 DEF Boot, Goes, TypeOK, InitPhase
  <2>2. CASE Notify
    BY <2>2 DEF Notify, Goes, TypeOK, InitPhase
  <2> QED
    BY <1>3, <2>1, <2>2
<1>4. CASE Start
  <2>1. CASE ExitWith(1)
    <3>1. MainTypes'
      BY <2>1, ExitKeepsTypes
    <3> QED
      BY <1>4, <3>1 DEF Start, TypeOK, MainTypes
  <2>2. CASE Goes("start", "notify") /\ proc' = [proc EXCEPT ![Workload] = "alive"] /\ UNCHANGED code
    BY <1>4, <2>2 DEF Start, Goes, TypeOK, InitPhase
  <2> QED
    BY <1>4, <2>1, <2>2 DEF Start
<1>5. ASSUME NEW p \in Processes, Reap(p) PROVE TypeOK'
  <2>1. status[p] \in Status
    BY <1>5 DEF ZombiesHaveStatus, Reap
  <2>2. CASE p = Workload
    <3>1. MainTypes'
      BY <1>5, <2>1, <2>2, ExitCodeIsByte, ExitKeepsTypes DEF Reap
    <3> QED
      BY <1>5, <3>1 DEF Reap, TypeOK, MainTypes
  <2>3. CASE p # Workload
    BY <1>5, <2>3 DEF Reap, TypeOK
  <2> QED
    BY <2>2, <2>3
<1> QED
  BY <1>1, <1>2, <1>3, <1>4, <1>5 DEF MainGoroutine

LEMMA SignalTypeStep ==
  ASSUME HelperInv, Forwarding \/ Delivery \/ \E s \in Signals : Signalled(s) PROVE TypeOK'
<1> USE DEF HelperInv, signalVars
<1>1. CASE Forwarding
  <2>1. CASE ForwarderRuns \/ Forward
    BY <2>1 DEF ForwarderRuns, Forward, TypeOK
  <2>2. CASE Take
    <3>1. PICK s \in Signals : sigCh = <<s>>
      BY <2>2 DEF Take, TypeOK
    <3>2. Head(sigCh) = s /\ Tail(sigCh) = <<>>
      BY <3>1
    <3> QED
      BY <2>2, <3>2 DEF Take, TypeOK
  <2> QED
    BY <1>1, <2>1, <2>2 DEF Forwarding, Forwarder
<1>2. CASE Delivery
  BY <1>2 DEF Delivery, Runtime, Dispatch, TypeOK
<1>3. ASSUME NEW s \in Signals, Signalled(s) PROVE TypeOK'
  <2>1. MainTypes'
    <3>1. CASE UNCHANGED <<phase, code, proc>>
      BY <3>1 DEF TypeOK, MainTypes
    <3>2. CASE ExitWith(2) \/ ExitWith(Killed)
      BY <3>2, ExitKeepsTypes
    <3> QED
      BY <1>3, <3>1, <3>2 DEF Signalled, SignalArrives
  <2> QED
    BY <1>3, <2>1 DEF Signalled, SignalArrives, TypeOK, MainTypes
<1> QED
  BY <1>1, <1>2, <1>3

LEMMA HelperTypeStep == ASSUME HelperInv, [HelperNext]_allVars PROVE TypeOK'
<1> USE DEF HelperInv
<1>1. CASE AnyProcess
  <2>1. ASSUME NEW p \in Orphans, Adopt(p) PROVE TypeOK'
    BY <2>1 DEF Adopt, Processes, signalVars, TypeOK
  <2>2. ASSUME NEW p \in Processes, NEW how \in Status, ProcessEnds(p, how) PROVE TypeOK'
    BY <2>2 DEF ProcessEnds, signalVars, TypeOK
  <2> QED
    BY <1>1, <2>1, <2>2 DEF AnyProcess
<1>2. ASSUME NEW i \in Inits, OtherSetup(i) PROVE TypeOK'
  BY <1>2 DEF OtherSetup, vars, signalVars, TypeOK
<1>3. CASE UNCHANGED allVars
  BY <1>3 DEF allVars, vars, signalVars, TypeOK
<1> QED
  BY <1>1, <1>2, <1>3, MainTypeStep, SignalTypeStep DEF HelperNext

\* Another init's setup does not move this one's.
LEMMA OtherSetupKeepsMine ==
  ASSUME IInv, NEW i \in Inits \ {me}, SetupCall(i) \/ Crashes(i) PROVE pc'[me] = pc[me]
BY MeAssumption DEF MeAssumption, IInv, SetupTypeOK, SetupCall, Begin, Mkdir, PivotRoot, Unmount, Remove,
  Mounts, Fails, Crashes, Call, SetupGoes

\* A call of this init's setup does not end in "dead", nor is it made before exec is over.
LEMMA MySetupMoves == ASSUME IInv, SetupCall(me) PROVE pc[me] # "ready" /\ pc'[me] # "dead"
BY MeAssumption DEF MeAssumption, IInv, SetupTypeOK, SetupCall, Begin, Mkdir, PivotRoot, Unmount, Remove,
  Mounts, Fails, Call, SetupGoes, InSetup

\* Processes come from Start and Adopt only, and zombies get their status when they end.
LEMMA PhaseStep ==
  ASSUME HelperInv, [HelperNext]_allVars PROVE PhaseFollowsSetup' /\ ZombiesHaveStatus'
<1> DEFINE Goal == PhaseFollowsSetup' /\ ZombiesHaveStatus'
<1> USE DEF HelperInv, TypeOK, InitPhase, PhaseFollowsSetup, ZombiesHaveStatus, signalVars, setupVars
<1>1. CASE MySetupCall
  BY <1>1, MySetupMoves DEF MySetupCall, vars
<1>2. CASE SetupReturns
  BY <1>2 DEF SetupReturns, Setup, Goes, ExitWith
<1>3. ASSUME Boot \/ Notify, UNCHANGED setupVars PROVE Goal
  BY <1>3 DEF Boot, Notify, Goes
<1>4. ASSUME Start, UNCHANGED setupVars PROVE Goal
  BY <1>4 DEF Start, Goes, ExitWith
<1>5. ASSUME NEW p \in Processes, Reap(p), UNCHANGED setupVars PROVE Goal
  BY <1>5 DEF Reap, ExitWith
<1>6. CASE Forwarding \/ Delivery
  BY <1>6 DEF Forwarding, Forwarder, ForwarderRuns, Take, Forward, Delivery, Runtime, Dispatch
<1>7. CASE AnyProcess
  <2>1. ASSUME NEW p \in Orphans, Adopt(p), UNCHANGED setupVars PROVE Goal
    BY <2>1 DEF Adopt, Processes
  <2>2. ASSUME NEW p \in Processes, NEW how \in Status, ProcessEnds(p, how), UNCHANGED setupVars PROVE Goal
    BY <2>2 DEF ProcessEnds
  <2> QED
    BY <1>7, <2>1, <2>2 DEF AnyProcess
<1>8. ASSUME NEW s \in Signals, Signalled(s) PROVE Goal
  <2>1. CASE phase' = "exited" /\ InSetup(me)
    BY <1>8, <2>1, MeAssumption DEF MeAssumption, Signalled, SignalArrives, ExitWith, InSetup, Crashes
  <2>2. CASE UNCHANGED setupVars
    BY <1>8, <2>2 DEF Signalled, SignalArrives, ExitWith
  <2>3. CASE phase' # "exited" /\ InSetup(me)
    BY <1>8, <2>3 DEF Signalled, SignalArrives, ExitWith, InSetup
  <2> QED
    BY <1>8, <2>1, <2>2, <2>3 DEF Signalled
<1>9. ASSUME NEW i \in Inits \ {me}, OtherSetup(i) PROVE Goal
  BY <1>9, OtherSetupKeepsMine DEF OtherSetup, vars
<1>10. CASE UNCHANGED allVars
  BY <1>10 DEF allVars, vars
<1> QED
  BY <1>1, <1>2, <1>3, <1>4, <1>5, <1>6, <1>7, <1>8, <1>9, <1>10 DEF HelperNext, MainGoroutine

-----------------------------------------------------------------------------
\* The inductive invariant of a container-init on a shared image.
THEOREM HelperInvariance == HelperSpec => []HelperInv
<1>1. HelperInv /\ [HelperNext]_allVars => HelperInv'
  <2> SUFFICES ASSUME HelperInv, [HelperNext]_allVars PROVE HelperInv'
    OBVIOUS
  <2>1. IInv'
    <3>1. SetupTypeOK' /\ Unmounted' /\ AloneIsUndisturbed' /\ FailureHasReason' /\ MakerHoldsDir'
      BY HelperStepIsSetupStep, TypeStep, UnmountedStep, AloneStep, MakerStep DEF HelperInv, IInv
    <3> QED
      BY <3>1 DEF IInv
  <2> QED
    BY <2>1, HelperTypeStep, PhaseStep DEF HelperInv
<1> QED
  BY HelperInvInit, <1>1, PTL DEF HelperSpec

\* container-init with its rootfs and processes is, on the image, one of RootfsSetup's
\* inits: what holds of every PrepareRootfs holds of the composed system.
THEOREM HelperImplementsSetup == HelperSpec => SetupSpec
<1>1. HelperInit => SetupInit
  BY DEF HelperInit
<1>2. [HelperNext]_allVars => [SetupNext]_setupVars
  BY HelperStepIsSetupStep
<1> QED
  BY <1>1, <1>2, PTL DEF HelperSpec, SetupSpec

\* main.go starts the workload after PrepareRootfs only, and what the inits of other
\* containers do to .pivot_root gives no process of this one a way to the host's root.
THEOREM ProcessesAreConfinedAlways == HelperSpec => []ProcessesAreConfined
<1>1. HelperInv => ProcessesAreConfined
  BY MeAssumption DEF MeAssumption, HelperInv, IInv, Unmounted, PhaseFollowsSetup, ProcessesAreConfined
<1> QED
  BY HelperInvariance, <1>1, PTL

\* Once init waits (main.go:60), it ends only with the workload and with its code,
\* whatever signals come and whichever children end first.
THEOREM ExitTellsWorkloadAlways == HelperSpec => ExitTellsWorkload
<1> DEFINE Tells == phase = "wait" /\ phase' = "exited" =>
      /\ proc[Workload] = "zombie"
      /\ code' = status[Workload].value + IF status[Workload].signaled THEN 128 ELSE 0
<1>1. HelperInv /\ [HelperNext]_allVars => [Tells]_vars
  <2> SUFFICES ASSUME HelperInv, [HelperNext]_allVars, phase = "wait", phase' = "exited" PROVE Tells
    OBVIOUS
  <2>1. Reap(Workload)
    BY DEF HelperNext, allVars, vars, MainGoroutine, MySetupCall, SetupReturns, Setup, Goes, Boot, Start, Notify,
      Reap, Forwarding, Forwarder, ForwarderRuns, Take, Forward, Delivery, Runtime, Dispatch, AnyProcess,
      Adopt, ProcessEnds, Signalled, SignalArrives, OtherSetup
  <2>2. status[Workload] \in Status /\ proc[Workload] = "zombie"
    BY <2>1 DEF Reap, HelperInv, ZombiesHaveStatus, Processes
  <2> QED
    BY <2>1, <2>2, ExitCodeIsSum DEF Reap, ExitWith
<1> QED
  BY HelperInvariance, <1>1, PTL DEF HelperSpec, ExitTellsWorkload
=============================================================================
