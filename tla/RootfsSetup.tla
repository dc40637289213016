----------------------------- MODULE RootfsSetup -----------------------------
(***************************************************************************)
(* isolation.PrepareRootfs (internal/isolation/setup_linux.go), as the      *)
(* inits of several containers run it on the rootfs of one image. Mounts    *)
(* are private to each init; the directory .pivot_root, which each makes,   *)
(* pivots its old root to and removes, is in the image and shared.         *)
(***************************************************************************)
EXTENDS Naturals, FiniteSets

CONSTANTS
  Inits,     \* the container-init processes on this image
  MaxFaults, \* bound on system calls that fail for no reason of this model
  MaxCrashes,\* bound on inits killed in PrepareRootfs
  NoDir      \* no directory

ASSUME RootfsAssumption ==
  /\ NoDir \notin Inits
  /\ MaxFaults \in Nat /\ MaxCrashes \in Nat

VARIABLES
  pc,       \* where each init is in PrepareRootfs
  dir,      \* .pivot_root of the image: the init that made it, if it is there
  oldRoot,  \* the .pivot_root each init has the host's root mounted on
  together, \* history: the inits whose PrepareRootfs overlapped another's
  faulted,  \* history: the inits one of whose calls failed by a fault
  faults, crashes

boundVars == <<faulted, faults, crashes>>
setupVars == <<pc, dir, oldRoot, together, boundVars>>

SetupPC == {"new", "mkdir", "pivot", "unmount", "remove", "mounts", "ready", "failed", "dead"}

InSetup(i) == pc[i] \notin {"new", "ready", "failed", "dead"}

SetupGoes(i, from, to) == pc[i] = from /\ pc' = [pc EXCEPT ![i] = to]

\* The call is made and either works or, when it cannot, ends the setup.
Call(i, from, ok, to) == SetupGoes(i, from, IF ok THEN to ELSE "failed") /\ UNCHANGED <<together, boundVars>>

-----------------------------------------------------------------------------
\* The hostname, private mounts and the bind mount concern nobody else.
Begin(i) ==
  /\ SetupGoes(i, "new", "mkdir")
  /\ LET others == {j \in Inits : InSetup(j)}
     IN  together' = IF others = {} THEN together ELSE together \cup others \cup {i}
  /\ UNCHANGED <<dir, oldRoot, boundVars>>

\* Mutant: the directory must not be there.
MkdirExclusive(i) ==
  /\ Call(i, "mkdir", dir = NoDir, "pivot")
  /\ dir' = IF dir = NoDir THEN i ELSE dir
  /\ UNCHANGED oldRoot

\* os.MkdirAll takes a directory that is there.
Mkdir(i) ==
  /\ Call(i, "mkdir", TRUE, "pivot")
  /\ dir' = IF dir = NoDir THEN i ELSE dir
  /\ UNCHANGED oldRoot

PivotRoot(i) ==
  /\ Call(i, "pivot", dir # NoDir, "unmount")
  /\ oldRoot' = [oldRoot EXCEPT ![i] = dir]
  /\ UNCHANGED dir

\* Mutant: the old root stays where it is.
UnmountForgotten(i) ==
  /\ SetupGoes(i, "unmount", "mounts")
  /\ UNCHANGED <<dir, oldRoot, together, boundVars>>

\* The path must still name the directory the old root is on.
Unmount(i) ==
  LET mounted == dir # NoDir /\ oldRoot[i] = dir IN
  /\ Call(i, "unmount", mounted, "remove")
  /\ oldRoot' = IF mounted THEN [oldRoot EXCEPT ![i] = NoDir] ELSE oldRoot
  /\ UNCHANGED dir

\* Mutant: the directory stays in the image.
RemoveForgotten(i) ==
  /\ Call(i, "remove", TRUE, "mounts")
  /\ UNCHANGED <<dir, oldRoot>>

\* rmdir of a directory that is a mount point in other namespaces only takes
\* those mounts away.
Remove(i) ==
  /\ Call(i, "remove", dir # NoDir, "mounts")
  /\ dir' = NoDir
  /\ oldRoot' = [j \in Inits |-> IF oldRoot[j] = dir THEN NoDir ELSE oldRoot[j]]

\* mountEssentialFilesystems: what it makes in the image it makes if missing.
Mounts(i) ==
  /\ Call(i, "mounts", TRUE, "ready")
  /\ UNCHANGED <<dir, oldRoot>>

\* A call fails; the mounts of an init that exits go with it.
Fails(i) ==
  /\ InSetup(i)
  /\ faults < MaxFaults /\ faults' = faults + 1
  /\ faulted' = faulted \cup {i}
  /\ pc' = [pc EXCEPT ![i] = "failed"]
  /\ UNCHANGED <<dir, oldRoot, together, crashes>>

Crashes(i) ==
  /\ InSetup(i)
  /\ crashes < MaxCrashes /\ crashes' = crashes + 1
  /\ pc' = [pc EXCEPT ![i] = "dead"]
  /\ UNCHANGED <<dir, oldRoot, together, faulted, faults>>

SetupInit ==
  /\ pc       = [i \in Inits |-> "new"]
  /\ dir      = NoDir
  /\ oldRoot  = [i \in Inits |-> NoDir]
  /\ together = {}
  /\ faulted  = {}
  /\ faults = 0 /\ crashes = 0

SetupNext == \E i \in Inits :
  \/ Begin(i) \/ Mkdir(i) \/ PivotRoot(i) \/ Unmount(i) \/ Remove(i) \/ Mounts(i)
  \/ Fails(i) \/ Crashes(i)

SetupSpec == SetupInit /\ [][SetupNext]_setupVars

-----------------------------------------------------------------------------
(* Properties.                                                              *)

\* The workload starts without a way back to the host's file system, whatever
\* the other inits do to .pivot_root.
OldRootIsGone == \A i \in Inits : pc[i] = "ready" => oldRoot[i] = NoDir

\* A setup fails only by a fault or because another one overlapped it: what a
\* killed or failed one left in the image does not stop a later one.
FailureHasReason == \A i \in Inits : pc[i] = "failed" => i \in together \cup faulted

\* When all setups are over, and none was cut short by a fault or a crash, the
\* image has no .pivot_root, also if some failed because others overlapped them.
ImageIsTidy ==
  (\A i \in Inits : ~InSetup(i)) /\ faults = 0 /\ crashes = 0 => dir = NoDir

-----------------------------------------------------------------------------
(* The inductive invariant behind the three properties.                     *)

SetupTypeOK ==
  /\ pc       \in [Inits -> SetupPC]
  /\ dir      \in Inits \cup {NoDir}
  /\ oldRoot  \in [Inits -> Inits \cup {NoDir}]
  /\ together \subseteq Inits
  /\ faulted  \subseteq Inits
  /\ faults \in Nat /\ crashes \in Nat

\* i has made its directory and not removed it, and its old root, once it is
\* there, is on the directory that the path names.
HoldsDir(i) ==
  /\ pc[i] \in {"pivot", "unmount", "remove"}
  /\ pc[i] = "unmount" => oldRoot[i] = dir

\* Past the unmount no mount of the old root is left.
Unmounted == \A i \in Inits : pc[i] \in {"remove", "mounts", "ready"} => oldRoot[i] = NoDir

\* An init that no other has overlapped is alone, and finds what it made.
AloneIsUndisturbed == \A i \in Inits : InSetup(i) /\ i \notin together =>
  /\ \A j \in Inits : InSetup(j) => j = i
  /\ pc[i] \in {"pivot", "unmount", "remove"} => dir # NoDir /\ HoldsDir(i)

\* The one who made the directory will remove it.
MakerHoldsDir == faults = 0 /\ crashes = 0 /\ dir # NoDir => HoldsDir(dir)

\* What PrepareRootfs keeps true at every step, in every init: the types, and the
\* three facts that OldRootIsGone, FailureHasReason and ImageIsTidy rest on.
IInv == SetupTypeOK /\ Unmounted /\ AloneIsUndisturbed /\ FailureHasReason /\ MakerHoldsDir

\* README: images are independent of containers, run only reads their rootfs; so
\* starting one container does not make the setup of another fail.
SetupsAreIndependent == \A i \in Inits : pc[i] = "failed" => i \in faulted
=============================================================================
