--------------------------- MODULE ImageStoreProofs ---------------------------
(***************************************************************************)
(* Theorems about ImageStore, for any number of installs, runs and rmi, any *)
(* names and directories and any number of failures and crashes.           *)
(***************************************************************************)
EXTENDS ImageStore, TLAPS

LEMMA DirOfActor == ASSUME NEW x \in Actors PROVE DirOf(x) \in Dirs
BY DEF Dirs

LEMMA BusyActs == Busy \subseteq Actors
BY DEF Busy, Actors

LEMMA MetaTexts ==
  ASSUME kind \in [Installs -> Kinds], NEW i \in Installs
  PROVE  /\ MetaOf(i) \in Texts /\ Truncated \in Texts
         /\ Overwrite(Truncated, i) = MetaOf(i)
         /\ \A text \in Texts : Overwrite(text, i) \in Texts
<1>1. Length(i) \in 1 .. 4
  BY DEF Kinds, Length
<1> QED
  BY <1>1 DEF MetaOf, Truncated, Overwrite, Texts

-----------------------------------------------------------------------------
(* Types.                                                                   *)

LEMMA JoinsTypes ==
  ASSUME TypeOK, NEW x \in Actors, Joins(x)
  PROVE  \A p \in together' : p \subseteq Actors
BY BusyActs DEF TypeOK, Joins

LEMMA StopTypes ==
  ASSUME TypeOK, NEW i \in Installs, StopWriting(i)
  PROVE  /\ writing' \in [Dirs -> SUBSET Installs]
         /\ \A d \in Dirs : meta[d] = None => writing'[d] = {}
         /\ manifest' \in [Dirs -> Installs \cup {None, "torn"}]
BY DEF TypeOK, StopWriting

LEMMA TypeInit == ASSUME Init PROVE TypeOK
BY DEF Init, TypeOK, InstallPC, RunPC, RemoverPC

LEMMA InstallTypes == ASSUME TypeOK, NEW i \in Installs, Install(i) PROVE TypeOK'
<1> USE DEF TypeOK, InstallPC, Go, storeVars, boundVars
<1>0. i \in Actors /\ DirOf(i) \in Dirs
  BY DirOfActor DEF Actors
<1>1. ASSUME MakeDir(i) PROVE TypeOK'
  BY <1>0, <1>1, JoinsTypes DEF MakeDir
<1>2. ASSUME Fetch(i) PROVE TypeOK'
  BY <1>2 DEF Fetch
<1>3. ASSUME Clean(i) PROVE TypeOK'
  BY <1>0, <1>3 DEF Clean
<1>4. ASSUME MakeRootfs(i) \/ CreateTemp(i) PROVE TypeOK'
  BY <1>0, <1>4 DEF MakeRootfs, CreateTemp
<1>5. ASSUME NEW from \in InstallPC, NEW to \in InstallPC, NEW p \in Paths, Extract(i, from, p, to) PROVE TypeOK'
  BY <1>0, <1>5 DEF Extract
<1>6. ASSUME OpenMeta(i) PROVE TypeOK'
  BY <1>0, <1>6, MetaTexts, StoreAssumption DEF OpenMeta, StoreAssumption
<1>7. ASSUME WriteMeta(i) PROVE TypeOK'
  <2>1. /\ ipc' \in [Installs -> InstallPC] /\ writing' \in [Dirs -> SUBSET Installs] /\ temp' \subseteq Installs
        /\ broken' \subseteq Dirs
    BY <1>0, <1>7 DEF WriteMeta, Completed
  <2>2. /\ meta' \in [Dirs -> Texts \cup {None}]
        /\ \A d \in Dirs : meta'[d] = None => writing'[d] = {}
    <3>1. CASE i \in writing[DirOf(i)]
      <4>1. Overwrite(meta[DirOf(i)], i) \in Texts
        BY <1>0, <3>1, MetaTexts
      <4> QED
        BY <1>0, <1>7, <3>1, <4>1, StoreAssumption DEF WriteMeta, StoreAssumption
    <3>2. CASE i \notin writing[DirOf(i)]
      BY <1>0, <1>7, <3>2 DEF WriteMeta
    <3> QED
      BY <3>1, <3>2
  <2> QED
    BY <1>7, <2>1, <2>2 DEF WriteMeta
<1>8. ASSUME WriteManifest(i) PROVE TypeOK'
  BY <1>0, <1>8 DEF WriteManifest, Completed
<1>9. ASSUME InstallFails(i) PROVE TypeOK'
  BY <1>0, <1>9, StopTypes DEF InstallFails
<1>10. ASSUME InstallCrashes(i) PROVE TypeOK'
  BY <1>0, <1>10, StopTypes DEF InstallCrashes
<1> QED
  <2>1. {"extract1", "extract2", "openMeta"} \subseteq InstallPC /\ {1, 2} \subseteq Paths
    BY DEF Paths
  <2>2. CASE Extract(i, "extract1", 1, "extract2")
    BY <1>5, <2>1, <2>2
  <2>3. CASE Extract(i, "extract2", 2, "openMeta")
    BY <1>5, <2>1, <2>3
  <2> QED
    BY <1>1, <1>2, <1>3, <1>4, <1>6, <1>7, <1>8, <1>9, <1>10, <2>2, <2>3 DEF Install

LEMMA RunTypes == ASSUME TypeOK, NEW r \in Runs, Run(r) PROVE TypeOK'
<1>1. r \in Actors
  BY DEF Actors
<1> QED
  BY <1>1, JoinsTypes DEF TypeOK, RunPC, Run, RootfsPath, StartContainer, OpenConfig, WriteConfig,
    RemoveContainer, RunGoes, storeVars, boundVars

LEMMA RemoveTypes == ASSUME TypeOK, NEW k \in Removers, Remove(k) PROVE TypeOK'
<1> USE DEF TypeOK, RemoverPC, RemoverGoes, storeVars, boundVars
<1>0. k \in Actors /\ DirOf(k) \in Dirs
  BY DirOfActor DEF Actors
<1>1. ASSUME CheckUse(k) PROVE TypeOK'
  BY <1>0, <1>1, JoinsTypes DEF CheckUse
<1>2. ASSUME StatRootfs(k) PROVE TypeOK'
  BY <1>2 DEF StatRootfs
<1>3. ASSUME Unlink(k) PROVE TypeOK'
  BY <1>0, <1>3 DEF Unlink
<1>4. ASSUME Rmdir(k) PROVE TypeOK'
  BY <1>0, <1>4 DEF Rmdir
<1> QED
  BY <1>1, <1>2, <1>3, <1>4 DEF Remove

LEMMA TypeStep == ASSUME TypeOK, [Next]_vars PROVE TypeOK'
<1>1. CASE UNCHANGED vars
  BY <1>1 DEF vars, storeVars, boundVars, TypeOK
<1> QED
  BY <1>1, InstallTypes, RunTypes, RemoveTypes DEF Next
-----------------------------------------------------------------------------
(* Who works on a directory with whom.                                      *)

LEMMA HistoryGrows == ASSUME [Next]_vars PROVE together \subseteq together'
BY DEF Next, vars, boundVars, Install, MakeDir, Fetch, Clean, MakeRootfs, CreateTemp, Extract, OpenMeta, WriteMeta, WriteManifest,
  InstallFails, InstallCrashes, Run, RootfsPath, StartContainer, OpenConfig, WriteConfig, RemoveContainer,
  Remove, CheckUse, StatRootfs, Unlink, Rmdir, Joins

LEMMA CompanyStays == ASSUME [Next]_vars, NEW i, HasCompany(i) PROVE HasCompany(i)'
BY HistoryGrows DEF HasCompany

\* An invocation that begins to work joins those at work.
LEMMA BusyGrows ==
  ASSUME TypeOK, [Next]_vars
  PROVE  Busy' \subseteq Busy \/ \E x \in Actors : Joins(x) /\ Busy' \subseteq Busy \cup {x}
<1> USE DEF TypeOK, Busy, Installing, Using, Removing
<1>1. ASSUME NEW i \in Installs, Install(i) PROVE Busy' \subseteq Busy \/ (Joins(i) /\ Busy' \subseteq Busy \cup {i})
  BY <1>1 DEF Install, MakeDir, Fetch, Clean, MakeRootfs, CreateTemp, Extract, OpenMeta, WriteMeta, WriteManifest,
    InstallFails, InstallCrashes, Go
<1>2. ASSUME NEW r \in Runs, Run(r) PROVE Busy' \subseteq Busy \/ (Joins(r) /\ Busy' \subseteq Busy \cup {r})
  BY <1>2 DEF Run, RootfsPath, StartContainer, OpenConfig, WriteConfig, RemoveContainer, RunGoes
<1>3. ASSUME NEW k \in Removers, Remove(k) PROVE Busy' \subseteq Busy \/ (Joins(k) /\ Busy' \subseteq Busy \cup {k})
  BY <1>3 DEF Remove, CheckUse, StatRootfs, Unlink, Rmdir, RemoverGoes
<1>4. CASE UNCHANGED vars
  BY <1>4 DEF vars
<1> QED
  BY <1>1, <1>2, <1>3, <1>4 DEF Next, Actors

LEMMA BusyTogetherStep == ASSUME TypeOK, BusyTogether, [Next]_vars PROVE BusyTogether'
<1>1. CASE Busy' \subseteq Busy
  BY <1>1, HistoryGrows DEF BusyTogether, DirOf
<1>2. ASSUME NEW x \in Actors, Joins(x), Busy' \subseteq Busy \cup {x} PROVE BusyTogether'
  <2> SUFFICES ASSUME NEW y \in Busy', NEW z \in Busy', y # z, DirOf(y) = DirOf(z)
               PROVE  {y, z} \in together'
    BY DEF BusyTogether, DirOf
  <2>1. CASE y # x /\ z # x
    BY <1>2, <2>1, HistoryGrows DEF BusyTogether
  <2>2. CASE y = x
    BY <1>2, <2>2 DEF Joins
  <2>3. CASE z = x
    <3>1. {z, y} \in together'
      BY <1>2, <2>3 DEF Joins
    <3> QED
      BY <3>1, {y, z} = {z, y}
  <2> QED
    BY <2>1, <2>2, <2>3
<1> QED
  BY <1>1, <1>2, BusyGrows

\* An install without company has the directory for itself.
LEMMA Alone ==
  ASSUME BusyTogether, NEW i \in Installs, Installing(i), ~HasCompany(i),
         NEW x \in Installs \cup Removers, x \in Busy, DirOf(x) = DirOf(i)
  PROVE  x = i
<1> SUFFICES ASSUME x # i PROVE FALSE
  OBVIOUS
<1>1. {x, i} \in together
  BY DEF BusyTogether, Busy
<1> QED
  BY <1>1 DEF HasCompany

LEMMA UnseenStep == ASSUME IInv, [Next]_vars PROVE UnseenUserOverlaps'
<1> USE StoreAssumption DEF StoreAssumption, IInv, TypeOK, UnseenUserOverlaps
<1>1. ASSUME NEW i \in Installs, Install(i) PROVE UnseenUserOverlaps'
  <2>1. UNCHANGED <<rpc, dpc>>
    BY <1>1 DEF Install, MakeDir, Fetch, Clean, MakeRootfs, CreateTemp, Extract, OpenMeta, WriteMeta, WriteManifest,
      InstallFails, InstallCrashes
  <2> QED
    BY <2>1, HistoryGrows
<1>2. ASSUME NEW r \in Runs, OpenConfig(r) PROVE UnseenUserOverlaps'
  <2> SUFFICES ASSUME NEW k \in Removers, dpc[k] \in {"stat", "unlink"}, Name[k] = Name[r]
               PROVE  {k, r} \in together'
    BY <1>2, HistoryGrows DEF OpenConfig, RunGoes
  <2>1. k \in Busy \ {r} /\ DirOf(k) = DirOf(r)
    BY DEF Busy, Removing, DirOf
  <2>2. {r, k} \in together'
    BY <1>2, <2>1 DEF OpenConfig, Joins
  <2> QED
    BY <2>2, {r, k} = {k, r}
<1>3. ASSUME NEW r \in Runs, RootfsPath(r) \/ StartContainer(r) \/ WriteConfig(r) \/ RemoveContainer(r)
      PROVE UnseenUserOverlaps'
  BY <1>3, HistoryGrows DEF RootfsPath, StartContainer, WriteConfig, RemoveContainer, RunGoes
<1>4. ASSUME NEW k \in Removers, CheckUse(k) PROVE UnseenUserOverlaps'
  <2> SUFFICES ASSUME NEW r \in Runs, dpc'[k] = "stat", rpc[r] \in {"saved", "write"}, Name[k] = Name[r]
               PROVE  {k, r} \in together'
    BY <1>4, HistoryGrows DEF CheckUse, RemoverGoes
  <2>1. rpc[r] = "write"
    BY <1>4 DEF CheckUse, RemoverGoes, ContainersUsingImage
  <2>2. r \in Busy \ {k} /\ DirOf(k) = DirOf(r)
    BY <2>1 DEF Busy, Using, DirOf
  <2> QED
    BY <1>4, <2>2 DEF CheckUse, Joins
<1>5. ASSUME NEW k \in Removers, StatRootfs(k) \/ Unlink(k) \/ Rmdir(k) PROVE UnseenUserOverlaps'
  BY <1>5 DEF StatRootfs, Unlink, Rmdir, RemoverGoes
<1>6. CASE UNCHANGED vars
  BY <1>6 DEF vars
<1> QED
  BY <1>1, <1>2, <1>3, <1>4, <1>5, <1>6 DEF Next, Run, Remove
-----------------------------------------------------------------------------
(* What an install that has its directory for itself makes of it.           *)

\* A step of another one leaves what it has done.
LEMMA ProgressStays ==
  ASSUME NEW i \in Installs, Progress(i), UNCHANGED kind, ipc'[i] = ipc[i],
         DirOf(i) \in rootfs => DirOf(i) \in rootfs',
         file'[DirOf(i)] = file[DirOf(i)], meta'[DirOf(i)] = meta[DirOf(i)],
         i \in writing[DirOf(i)] => i \in writing'[DirOf(i)]
  PROVE  Progress(i)'
<1>1. MetaOf(i)' = MetaOf(i)
  BY DEF MetaOf, Length
<1> QED
  BY <1>1 DEF Progress, DirOf, Truncated

\* Its own steps add to it.
LEMMA ProgressStep ==
  ASSUME IInv, NEW i \in Installs, Install(i), Installing(i) => Progress(i), Installing(i)'
  PROVE  Progress(i)'
<1> DEFINE d == DirOf(i)
<1>0. d \in Dirs /\ i \in Actors
  BY DirOfActor DEF Actors
<1> USE DEF Go, IInv, TypeOK
<1>1. ASSUME MakeDir(i) PROVE Progress(i)'
  BY <1>1 DEF MakeDir, Progress
<1>2. ASSUME Fetch(i) \/ Clean(i) \/ MakeRootfs(i) \/ CreateTemp(i) PROVE Progress(i)'
  BY <1>2 DEF Progress, Fetch, Clean, MakeRootfs, CreateTemp
<1>3. ASSUME Extract(i, "extract1", 1, "extract2") PROVE Progress(i)'
  <2>1. file'[d][1] = i /\ d \in rootfs' /\ ipc'[i] = "extract2"
    BY <1>0, <1>3 DEF Extract, Paths
  <2> QED
    BY <2>1 DEF Progress, DirOf
<1>4. ASSUME Extract(i, "extract2", 2, "openMeta") PROVE Progress(i)'
  <2>1. ipc'[i] = "openMeta" /\ ipc[i] = "extract2"
    BY <1>4 DEF Extract
  <2>2. file'[d][1] = i /\ file'[d][2] = i /\ d \in rootfs'
    BY <1>0, <1>4, <2>1 DEF Extract, Paths, Progress, Installing
  <2> QED
    BY <2>1, <2>2 DEF Progress, DirOf
<1>5. ASSUME OpenMeta(i) PROVE Progress(i)'
  <2>1. ipc'[i] = "writeMeta" /\ ipc[i] = "openMeta" /\ UNCHANGED <<rootfs, file>>
    BY <1>5 DEF OpenMeta
  <2>2. meta'[d] = Truncated /\ i \in writing'[d]
    BY <1>0, <1>5 DEF OpenMeta
  <2> QED
    BY <2>1, <2>2 DEF Installing, Progress, DirOf, Truncated
<1>6. ASSUME WriteMeta(i) PROVE Progress(i)'
  <2>1. ipc[i] = "writeMeta" /\ Progress(i) /\ UNCHANGED <<kind, rootfs, file>>
    BY <1>6 DEF WriteMeta, Installing
  <2>2. meta'[d] = MetaOf(i) /\ d \in rootfs' /\ file'[d][1] = i /\ file'[d][2] = i
    BY <1>0, <1>6, <2>1, MetaTexts DEF WriteMeta, Progress
  <2>3. MetaOf(i)' = MetaOf(i) /\ ipc'[i] \in {"manifest", "done"}
    BY <1>6, <2>1 DEF MetaOf, Length, WriteMeta
  <2> QED
    BY <2>2, <2>3 DEF Progress, DirOf
<1>7. ASSUME WriteManifest(i) \/ InstallFails(i) \/ InstallCrashes(i) PROVE FALSE
  BY <1>7 DEF WriteManifest, InstallFails, InstallCrashes, Installing
<1> QED
  BY <1>1, <1>2, <1>3, <1>4, <1>5, <1>6, <1>7 DEF Install

LEMMA LoneInstallStep == ASSUME IInv, [Next]_vars PROVE LoneInstallIsKnown'
<1> SUFFICES ASSUME NEW i \in Installs, Installing(i)', ~HasCompany(i)' PROVE Progress(i)'
  BY DEF LoneInstallIsKnown
<1> DEFINE d == DirOf(i)
<1> USE StoreAssumption DEF StoreAssumption, storeVars
<1>0. d \in Dirs /\ i \in Actors /\ ~HasCompany(i)
  BY DirOfActor, CompanyStays DEF Actors
<1>1. Installing(i) => Progress(i)
  BY <1>0 DEF IInv, LoneInstallIsKnown
<1>2. ASSUME Install(i) PROVE Progress(i)'
  BY <1>1, <1>2, ProgressStep
<1>3. ASSUME NEW j \in Installs \ {i}, Install(j) PROVE Progress(i)'
  <2>1. ipc'[i] = ipc[i] /\ Installing(i)
    BY <1>3 DEF IInv, TypeOK, Install, MakeDir, Fetch, Clean, MakeRootfs, CreateTemp, Extract, OpenMeta, WriteMeta,
      WriteManifest, InstallFails, InstallCrashes, Go, Installing
  <2>2. DirOf(j) # d
    <3>1. CASE MakeDir(j)
      <4>1. DirOf(j) = d => {j, i} \in together'
        BY <2>1, <3>1 DEF MakeDir, Joins, Busy
      <4> QED
        BY <4>1 DEF HasCompany
    <3>2. CASE ~MakeDir(j)
      <4>1. Installing(j)
        BY <1>3, <3>2 DEF Install, Fetch, Clean, MakeRootfs, CreateTemp, Extract, OpenMeta, WriteMeta, WriteManifest,
          InstallFails, InstallCrashes, Go, Installing
      <4> QED
        BY <1>0, <2>1, <4>1, Alone DEF IInv, Busy
    <3> QED
      BY <3>1, <3>2
  <2>3. /\ d \in rootfs' <=> d \in rootfs
        /\ UNCHANGED <<kind, file[d], meta[d]>>
        /\ i \in writing[d] => i \in writing'[d]
    BY <1>0, <1>3, <2>2 DEF IInv, TypeOK, Install, MakeDir, Fetch, Clean, MakeRootfs, CreateTemp, Extract, OpenMeta, WriteMeta,
      WriteManifest, InstallFails, InstallCrashes, StopWriting
  <2> QED
    BY <1>1, <2>1, <2>3, ProgressStays
<1>4. ASSUME NEW r \in Runs, Run(r) PROVE Progress(i)'
  <2>1. UNCHANGED <<kind, ipc, storeVars>>
    BY <1>4 DEF Run, RootfsPath, StartContainer, OpenConfig, WriteConfig, RemoveContainer
  <2> QED
    BY <1>1, <2>1, ProgressStays DEF Installing
<1>5. ASSUME NEW k \in Removers, Remove(k) PROVE Progress(i)'
  <2>1. UNCHANGED <<kind, ipc>> /\ Installing(i)
    BY <1>5 DEF Remove, CheckUse, StatRootfs, Unlink, Rmdir, Installing
  <2>2. CASE Unlink(k)
    <3>1. k \in Busy
      BY <2>2 DEF Unlink, RemoverGoes, Busy, Removing
    <3>2. DirOf(k) # d
      BY <1>0, <2>1, <3>1, Alone DEF IInv
    <3>3. /\ d \in rootfs' <=> d \in rootfs
          /\ UNCHANGED <<file[d], meta[d], writing[d]>>
      BY <1>0, <2>2, <3>2 DEF Unlink, IInv, TypeOK
    <3> QED
      BY <1>1, <2>1, <3>3, ProgressStays
  <2>3. CASE ~Unlink(k)
    <3>1. UNCHANGED <<rootfs, file, meta, writing>>
      BY <1>5, <2>3 DEF Remove, CheckUse, StatRootfs, Rmdir
    <3> QED
      BY <1>1, <2>1, <3>1, ProgressStays
  <2> QED
    BY <2>2, <2>3
<1>6. CASE UNCHANGED vars
  BY <1>1, <1>6, ProgressStays DEF vars, Installing
<1> QED
  BY <1>2, <1>3, <1>4, <1>5, <1>6 DEF Next

-----------------------------------------------------------------------------
(* What a directory holds between installs.                                 *)

LEMMA SettledStays ==
  ASSUME NEW d, Settled(d), UNCHANGED kind, d \in rootfs' <=> d \in rootfs,
         file'[d] = file[d], meta'[d] = meta[d], manifest'[d] = manifest[d]
  PROVE  Settled(d)'
<1>1. \A i \in Installs : MetaOf(i)' = MetaOf(i)
  BY DEF MetaOf, Length
<1> QED
  BY <1>1 DEF Settled, Stored

\* An install that was not disturbed leaves all of an image.
LEMMA CompletedSettles ==
  ASSUME IInv, NEW i \in Installs, Install(i), Installing(i), ~Installing(i)', DirOf(i) \notin broken'
  PROVE  Settled(DirOf(i))'
<1> DEFINE d == DirOf(i)
<1>0. d \in Dirs /\ i \in Actors
  BY DirOfActor DEF Actors
<1> USE DEF Go, IInv, TypeOK
<1>1. ASSUME WriteMeta(i) PROVE Settled(d)'
  <2>1. ipc[i] = "writeMeta" /\ kind[i] # "oci" /\ UNCHANGED <<kind, rootfs, file>>
    BY <1>1 DEF WriteMeta, Installing
  <2>2. Progress(i)
    BY <1>1, <2>1 DEF WriteMeta, Completed, LoneInstallIsKnown
  <2>3. meta'[d] = MetaOf(i) /\ d \in rootfs' /\ file'[d][1] = i /\ file'[d][2] = i
    BY <1>0, <1>1, <2>1, <2>2, MetaTexts DEF WriteMeta, Progress
  <2>4. MetaOf(i)' = MetaOf(i)
    BY <2>1 DEF MetaOf, Length
  <2>5. file'[d] = [p \in Paths |-> i]
    BY <1>0, <2>1, <2>3 DEF Paths
  <2> QED
    BY <2>1, <2>3, <2>4, <2>5 DEF Settled, Stored, DirOf
<1>2. ASSUME WriteManifest(i) PROVE Settled(d)'
  <2>1. ipc[i] = "manifest" /\ Progress(i) /\ UNCHANGED <<kind, rootfs, file, meta>>
    BY <1>2 DEF WriteManifest, Completed, LoneInstallIsKnown
  <2>2. manifest'[d] = i
    BY <1>0, <1>2 DEF WriteManifest
  <2>3. meta'[d] = MetaOf(i) /\ MetaOf(i)' = MetaOf(i)
    BY <2>1 DEF Progress, MetaOf, Length
  <2>4. file'[d] = [p \in Paths |-> i] /\ d \in rootfs'
    BY <1>0, <2>1 DEF Paths, Progress
  <2> QED
    BY <2>2, <2>3, <2>4 DEF Settled, Stored, DirOf
<1>3. ASSUME InstallFails(i) \/ InstallCrashes(i) PROVE FALSE
  BY <1>3 DEF InstallFails, InstallCrashes
<1>4. ASSUME \/ MakeDir(i) \/ Fetch(i) \/ Clean(i) \/ MakeRootfs(i) \/ CreateTemp(i)
             \/ Extract(i, "extract1", 1, "extract2") \/ Extract(i, "extract2", 2, "openMeta") \/ OpenMeta(i)
      PROVE  FALSE
  BY <1>4 DEF MakeDir, Fetch, Clean, MakeRootfs, CreateTemp, Extract, OpenMeta, Installing
<1> QED
  BY <1>1, <1>2, <1>3, <1>4 DEF Install

LEMMA SettledStep == ASSUME IInv, [Next]_vars PROVE UnbrokenIsSettled'
<1> SUFFICES ASSUME NEW d \in Dirs, d \notin broken', \A i \in Installs : DirOf(i) = d => ~Installing(i)'
             PROVE  Settled(d)'
  BY DEF UnbrokenIsSettled, Dirs, DirOf
<1> USE DEF storeVars
<1>1. ASSUME NEW i \in Installs, Install(i) PROVE Settled(d)'
  <2>1. CASE DirOf(i) = d
    <3>1. ~MakeDir(i)
      BY <2>1 DEF MakeDir, Go, Installing, IInv, TypeOK
    <3>2. Installing(i)
      BY <1>1, <3>1 DEF Install, Fetch, Clean, MakeRootfs, CreateTemp, Extract, OpenMeta, WriteMeta, WriteManifest,
        InstallFails, InstallCrashes, Go, Installing
    <3> QED
      BY <1>1, <2>1, <3>2, CompletedSettles
  <2>2. CASE DirOf(i) # d
    <3>1. \A j \in Installs \ {i} : ipc'[j] = ipc[j]
      BY <1>1 DEF IInv, TypeOK, Install, MakeDir, Fetch, Clean, MakeRootfs, CreateTemp, Extract, OpenMeta, WriteMeta,
        WriteManifest, InstallFails, InstallCrashes, Go
    <3>2. /\ d \in rootfs' <=> d \in rootfs
          /\ UNCHANGED <<kind, file[d], meta[d], manifest[d]>>
      BY <1>1, <2>2 DEF IInv, TypeOK, Install, MakeDir, Fetch, Clean, MakeRootfs, CreateTemp, Extract, OpenMeta, WriteMeta,
        WriteManifest, InstallFails, InstallCrashes, StopWriting
    <3>3. d \notin broken
      BY <1>1, <2>2 DEF Install, MakeDir, Fetch, Clean, MakeRootfs, CreateTemp, Extract, OpenMeta, WriteMeta,
        WriteManifest, InstallFails, InstallCrashes, Completed
    <3>4. Settled(d)
      BY <2>2, <3>1, <3>3 DEF IInv, UnbrokenIsSettled, Installing
    <3> QED
      BY <3>2, <3>4, SettledStays
  <2> QED
    BY <2>1, <2>2
<1>2. ASSUME NEW r \in Runs, Run(r) PROVE Settled(d)'
  <2>1. UNCHANGED <<kind, ipc, storeVars, broken>>
    BY <1>2 DEF Run, RootfsPath, StartContainer, OpenConfig, WriteConfig, RemoveContainer
  <2>2. Settled(d)
    BY <2>1 DEF IInv, UnbrokenIsSettled, Installing
  <2> QED
    BY <2>1, <2>2, SettledStays
<1>3. ASSUME NEW k \in Removers, Unlink(k), DirOf(k) = d PROVE Settled(d)'
  BY <1>3 DEF Unlink, Settled, IInv, TypeOK
<1>4. ASSUME NEW k \in Removers, Remove(k), ~Unlink(k) \/ d # DirOf(k) PROVE Settled(d)'
  <2>1. /\ UNCHANGED <<kind, ipc, file[d], meta[d], manifest[d]>>
        /\ d \in rootfs' <=> d \in rootfs
        /\ d \notin broken
    BY <1>4 DEF IInv, TypeOK, Remove, CheckUse, StatRootfs, Unlink, Rmdir
  <2>2. Settled(d)
    BY <2>1 DEF IInv, UnbrokenIsSettled, Installing
  <2> QED
    BY <2>1, <2>2, SettledStays
<1>5. CASE UNCHANGED vars
  <2>1. Settled(d)
    BY <1>5 DEF vars, IInv, UnbrokenIsSettled, Installing
  <2> QED
    BY <1>5, <2>1, SettledStays DEF vars
<1> QED
  BY <1>1, <1>2, <1>3, <1>4, <1>5 DEF Next, Remove

-----------------------------------------------------------------------------
(* What a container starts on.                                              *)

\* Only an install or rmi at work on a directory changes what its rootfs holds.
LEMMA WholeStays ==
  ASSUME IInv, [Next]_vars, NEW d \in Dirs, Whole(d),
         \A x \in Busy \ Runs : DirOf(x) # d
  PROVE  Whole(d)'
<1> USE StoreAssumption DEF StoreAssumption, IInv, TypeOK, Whole, Busy, storeVars
<1>1. ASSUME NEW i \in Installs, Install(i) PROVE Whole(d)'
  <2>1. CASE MakeDir(i)
    BY <2>1 DEF MakeDir
  <2>2. CASE DirOf(i) # d
    BY <1>1, <2>2 DEF Install, MakeDir, Fetch, Clean, MakeRootfs, CreateTemp, Extract, OpenMeta, WriteMeta, WriteManifest,
      InstallFails, InstallCrashes
  <2>3. CASE ~MakeDir(i)
    <3>1. Installing(i)
      BY <1>1, <2>3 DEF Installing, Install, Fetch, Clean, MakeRootfs, CreateTemp, Extract, OpenMeta, WriteMeta, WriteManifest,
        InstallFails, InstallCrashes, Go
    <3> QED
      BY <2>2, <3>1
  <2> QED
    BY <2>1, <2>3
<1>2. ASSUME NEW r \in Runs, Run(r) PROVE Whole(d)'
  BY <1>2 DEF Run, RootfsPath, StartContainer, OpenConfig, WriteConfig, RemoveContainer
<1>3. ASSUME NEW k \in Removers, Remove(k) PROVE Whole(d)'
  <2>1. CASE Unlink(k)
    <3>1. k \in Busy \ Runs
      BY <2>1 DEF Unlink, RemoverGoes, Removing
    <3> QED
      BY <2>1, <3>1 DEF Unlink
  <2> QED
    BY <1>3, <2>1 DEF Remove, CheckUse, StatRootfs, Rmdir
<1>4. CASE UNCHANGED vars
  BY <1>4 DEF vars
<1> QED
  BY <1>1, <1>2, <1>3, <1>4 DEF Next

\* Only an install or rmi at work on a directory puts it in order.
LEMMA OnlyBusyMend ==
  ASSUME IInv, [Next]_vars, NEW d \in Dirs, d \notin broken',
         \A x \in Installs \cup Removers : x \in Busy => DirOf(x) # d
  PROVE  d \notin broken
<1> USE StoreAssumption DEF StoreAssumption, Busy
<1>1. ASSUME NEW i \in Installs, Install(i) PROVE d \notin broken
  BY <1>1 DEF Install, MakeDir, Fetch, Clean, MakeRootfs, CreateTemp, Extract, OpenMeta, WriteMeta, WriteManifest,
    InstallFails, InstallCrashes, Completed, Go, Installing
<1>2. ASSUME NEW r \in Runs, Run(r) PROVE d \notin broken
  BY <1>2 DEF Run, RootfsPath, StartContainer, OpenConfig, WriteConfig, RemoveContainer
<1>3. ASSUME NEW k \in Removers, Remove(k) PROVE d \notin broken
  BY <1>3 DEF Remove, CheckUse, StatRootfs, Unlink, Rmdir, RemoverGoes, Removing
<1>4. CASE UNCHANGED vars
  BY <1>4 DEF vars
<1> QED
  BY <1>1, <1>2, <1>3, <1>4 DEF Next

LEMMA FoundStep == ASSUME IInv, [Next]_vars PROVE FoundIsWhole'
<1> DEFINE Raced(r) == \E x \in Installs \cup Removers : {x, r} \in together
<1> USE StoreAssumption DEF StoreAssumption
<1> SUFFICES ASSUME NEW r \in Runs, rpc'[r] = "start", DirOf(r) \notin broken', ~Raced(r)'
             PROVE  Whole(DirOf(r))'
  BY DEF FoundIsWhole, DirOf
<1> DEFINE d == DirOf(r)
<1>0. d \in Dirs /\ r \in Actors
  BY DirOfActor DEF Actors
<1>1. ~Raced(r)
  BY HistoryGrows
<1>2. CASE rpc[r] = "start"
  <2>1. ASSUME NEW x \in Installs \cup Removers, x \in Busy, DirOf(x) = d PROVE FALSE
    <3>1. r \in Busy /\ x # r
      BY <1>2 DEF Busy, Using
    <3>2. {x, r} \in together
      BY <2>1, <3>1 DEF IInv, BusyTogether
    <3> QED
      BY <1>1, <3>2
  <2>2. d \notin broken
    BY <1>0, <2>1, OnlyBusyMend
  <2>3. Whole(d)
    BY <1>1, <1>2, <2>2 DEF IInv, FoundIsWhole
  <2> QED
    BY <1>0, <2>1, <2>3, WholeStays DEF Busy
<1>3. CASE rpc[r] # "start"
  <2>1. RootfsPath(r)
    BY <1>3 DEF IInv, TypeOK, Next, vars, Install, MakeDir, Fetch, Clean, MakeRootfs, CreateTemp, Extract, OpenMeta, WriteMeta,
      WriteManifest, InstallFails, InstallCrashes, Run, RootfsPath, StartContainer, OpenConfig, WriteConfig,
      RemoveContainer, RunGoes, Remove, CheckUse, StatRootfs, Unlink, Rmdir
  <2>2. ASSUME NEW i \in Installs, DirOf(i) = d, Installing(i) PROVE FALSE
    <3>1. i \in Busy \ {r}
      BY <2>2 DEF Busy
    <3>2. {r, i} \in together'
      BY <2>1, <2>2, <3>1 DEF RootfsPath, Joins
    <3>3. {i, r} \in together'
      BY <3>2, {r, i} = {i, r}
    <3> QED
      BY <3>3
  <2>3. Settled(d)
    BY <1>0, <2>1, <2>2 DEF IInv, UnbrokenIsSettled, RootfsPath
  <2>4. Whole(d)
    BY <2>1, <2>3 DEF RootfsPath, Settled, Stored, Whole
  <2> QED
    BY <2>1, <2>4 DEF RootfsPath, Whole, storeVars, DirOf
<1> QED
  BY <1>2, <1>3

-----------------------------------------------------------------------------
(* The theorems.                                                            *)

LEMMA IInvInit == ASSUME Init PROVE IInv
<1>1. TypeOK
  BY TypeInit
<1>2. Busy = {}
  BY DEF Init, Busy, Installing, Using, Removing
<1>3. \A d \in Dirs : Settled(d)
  BY DEF Init, Settled
<1>4. LoneInstallIsKnown /\ UnbrokenIsSettled
  BY <1>3 DEF LoneInstallIsKnown, UnbrokenIsSettled, Init, Installing
<1> QED
  BY <1>1, <1>2, <1>4 DEF Init, IInv, BusyTogether, UnseenUserOverlaps, FoundIsWhole

LEMMA IInvStep == ASSUME IInv, [Next]_vars PROVE IInv'
BY TypeStep, BusyTogetherStep, UnseenStep, LoneInstallStep, SettledStep, FoundStep DEF IInv

\* The state keeps its types, invocations at work on one directory are noted as
\* such, what is in a directory that an install has for itself follows from how far it
\* is, and between installs the last one, if it was undisturbed, has left all of an
\* image: Store's steps on rootfs/, meta and manifest.json.
THEOREM Invariance == Spec => []IInv
<1>1. Init => IInv
  BY IInvInit
<1>2. IInv /\ [Next]_vars => IInv'
  BY IInvStep
<1> QED
  BY <1>1, <1>2, PTL DEF Spec

\* The meta of a stored image, and its manifest.json, belong to the install that
\* filled its rootfs, unless the last install there failed, was killed, or had company:
\* whatever those before it left.
THEOREM MetaTellsContentAlways == Spec => []MetaTellsContent
<1>1. IInv => MetaTellsContent
  <2> SUFFICES ASSUME IInv, NEW d \in Dirs, NEW i \in Installs,
                      meta[d] = MetaOf(i), Quiet(d), d \notin broken
               PROVE  Stored(d, i)
    BY DEF MetaTellsContent
  <2>1. Settled(d)
    <3>1. \A j \in Installs : DirOf(j) = d => ~Installing(j)
      BY StoreAssumption DEF StoreAssumption, Quiet, Busy
    <3> QED
      BY <3>1 DEF IInv, UnbrokenIsSettled
  <2>2. meta[d] # None
    BY StoreAssumption, MetaTexts DEF StoreAssumption, IInv, TypeOK
  <2>3. PICK j \in Installs : meta[d] = MetaOf(j) /\ Stored(d, j)
    BY <2>1, <2>2 DEF Settled
  <2>4. j = i
    BY <2>3 DEF MetaOf
  <2> QED
    BY <2>3, <2>4
<1> QED
  BY <1>1, Invariance, PTL

\* A container starts on a whole rootfs, however long after run looked for it,
\* unless an install or rmi overlapped the run or the last install there was disturbed.
THEOREM StartsOnWholeImageAlways == Spec => StartsOnWholeImage
<1>1. IInv /\ [Next]_vars =>
        [\A r \in Runs : rpc[r] = "start" /\ rpc'[r] = "save" =>
          \/ Whole(DirOf(r)) \/ DirOf(r) \in broken
          \/ \E x \in Installs \cup Removers : {x, r} \in together]_vars
  BY DEF IInv, FoundIsWhole
<1> QED
  BY <1>1, Invariance, PTL DEF Spec, StartsOnWholeImage

\* rmi unlinks the image of a container only if its check of the config.json files
\* overlapped the run or a save of it, or saw another name for the directory.
THEOREM RmiTakesUsedOnlyByRaceAlways == Spec => RmiTakesUsedOnlyByRace
<1>1. IInv /\ [Next]_vars =>
        [\A k \in Removers : dpc[k] = "unlink" /\ dpc'[k] = "rmdir"
          => \A r \in UsersOf(DirOf(k)) : {k, r} \in together \/ Name[r] # Name[k]]_vars
  BY DEF IInv, UnseenUserOverlaps, UsersOf
<1> QED
  BY <1>1, Invariance, PTL DEF Spec, RmiTakesUsedOnlyByRace
===============================================================================
