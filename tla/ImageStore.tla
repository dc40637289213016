------------------------------ MODULE ImageStore ------------------------------
(***************************************************************************)
(* image.Store (internal/image/image.go and oci.go) and the invocations    *)
(* that share it: installs (Pull, InstallFromTar, InstallFromOCI), rmi and  *)
(* the runs whose containers live on an image's rootfs. Each image has a    *)
(* directory with rootfs/, meta and, from an OCI layout, manifest.json;     *)
(* an install replaces them one after the other, and nothing locks them.   *)
(*                                                                         *)
(* The files of a rootfs are two paths, which every install has; meta and   *)
(* manifest.json hold the install they come from.                          *)
(***************************************************************************)
EXTENDS Naturals, FiniteSets

CONSTANTS
  Installs,  \* the calls of Pull, InstallFromTar and InstallFromOCI
  Runs,      \* the invocations of run, one container each
  Removers,  \* the invocations of rmi
  Name,      \* the image name each invocation is given
  Dir,       \* sanitize: the directory of a name
  MaxMishaps,\* bound on failing system calls and downloads and on invocations
             \* killed from outside, together
  None

\* What an install writes into meta: whose text and of what length.
Texts == [by : Installs \cup {None}, length : 0 .. 4]

ASSUME StoreAssumption ==
  /\ None \notin Installs \cup Texts
  /\ Installs \cap Runs = {} /\ Installs \cap Removers = {} /\ Runs \cap Removers = {}
  /\ MaxMishaps \in Nat

VARIABLES
  kind,     \* what each install gets its content from
  ipc,      \* where each install is
  dirs,     \* the image directories that exist
  rootfs,   \* those with a rootfs in it
  file,     \* the install each path of a rootfs comes from
  meta,     \* the text in meta: whose it begins with and how long it is, or None
  writing,  \* who has each meta open to write it
  manifest, \* the install manifest.json describes, None without one
  temp,     \* the installs whose downloaded or copied tarball is in its directory
  rpc,      \* where each run is
  dpc,      \* where each rmi is
  broken,   \* history: directories an install failed in, was killed in or shared with
            \* another or an rmi, and no undisturbed install or rmi went through since
  together, \* history: pairs of invocations that worked on an image at once
  faults, crashes

storeVars == <<dirs, rootfs, file, meta, writing, manifest, temp>>
boundVars == <<faults, crashes>>
vars == <<kind, ipc, storeVars, rpc, dpc, broken, together, boundVars>>

Actors   == Installs \cup Runs \cup Removers
DirOf(x) == Dir[Name[x]]
Dirs     == {DirOf(x) : x \in Actors}
Paths    == 1 .. 2

\* A tarball that is downloaded, a local one, or an OCI layout.
Kinds == {"pull", "local", "oci"}

InstallPC == {"new", "fetch", "clean", "make", "temp", "extract1", "extract2",
              "openMeta", "writeMeta", "manifest", "done", "failed"}
RunPC     == {"new", "start", "save", "write", "saved", "removed"}
RemoverPC == {"new", "stat", "unlink", "rmdir", "end"}

Installing(i) == ipc[i] \notin {"new", "done", "failed"}
Using(r)      == rpc[r] \in {"start", "save", "write"}
Removing(k)   == dpc[k] \in {"stat", "unlink", "rmdir"}

Busy == {i \in Installs : Installing(i)} \cup {r \in Runs : Using(r)}
          \cup {k \in Removers : Removing(k)}

\* An install or rmi worked on the directory of i at the same time.
HasCompany(i) == \E x \in (Installs \cup Removers) \ {i} : {x, i} \in together

\* Install i is complete, and the image is in order again if i had the directory for itself.
Completed(i) ==
  broken' = IF HasCompany(i) THEN broken \cup {DirOf(i)} ELSE broken \ {DirOf(i)}

\* Invocation x begins its work on an image.
Joins(x) == together' = together \cup {{x, y} : y \in {y \in Busy \ {x} : DirOf(y) = DirOf(x)}}

-----------------------------------------------------------------------------
(* Installs.                                                                *)

Go(i, from, to) == ipc[i] = from /\ ipc' = [ipc EXCEPT ![i] = to]

\* The image directory is made. InstallFromOCI has read index.json and the
\* manifest before.
MakeDir(i) ==
  /\ Go(i, "new", IF kind[i] = "oci" THEN "clean" ELSE "fetch")
  /\ dirs' = dirs \cup {DirOf(i)}
  /\ Joins(i)
  /\ UNCHANGED <<kind, rootfs, file, meta, writing, manifest, temp, rpc, dpc, broken, boundVars>>

\* Pull downloads into a temporary file of the image directory, and takes the
\* digest it computes as it is; InstallFromTar reads the tarball into memory.
Fetch(i) ==
  /\ kind[i] = "pull" => DirOf(i) \in dirs
  /\ Go(i, "fetch", "clean")
  /\ temp' = IF kind[i] = "pull" THEN temp \cup {i} ELSE temp
  /\ UNCHANGED <<kind, dirs, rootfs, file, meta, writing, manifest, rpc, dpc, broken, together, boundVars>>

\* os.RemoveAll(rootfs)
Clean(i) ==
  /\ Go(i, "clean", "make")
  /\ rootfs' = rootfs \ {DirOf(i)}
  /\ file'   = [file EXCEPT ![DirOf(i)] = [p \in Paths |-> None]]
  /\ UNCHANGED <<kind, dirs, meta, writing, manifest, temp, rpc, dpc, broken, together, boundVars>>

\* os.MkdirAll(rootfs), which makes the image directory too.
MakeRootfs(i) ==
  /\ Go(i, "make", IF kind[i] = "local" THEN "temp" ELSE "extract1")
  /\ dirs'   = dirs \cup {DirOf(i)}
  /\ rootfs' = rootfs \cup {DirOf(i)}
  /\ UNCHANGED <<kind, file, meta, writing, manifest, temp, rpc, dpc, broken, together, boundVars>>

\* InstallFromTar writes what it has read into a temporary file of the image directory.
CreateTemp(i) ==
  /\ DirOf(i) \in dirs
  /\ Go(i, "temp", "extract1")
  /\ temp' = temp \cup {i}
  /\ UNCHANGED <<kind, dirs, rootfs, file, meta, writing, manifest, rpc, dpc, broken, together, boundVars>>

\* Mutant: extraction ends at the first entry as at the last one, as when the end of
\* a truncated stream is taken for that of the tarball.
ExtractEndsEarly(i, from, p, to) ==
  /\ Go(i, from, "openMeta")
  /\ p = 1 /\ kind[i] # "oci" => i \in temp
  /\ dirs'   = dirs \cup {DirOf(i)}
  /\ rootfs' = rootfs \cup {DirOf(i)}
  /\ file'   = [file EXCEPT ![DirOf(i)][p] = i]
  /\ UNCHANGED <<kind, meta, writing, manifest, temp, rpc, dpc, broken, together, boundVars>>

\* One entry of the tarball or layers, with the directories above it.
Extract(i, from, p, to) ==
  /\ Go(i, from, to)
  /\ p = 1 /\ kind[i] # "oci" => i \in temp
  /\ dirs'   = dirs \cup {DirOf(i)}
  /\ rootfs' = rootfs \cup {DirOf(i)}
  /\ file'   = [file EXCEPT ![DirOf(i)][p] = i]
  /\ UNCHANGED <<kind, meta, writing, manifest, temp, rpc, dpc, broken, together, boundVars>>

\* The texts of meta: that of a pull has two lines, of a local tarball three, of
\* an OCI layout four.
Length(i)    == CASE kind[i] = "pull" -> 2 [] kind[i] = "local" -> 3 [] kind[i] = "oci" -> 4
MetaOf(i)    == [by |-> i, length |-> Length(i)]
Truncated    == [by |-> None, length |-> 0]
Overwrite(text, i) ==
  [by |-> i, length |-> IF text.length > Length(i) THEN text.length ELSE Length(i)]

\* os.WriteFile(meta) truncates the file, then writes at its start; a file that
\* was unlinked in between takes the text with it. That is the end of an install
\* from a tarball, whose temporary file is removed.
OpenMeta(i) ==
  /\ DirOf(i) \in dirs
  /\ Go(i, "openMeta", "writeMeta")
  /\ meta'    = [meta EXCEPT ![DirOf(i)] = Truncated]
  /\ writing' = [writing EXCEPT ![DirOf(i)] = @ \cup {i}]
  /\ UNCHANGED <<kind, dirs, rootfs, file, manifest, temp, rpc, dpc, broken, together, boundVars>>

WriteMeta(i) ==
  /\ Go(i, "writeMeta", IF kind[i] = "oci" THEN "manifest" ELSE "done")
  /\ meta' = IF i \in writing[DirOf(i)]
             THEN [meta EXCEPT ![DirOf(i)] = Overwrite(@, i)] ELSE meta
  /\ writing' = [writing EXCEPT ![DirOf(i)] = @ \ {i}]
  /\ temp' = temp \ {i}
  /\ IF kind[i] = "oci" THEN UNCHANGED broken ELSE Completed(i)
  /\ UNCHANGED <<kind, dirs, rootfs, file, manifest, rpc, dpc, together, boundVars>>

\* Mutant: the copy of the manifest is not written.
WriteManifestSkipped(i) ==
  /\ DirOf(i) \in dirs
  /\ Go(i, "manifest", "done")
  /\ Completed(i)
  /\ UNCHANGED <<kind, storeVars, rpc, dpc, together, boundVars>>

WriteManifest(i) ==
  /\ DirOf(i) \in dirs
  /\ Go(i, "manifest", "done")
  /\ manifest' = [manifest EXCEPT ![DirOf(i)] = i]
  /\ Completed(i)
  /\ UNCHANGED <<kind, dirs, rootfs, file, meta, writing, temp, rpc, dpc, together, boundVars>>

\* An install that stops as it writes manifest.json may leave it truncated.
StopWriting(i) ==
  /\ writing' = [d \in Dirs |-> writing[d] \ {i}]
  /\ \/ UNCHANGED manifest
     \/ /\ ipc[i] = "manifest" /\ DirOf(i) \in dirs
        /\ manifest' = [manifest EXCEPT ![DirOf(i)] = "torn"]

\* An error return leaves the directory as it is: because what the step needs
\* was removed, or because it failed.
InstallFails(i) ==
  /\ Installing(i)
  /\ \/ /\ \/ ipc[i] \in {"temp", "openMeta", "manifest"} /\ DirOf(i) \notin dirs
           \/ ipc[i] = "fetch" /\ kind[i] = "pull" /\ DirOf(i) \notin dirs
           \/ ipc[i] = "extract1" /\ kind[i] # "oci" /\ i \notin temp
        /\ UNCHANGED boundVars
     \/ faults + crashes < MaxMishaps /\ faults' = faults + 1 /\ UNCHANGED crashes
  /\ ipc'    = [ipc EXCEPT ![i] = "failed"]
  /\ temp'   = temp \ {i}
  /\ broken' = broken \cup {DirOf(i)}
  /\ StopWriting(i)
  /\ UNCHANGED <<kind, dirs, rootfs, file, meta, rpc, dpc, together>>

InstallCrashes(i) ==
  /\ Installing(i)
  /\ faults + crashes < MaxMishaps /\ crashes' = crashes + 1
  /\ ipc'    = [ipc EXCEPT ![i] = "failed"]
  /\ broken' = broken \cup {DirOf(i)}
  /\ StopWriting(i)
  /\ UNCHANGED <<kind, dirs, rootfs, file, meta, temp, rpc, dpc, together, faults>>

Install(i) ==
  \/ MakeDir(i) \/ Fetch(i) \/ Clean(i) \/ MakeRootfs(i) \/ CreateTemp(i)
  \/ Extract(i, "extract1", 1, "extract2") \/ Extract(i, "extract2", 2, "openMeta")
  \/ OpenMeta(i) \/ WriteMeta(i) \/ WriteManifest(i)
  \/ InstallFails(i) \/ InstallCrashes(i)

-----------------------------------------------------------------------------
(* Runs: RootfsPath looks for the rootfs, container-init pivots into it, and *)
(* only then config.json names the image.                                  *)

RunGoes(r, from, to) == rpc[r] = from /\ rpc' = [rpc EXCEPT ![r] = to]

\* Mutant: the path is returned without a look at it.
RootfsPathUnchecked(r) ==
  /\ RunGoes(r, "new", "start")
  /\ Joins(r)
  /\ UNCHANGED <<kind, ipc, storeVars, dpc, broken, boundVars>>

RootfsPath(r) ==
  /\ DirOf(r) \in rootfs
  /\ RunGoes(r, "new", "start")
  /\ Joins(r)
  /\ UNCHANGED <<kind, ipc, storeVars, dpc, broken, boundVars>>

StartContainer(r) ==
  /\ RunGoes(r, "start", "save")
  /\ UNCHANGED <<kind, ipc, storeVars, dpc, broken, together, boundVars>>

\* saveInfo truncates config.json before it writes it: the run's own save, and
\* those of a stop or of the end of the process.
OpenConfig(r) ==
  /\ RunGoes(r, "save", "write") \/ RunGoes(r, "saved", "write")
  /\ Joins(r)
  /\ UNCHANGED <<kind, ipc, storeVars, dpc, broken, boundVars>>

WriteConfig(r) ==
  /\ RunGoes(r, "write", "saved")
  /\ UNCHANGED <<kind, ipc, storeVars, dpc, broken, together, boundVars>>

RemoveContainer(r) ==
  /\ RunGoes(r, "saved", "removed")
  /\ UNCHANGED <<kind, ipc, storeVars, dpc, broken, together, boundVars>>

Run(r) == RootfsPath(r) \/ StartContainer(r) \/ OpenConfig(r) \/ WriteConfig(r) \/ RemoveContainer(r)

-----------------------------------------------------------------------------
(* rmi.                                                                     *)

RemoverGoes(k, from, to) == dpc[k] = from /\ dpc' = [dpc EXCEPT ![k] = to]

\* ContainersUsingImage compares the names in each config.json it can read.
ContainersUsingImage(name) == {r \in Runs : rpc[r] = "saved" /\ Name[r] = name}

\* Mutant: rmi does not ask.
CheckUseSkipped(k) ==
  /\ RemoverGoes(k, "new", "stat")
  /\ Joins(k)
  /\ UNCHANGED <<kind, ipc, storeVars, rpc, broken, boundVars>>

CheckUse(k) ==
  /\ RemoverGoes(k, "new", IF ContainersUsingImage(Name[k]) = {} THEN "stat" ELSE "end")
  /\ Joins(k)
  /\ UNCHANGED <<kind, ipc, storeVars, rpc, broken, boundVars>>

\* Store.Remove of an image without rootfs is an error.
StatRootfs(k) ==
  /\ RemoverGoes(k, "stat", IF DirOf(k) \in rootfs THEN "unlink" ELSE "end")
  /\ UNCHANGED <<kind, ipc, storeVars, rpc, broken, together, boundVars>>

\* os.RemoveAll empties the directory, then removes it unless it was filled
\* again.
Unlink(k) ==
  /\ RemoverGoes(k, "unlink", "rmdir")
  /\ rootfs'   = rootfs \ {DirOf(k)}
  /\ file'     = [file EXCEPT ![DirOf(k)] = [p \in Paths |-> None]]
  /\ meta'     = [meta EXCEPT ![DirOf(k)] = None]
  /\ writing'  = [writing EXCEPT ![DirOf(k)] = {}]
  /\ manifest' = [manifest EXCEPT ![DirOf(k)] = None]
  /\ temp'     = {i \in temp : DirOf(i) # DirOf(k)}
  /\ broken'   = broken \ {DirOf(k)}
  /\ UNCHANGED <<kind, ipc, dirs, rpc, together, boundVars>>

Rmdir(k) ==
  LET d == DirOf(k)
      empty == d \notin rootfs /\ meta[d] = None /\ manifest[d] = None
                 /\ \A i \in temp : DirOf(i) # d
  IN  /\ RemoverGoes(k, "rmdir", "end")
      /\ dirs' = IF empty THEN dirs \ {d} ELSE dirs
      /\ UNCHANGED <<kind, ipc, rootfs, file, meta, writing, manifest, temp, rpc, broken, together, boundVars>>

Remove(k) == CheckUse(k) \/ StatRootfs(k) \/ Unlink(k) \/ Rmdir(k)

-----------------------------------------------------------------------------
Init ==
  /\ kind \in [Installs -> Kinds]
  /\ ipc      = [i \in Installs |-> "new"]
  /\ dirs     = {}
  /\ rootfs   = {}
  /\ file     = [d \in Dirs |-> [p \in Paths |-> None]]
  /\ meta     = [d \in Dirs |-> None]
  /\ writing  = [d \in Dirs |-> {}]
  /\ manifest = [d \in Dirs |-> None]
  /\ temp     = {}
  /\ rpc      = [r \in Runs |-> "new"]
  /\ dpc      = [k \in Removers |-> "new"]
  /\ broken   = {}
  /\ together = {}
  /\ faults = 0 /\ crashes = 0

Next ==
  \/ \E i \in Installs : Install(i)
  \/ \E r \in Runs : Run(r)
  \/ \E k \in Removers : Remove(k)

Spec == Init /\ [][Next]_vars

-----------------------------------------------------------------------------
(* Properties.                                                              *)

TypeOK ==
  /\ kind \in [Installs -> Kinds]
  /\ ipc  \in [Installs -> InstallPC]
  /\ dirs \subseteq Dirs /\ rootfs \subseteq dirs
  /\ file \in [Dirs -> [Paths -> Installs \cup {None}]]
  /\ meta \in [Dirs -> Texts \cup {None}]
  /\ writing \in [Dirs -> SUBSET Installs]
  /\ \A d \in Dirs : meta[d] = None => writing[d] = {}
  /\ manifest \in [Dirs -> Installs \cup {None, "torn"}]
  /\ temp \subseteq Installs
  /\ rpc  \in [Runs -> RunPC]
  /\ dpc  \in [Removers -> RemoverPC]
  /\ broken \subseteq Dirs
  /\ \A pair \in together : pair \subseteq Actors
  /\ faults \in Nat /\ crashes \in Nat

\* No install or rmi of the directory is under way.
Quiet(d) == \A x \in Busy : DirOf(x) = d => x \in Runs

\* What a stored image says of itself is what is in its rootfs: meta, and for an
\* OCI image manifest.json, belong to the install that filled it.
Stored(d, i) ==
  /\ file[d] = [p \in Paths |-> i]
  /\ d \in rootfs
  /\ kind[i] = "oci" => manifest[d] = i

\* A failed or killed install, and one that overlapped another or an rmi, may leave
\* anything; the next that is undisturbed, or an rmi, puts it in order, and so it stays.
MetaTellsContent ==
  \A d \in Dirs : \A i \in Installs :
    meta[d] = MetaOf(i) /\ Quiet(d) /\ d \notin broken => Stored(d, i)

\* The rootfs is there, and all of it comes from one install.
Whole(d) == d \in rootfs /\ \E i \in Installs : file[d] = [p \in Paths |-> i]

\* The rootfs that a container starts on is whole, though run looks for it only
\* once and in advance, unless an install or rmi of that directory overlapped this
\* run, or the last install there was disturbed.
StartsOnWholeImage ==
  [][\A r \in Runs : rpc[r] = "start" /\ rpc'[r] = "save" =>
       \/ Whole(DirOf(r)) \/ DirOf(r) \in broken
       \/ \E x \in Installs \cup Removers : {x, r} \in together]_vars

\* The inductive invariant, in five parts besides the types. History: two
\* invocations at work on one directory are noted as a pair, whichever came first.
BusyTogether ==
  \A x, y \in Busy : x # y /\ DirOf(x) = DirOf(y) => {x, y} \in together

\* A container that a started rmi did not see was saved while it ran.
UnseenUserOverlaps ==
  \A k \in Removers, r \in Runs :
    /\ dpc[k] \in {"stat", "unlink"} /\ rpc[r] \in {"saved", "write"}
    /\ Name[k] = Name[r]
    => {k, r} \in together

\* How far an install is in filling a directory it has for itself.
Progress(i) ==
  LET d == DirOf(i)
  IN  /\ ipc[i] \in {"extract2", "openMeta", "writeMeta", "manifest"} => d \in rootfs /\ file[d][1] = i
      /\ ipc[i] \in {"openMeta", "writeMeta", "manifest"} => file[d][2] = i
      /\ ipc[i] = "writeMeta" => meta[d] = Truncated /\ i \in writing[d]
      /\ ipc[i] = "manifest" => meta[d] = MetaOf(i)

\* A directory without an image, or with all of one.
Settled(d) ==
  \/ d \notin rootfs /\ meta[d] = None
  \/ \E i \in Installs : meta[d] = MetaOf(i) /\ Stored(d, i)

\* An install that has the directory for itself finds what it left there, whatever
\* there was before.
LoneInstallIsKnown ==
  \A i \in Installs : Installing(i) /\ ~HasCompany(i) => Progress(i)

\* Between installs, if they were not disturbed or in order again since, it is settled.
UnbrokenIsSettled ==
  \A d \in Dirs \ broken :
    (\A i \in Installs : DirOf(i) = d => ~Installing(i)) => Settled(d)

\* The image a run found is still whole as its container starts.
FoundIsWhole ==
  \A r \in Runs : rpc[r] = "start" =>
    \/ Whole(DirOf(r)) \/ DirOf(r) \in broken
    \/ \E x \in Installs \cup Removers : {x, r} \in together

IInv ==
  /\ TypeOK /\ BusyTogether /\ UnseenUserOverlaps
  /\ LoneInstallIsKnown /\ UnbrokenIsSettled /\ FoundIsWhole

\* README: a stored image is a meta and the rootfs it goes with, and pulling again
\* replaces both; here with installs one after the other, which may fail.
StoredIsWholeInSequence ==
  \A d \in Dirs : \A i \in Installs :
    together = {} /\ meta[d] = MetaOf(i) /\ Quiet(d) => file[d] = [p \in Paths |-> i]

\* README: only an image that came from an OCI layout has a manifest.json.
ManifestIsOCIOnly ==
  \A d \in Dirs : \A i \in Installs :
    meta[d] = MetaOf(i) /\ Quiet(d) /\ kind[i] # "oci" => manifest[d] = None

\* README: run is for stored images, which have a meta.
RunsStoredImage ==
  [][\A r \in Runs : rpc[r] = "new" /\ rpc'[r] = "start" => meta[DirOf(r)] # None]_vars

\* The containers whose config.json names, or is being rewritten and named, an
\* image in a directory.
UsersOf(d) == {r \in Runs : rpc[r] \in {"saved", "write"} /\ DirOf(r) = d}

\* README: any container blocks the removal of its image until rm deletes it.
RmiSparesUsed ==
  [][\A k \in Removers : dpc[k] = "unlink" /\ dpc'[k] = "rmdir" => UsersOf(DirOf(k)) = {}]_vars

\* rmi takes the image of a container only if its run, or a save of its
\* config.json, overlapped the rmi, or they used two names for one directory.
RmiTakesUsedOnlyByRace ==
  [][\A k \in Removers : dpc[k] = "unlink" /\ dpc'[k] = "rmdir"
       => \A r \in UsersOf(DirOf(k)) : {k, r} \in together \/ Name[r] # Name[k]]_vars

\* README: any container blocks the removal of its image; at least one whose run
\* was over before the rmi began.
RmiSparesEarlierUsers ==
  [][\A k \in Removers : dpc[k] = "unlink" /\ dpc'[k] = "rmdir"
       => \A r \in UsersOf(DirOf(k)) : {k, r} \in together]_vars
=============================================================================
