----------------------------- MODULE OCIInstall -----------------------------
(***************************************************************************)
(* Store.InstallFromOCI and Store.Inspect (internal/image/oci.go) with the *)
(* parsers of manifest.go: the documents of an OCI image layout are read   *)
(* and checked one after the other, and in between the stored image of the *)
(* same name is replaced by the layers. Extraction is that of Layers; what *)
(* else happens to the store meanwhile is in ImageStore.                   *)
(***************************************************************************)
EXTENDS Layers

CONSTANTS
  Layouts, \* the layout directories an install is given
  Stores,  \* the images that may be there under its name
  Hashes,  \* the hashes that digests name blobs by
  None

\* Documents as they are decoded. A digest is an algorithm and a hash; blobs are
\* found by hash, and one that is not there or no such document reads as None.
Digests   == [algo : STRING, hash : Hashes \cup {""}]
Indexes   == [schemaVersion : Nat, manifests : Seq(Digests)]
Manifests == [schemaVersion : Nat, config : Digests, layers : Seq(Digests)]
Entries   == [type : {"dir", "file", "whiteout", "opaque", "other", "broken"}, path : Paths]
               \cup {Entry("broken", <<>>)}
Kinds     == {Absent, Directory} \cup [kind : {"file"}, layer : Nat]

OCILayouts == [index : Indexes \cup {None}, manifests : [Hashes -> Manifests \cup {None}],
               layers : [Hashes -> Seq(Entries) \cup {None}], configs : SUBSET Hashes]
StoredImages == [rootfs : BOOLEAN, fs : [Paths -> Kinds], meta : Seq(Digests) \cup {None},
                 manifest : Manifests \cup {None}]

ASSUME InstallAssumption ==
  /\ "" \notin Hashes /\ None \notin Manifests \cup Seq(Digests) \cup Seq(Entries)
  /\ Layouts \subseteq OCILayouts /\ Stores \subseteq StoredImages

VARIABLES
  layout,   \* the layout directory
  before,   \* history: the stored image before the install
  rootfs,   \* rootfs/ exists; what is in it is fs
  meta,     \* the layers line of meta, None without a meta
  manifest  \* manifest.json, None without one

storeVars == <<rootfs, fs, meta, manifest>>
ociVars   == <<layout, before, storeVars, image, layer, entry, status>>

Stages == {"index", "manifest", "clean", "resolve", "extracting", "done", "meta", "copy",
           "installed", "failed"}

-----------------------------------------------------------------------------
(* Documents and their digests.                                             *)

NoDigest == [algo |-> "", hash |-> ""]

\* Mutant: the algorithm is not looked at.
SupportedAnyAlgorithm(digest) == digest.hash # ""

\* blobPath knows blobs/sha256/ only.
Supported(digest) == digest.algo = "sha256" /\ digest.hash # ""

ParseIndex(doc) ==
  /\ doc # None /\ doc.schemaVersion = 2
  /\ doc.manifests # <<>> /\ \A n \in DOMAIN doc.manifests : doc.manifests[n] # NoDigest

ParseManifest(doc) ==
  /\ doc # None /\ doc.schemaVersion = 2
  /\ doc.layers # <<>> /\ doc.config # NoDigest
  /\ \A n \in DOMAIN doc.layers : doc.layers[n] # NoDigest

LayerDigests(doc) == doc.layers

\* The manifest of a layout is the first of its index.
Manifest == layout.manifests[Head(layout.index.manifests).hash]

\* What is read of a layer: a blob that is missing breaks at once.
Blob(digest) ==
  IF layout.layers[digest.hash] = None THEN <<Entry("broken", <<>>)>> ELSE layout.layers[digest.hash]

-----------------------------------------------------------------------------
(* InstallFromOCI.                                                          *)

\* The next document is accepted, or the install returns an error.
Pass(from, ok, to) == status = from /\ status' = IF ok THEN to ELSE "failed"

\* Mutant: the old rootfs is removed before the documents are read.
ReadIndexAfterClean ==
  /\ Pass("index", ParseIndex(layout.index) /\ Supported(Head(layout.index.manifests)), "manifest")
  /\ rootfs' = FALSE /\ fs' = [p \in Paths |-> Absent]
  /\ UNCHANGED <<layout, before, meta, manifest, image, layer, entry>>

ReadIndex ==
  /\ Pass("index", ParseIndex(layout.index) /\ Supported(Head(layout.index.manifests)), "manifest")
  /\ UNCHANGED <<layout, before, storeVars, image, layer, entry>>

ReadManifest ==
  /\ Pass("manifest", ParseManifest(Manifest), "clean")
  /\ UNCHANGED <<layout, before, storeVars, image, layer, entry>>

\* os.RemoveAll(rootfs)
Clean ==
  /\ Pass("clean", TRUE, "resolve")
  /\ rootfs' = FALSE /\ fs' = [p \in Paths |-> Absent]
  /\ UNCHANGED <<layout, before, meta, manifest, image, layer, entry>>

\* The path of every layer, then ExtractLayers begins, with MkdirAll(rootfs).
ResolveLayers ==
  LET digests == Manifest.layers
      ok      == \A n \in DOMAIN digests : Supported(digests[n])
  IN  /\ Pass("resolve", ok, "extracting")
      /\ rootfs' = ok
      /\ image'  = IF ok THEN [n \in DOMAIN digests |-> Blob(digests[n])] ELSE image
      /\ UNCHANGED <<layout, before, fs, meta, manifest, layer, entry>>

Extract == Next /\ UNCHANGED <<layout, before, rootfs, meta, manifest>>

ReadConfig ==
  /\ Pass("done", Supported(Manifest.config) /\ Manifest.config.hash \in layout.configs, "meta")
  /\ UNCHANGED <<layout, before, storeVars, image, layer, entry>>

WriteMeta ==
  /\ Pass("meta", TRUE, "copy")
  /\ meta' = LayerDigests(Manifest)
  /\ UNCHANGED <<layout, before, rootfs, fs, manifest, image, layer, entry>>

\* Mutant: a manifest.json that is there is kept.
WriteManifestOnce ==
  /\ Pass("copy", TRUE, "installed")
  /\ manifest' = IF manifest = None THEN Manifest ELSE manifest
  /\ UNCHANGED <<layout, before, rootfs, fs, meta, image, layer, entry>>

WriteManifest ==
  /\ Pass("copy", TRUE, "installed")
  /\ manifest' = Manifest
  /\ UNCHANGED <<layout, before, rootfs, fs, meta, image, layer, entry>>

InstallInit ==
  /\ layout \in Layouts
  /\ before \in Stores
  /\ rootfs = before.rootfs /\ fs = before.fs /\ meta = before.meta /\ manifest = before.manifest
  /\ image = <<>> /\ layer = 1 /\ entry = 1
  /\ status = "index"

InstallNext ==
  \/ ReadIndex \/ ReadManifest \/ Clean \/ ResolveLayers \/ Extract
  \/ ReadConfig \/ WriteMeta \/ WriteManifest

InstallSpec == InstallInit /\ [][InstallNext]_ociVars

\* Inspect: the layers it tells, of manifest.json if that can be parsed.
Stored     == [rootfs |-> rootfs, fs |-> fs, meta |-> meta, manifest |-> manifest]
CanInspect == rootfs /\ meta # None
Inspect    == IF ParseManifest(manifest) THEN LayerDigests(manifest) ELSE meta

-----------------------------------------------------------------------------
(* Properties.                                                              *)

\* The documents of a layout that are looked at before anything is removed.
ReadableDocuments ==
  /\ ParseIndex(layout.index)
  /\ Head(layout.index.manifests).algo = "sha256" /\ Head(layout.index.manifests).hash # ""
  /\ ParseManifest(Manifest)

\* A layout with all it needs: every digest it goes by is a sha256 and has a blob.
WellFormed ==
  /\ ReadableDocuments
  /\ \A d \in {Manifest.layers[n] : n \in DOMAIN Manifest.layers} :
       /\ d.algo = "sha256" /\ d.hash # "" /\ layout.layers[d.hash] # None
       /\ PathsOf(layout.layers[d.hash], "broken") = {}
  /\ Manifest.config.algo = "sha256" /\ Manifest.config.hash \in layout.configs

\* Two entries want different things at a path.
Clash ==
  \E n, m \in DOMAIN image : \E e \in Range(image[n]), f \in Range(image[m]) :
    e.type = "file" /\ f.type \in {"dir", "file"} /\ IsPrefix(e.path, f.path)
      /\ (e.path # f.path \/ f.type = "dir")

\* A layout is installed if and only if it has all it needs, unless its layers
\* put a file where they put a directory: no stage accepts what a later one needs
\* and no stage asks for more.
InstallsWellFormed ==
  /\ status = "installed" => WellFormed
  /\ status = "failed" => ~WellFormed \/ Clash

\* An install that the index or the manifest of its layout ends leaves the stored
\* image as it was.
RejectedKeepsImage ==
  status = "failed" /\ ~ReadableDocuments => Stored = before

\* After an install, whatever was stored before, inspect-image tells the layers
\* that the rootfs was made of, in their order, as meta does.
InstalledIsTold ==
  status = "installed" =>
    /\ CanInspect /\ Inspect = meta
    /\ Len(Inspect) = Len(image)
    /\ \A n \in DOMAIN image : image[n] = layout.layers[Inspect[n].hash]

-----------------------------------------------------------------------------
(* The inductive invariant behind them.                                     *)

TypeOK ==
  /\ layout \in OCILayouts /\ before \in StoredImages /\ Stored \in StoredImages
  /\ image \in Seq(Seq(Entries)) /\ layer \in Nat \ {0} /\ entry \in Nat \ {0}
  /\ status \in Stages

\* A stage has been passed only with what it asks for, and before the first that
\* removes something nothing has changed.
StagesAsk ==
  /\ status \in {"index", "manifest", "clean"} => Stored = before
  /\ status \notin {"index", "failed"} =>
       ParseIndex(layout.index) /\ Supported(Head(layout.index.manifests))
  /\ status \notin {"index", "manifest", "failed"} => ParseManifest(Manifest)
  /\ status \in {"meta", "copy", "installed"} =>
       Supported(Manifest.config) /\ Manifest.config.hash \in layout.configs
  /\ status \in {"copy", "installed"} => meta = LayerDigests(Manifest)
  /\ status = "installed" => manifest = Manifest

\* The layers being extracted are those of the manifest, and nothing that cannot
\* be read has been passed.
LayersAsk ==
  /\ status \in {"index", "manifest", "clean", "resolve"} => layer = 1 /\ entry = 1
  /\ status \in {"extracting", "done", "meta", "copy", "installed"} =>
       /\ rootfs /\ Len(image) = Len(Manifest.layers)
       /\ \A n \in DOMAIN image : /\ Supported(Manifest.layers[n])
                                  /\ image[n] = Blob(Manifest.layers[n])
       /\ \A n \in DOMAIN image : \A i \in DOMAIN image[n] :
            n < layer \/ (n = layer /\ i < entry) => image[n][i].type # "broken"
  /\ status \in {"done", "meta", "copy", "installed"} => layer > Len(image)

\* What is in the rootfs was put there by an entry of a layer of this image.
IsFrom(p, e) ==
  \/ /\ fs[p] = Directory /\ e.type \in {"dir", "file"}
     /\ IsPrefix(p, e.path) /\ (p # e.path \/ e.type = "dir")
  \/ fs[p] # Directory /\ e.type = "file" /\ e.path = p

TreeIsExplained ==
  /\ status = "resolve" => \A p \in Paths : fs[p] = Absent
  /\ status = "extracting" => \A p \in Paths : fs[p] # Absent =>
       \E n \in DOMAIN image : \E e \in Range(image[n]) : IsFrom(p, e)

\* What has been extracted of each layer; the rootfs is the overlay of that.
Extracted ==
  [n \in DOMAIN image |-> IF n < layer THEN image[n]
                          ELSE IF n = layer THEN SubSeq(image[n], 1, entry - 1) ELSE <<>>]

TreeIsOverlay ==
  /\ status = "extracting" /\ layer <= Len(image) => entry <= Len(image[layer]) + 1
  /\ status \in {"extracting", "done"} /\ WhiteoutsAreOfLowerLayers => IsOverlay(fs, Extracted)

FailureIsDeserved == status = "failed" => ~WellFormed \/ Clash

IInv ==
  /\ TypeOK /\ StagesAsk /\ LayersAsk /\ TreeIsExplained /\ TreeIsOverlay
  /\ RejectedKeepsImage /\ FailureIsDeserved

-----------------------------------------------------------------------------
(* Claims of the documents, which the code refutes.                         *)

\* README: images lists what is stored, and rmi removes a stored image; what has a
\* meta has a rootfs, by which rmi knows an image.
ListedIsRemovable == status = "failed" /\ meta # None => rootfs

\* README: a stored image is a rootfs with its metadata; when a load fails what
\* inspect-image tells is still what is in the rootfs.
FailedKeepsImage == status = "failed" => Stored = before
=============================================================================
