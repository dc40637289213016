---------------------------- MODULE MCOCIInstall ----------------------------
(* Layouts of the images of MCLayers, and defective ones of one image.      *)
EXTENDS MCLayers, OCIInstall

SmallHashes == {"m", "m2", "l1", "l2", "c", "l0", "c0"}

Sha(h) == [algo |-> "sha256", hash |-> h]

IndexOf(digests)         == [schemaVersion |-> 2, manifests |-> digests]
ManifestOf(cfg, digests) == [schemaVersion |-> 2, config |-> cfg, layers |-> digests]

LayoutOf(im) ==
  [index     |-> IndexOf(<<Sha("m")>>),
   manifests |-> [h \in SmallHashes |-> IF h = "m" THEN ManifestOf(Sha("c"), <<Sha("l1"), Sha("l2")>>) ELSE None],
   layers    |-> [h \in SmallHashes |-> CASE h = "l1" -> im[1] [] h = "l2" -> im[2] [] OTHER -> None],
   configs   |-> {"c"}]

Plain == LayoutOf(<< <<Entry("file", AB), Entry("dir", C)>>, <<Entry("whiteout", AB), Entry("file", A)>> >>)

WithManifest(doc) == [Plain EXCEPT !.manifests["m"] = doc]
Sha512            == [algo |-> "sha512", hash |-> "l1"]

Unusual ==
  { [Plain EXCEPT !.index = None],
    [Plain EXCEPT !.index.schemaVersion = 1],
    [Plain EXCEPT !.index.manifests = <<>>],
    [Plain EXCEPT !.index.manifests = <<Sha("m"), NoDigest>>],
    [Plain EXCEPT !.index.manifests = <<Sha("m"), Sha512>>],
    [Plain EXCEPT !.index.manifests = <<Sha("m2"), Sha("m")>>],
    [Plain EXCEPT !.index.manifests = <<[algo |-> "md5", hash |-> "m"]>>],
    [Plain EXCEPT !.index.manifests = <<Sha("")>>],
    [Plain EXCEPT !.layers["l1"] = None],
    [Plain EXCEPT !.layers["l2"] = <<Entry("dir", A), Entry("broken", A)>>],
    [Plain EXCEPT !.configs = {}],
    WithManifest([ManifestOf(Sha("c"), <<Sha("l1")>>) EXCEPT !.schemaVersion = 1]),
    WithManifest(ManifestOf(Sha("c"), <<>>)),
    WithManifest(ManifestOf(NoDigest, <<Sha("l1")>>)),
    WithManifest(ManifestOf(Sha512, <<Sha("l1")>>)),
    WithManifest(ManifestOf(Sha("c"), <<Sha("l1"), NoDigest>>)),
    WithManifest(ManifestOf(Sha("c"), <<Sha("l1"), Sha512>>)),
    WithManifest(ManifestOf(Sha("c"), <<Sha("l2"), Sha("l1"), Sha("l2")>>)) }

SmallLayouts == {LayoutOf(im) : im \in SmallImages} \cup Unusual

\* Nothing, an image of a tarball, and one of another OCI layout.
Filled == [[p \in SmallTree |-> Absent] EXCEPT ![C] = File(0)]
Nothing  == [rootfs |-> FALSE, fs |-> [p \in SmallTree |-> Absent], meta |-> None, manifest |-> None]
Tarball  == [rootfs |-> TRUE, fs |-> Filled, meta |-> <<>>, manifest |-> None]
OtherOCI == [Tarball EXCEPT !.meta = <<Sha("l0")>>, !.manifest = ManifestOf(Sha("c0"), <<Sha("l0")>>)]

SmallStores == {Nothing, Tarball, OtherOCI}
=============================================================================
