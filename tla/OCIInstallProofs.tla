--------------------------- MODULE OCIInstallProofs ---------------------------
(***************************************************************************)
(* Theorems about OCIInstall, for any layouts, paths and stored images.     *)
(***************************************************************************)
EXTENDS OCIInstall, TLAPS

-----------------------------------------------------------------------------
(* Documents.                                                               *)

LEMMA ManifestIsRead ==
  ASSUME TypeOK, ParseIndex(layout.index), Supported(Head(layout.index.manifests))
  PROVE  /\ Manifest \in Manifests \cup {None}
         /\ ParseManifest(Manifest) => Manifest \in Manifests
<1>1. layout.index \in Indexes /\ layout.manifests \in [Hashes -> Manifests \cup {None}]
  BY DEF TypeOK, OCILayouts, ParseIndex
<1>2. Head(layout.index.manifests) \in Digests
  BY <1>1 DEF Indexes, ParseIndex
<1>3. Head(layout.index.manifests).hash \in Hashes
  BY <1>2 DEF Digests, Supported
<1> QED
  BY <1>1, <1>3 DEF Manifest, ParseManifest

LEMMA BlobTypes ==
  ASSUME TypeOK, NEW d \in Digests, Supported(d)
  PROVE  Blob(d) \in Seq(Entries)
<1>1. d.hash \in Hashes
  BY DEF Digests, Supported
<1>2. layout.layers[d.hash] \in Seq(Entries) \cup {None}
  BY <1>1 DEF TypeOK, OCILayouts
<1>3. Entry("broken", <<>>) \in Entries
  BY DEF Entries
<1> QED
  BY <1>2, <1>3 DEF Blob

\* A blob is there and can be read if and only if nothing read of it is broken.
LEMMA BlobReads ==
  ASSUME TypeOK, NEW d \in Digests, Supported(d)
  PROVE  (\A i \in DOMAIN Blob(d) : Blob(d)[i].type # "broken")
           <=> layout.layers[d.hash] # None /\ PathsOf(layout.layers[d.hash], "broken") = {}
<1>1. CASE layout.layers[d.hash] = None
  <2>1. Blob(d) = <<Entry("broken", <<>>)>>
    BY <1>1 DEF Blob
  <2>2. 1 \in DOMAIN Blob(d) /\ Blob(d)[1].type = "broken"
    BY <2>1 DEF Entry
  <2> QED
    BY <1>1, <2>2
<1>2. CASE layout.layers[d.hash] # None
  BY <1>2 DEF Blob, PathsOf
<1> QED
  BY <1>1, <1>2

-----------------------------------------------------------------------------
(* The steps.                                                               *)

LEMMA Remains == ASSUME [InstallNext]_ociVars PROVE UNCHANGED <<layout, before>> /\ Manifest' = Manifest
BY DEF InstallNext, ociVars, ReadIndex, ReadManifest, Clean, ResolveLayers, Extract, ReadConfig, WriteMeta,
  WriteManifest, Manifest

\* A step of the extraction stays among the layers.
LEMMA ExtractStays ==
  ASSUME Extract
  PROVE  /\ status = "extracting" /\ status' \in {"extracting", "done", "failed"}
         /\ UNCHANGED <<layout, before, rootfs, meta, manifest, image>>
         /\ status' # "extracting" => UNCHANGED <<fs, layer, entry>>
BY DEF Extract, Next, Opaque, Other, Whiteout, AddDir, AddFile, Fail, NextLayer, Finish, Extracting, Advance

LEMMA ExtractTypes ==
  ASSUME TypeOK, Extract
  PROVE  fs' \in [Paths -> Kinds] /\ layer' \in Nat \ {0} /\ entry' \in Nat \ {0}
<1>1. fs \in [Paths -> Kinds] /\ layer \in Nat \ {0} /\ entry \in Nat \ {0}
  BY DEF TypeOK, Stored, StoredImages
<1>2. layer' \in Nat \ {0} /\ entry' \in Nat \ {0}
  BY <1>1 DEF Extract, Next, Opaque, Other, Whiteout, AddDir, AddFile, Fail, NextLayer, Finish, Advance
<1>3. Absent \in Kinds /\ Directory \in Kinds /\ File(layer) \in Kinds
  BY <1>1 DEF Kinds, File
<1>4. \A gone : RemoveAllOf(fs, gone) \in [Paths -> Kinds]
  BY <1>1, <1>3 DEF RemoveAllOf
<1>5. \A above : MkdirAllOf(fs, above) \in [Paths -> Kinds]
  BY <1>1, <1>3 DEF MkdirAllOf
<1>6. \A above, p : [MkdirAllOf(fs, above) EXCEPT ![p] = File(layer)] \in [Paths -> Kinds]
  BY <1>3, <1>5
<1>7. fs' \in [Paths -> Kinds]
  BY <1>1, <1>4, <1>5, <1>6 DEF Extract, Next, Opaque, Other, Whiteout, AddDir, AddFile, Fail, NextLayer, Finish
<1> QED
  BY <1>2, <1>7

LEMMA InitTypes == ASSUME InstallInit PROVE TypeOK
<1>1. layout \in OCILayouts /\ before \in StoredImages
  BY InstallAssumption DEF InstallAssumption, InstallInit
<1>2. Stored \in StoredImages
  BY <1>1 DEF InstallInit, Stored, StoredImages
<1>3. image \in Seq(Seq(Entries)) /\ layer \in Nat \ {0} /\ entry \in Nat \ {0} /\ status \in Stages
  BY DEF InstallInit, Stages
<1> QED
  BY <1>1, <1>2, <1>3 DEF TypeOK

LEMMA TypeStep == ASSUME TypeOK, StagesAsk, [InstallNext]_ociVars PROVE TypeOK'
<1>1. layout' \in OCILayouts /\ before' \in StoredImages
  BY Remains DEF TypeOK
<1>2. status' \in Stages
  BY ExtractStays DEF TypeOK, Stages, InstallNext, ociVars, Pass, ReadIndex, ReadManifest, Clean, ResolveLayers,
    ReadConfig, WriteMeta, WriteManifest
<1>3. /\ rootfs \in BOOLEAN /\ fs \in [Paths -> Kinds] /\ meta \in Seq(Digests) \cup {None}
      /\ manifest \in Manifests \cup {None} /\ image \in Seq(Seq(Entries))
      /\ layer \in Nat \ {0} /\ entry \in Nat \ {0}
  BY DEF TypeOK, Stored, StoredImages
<1>4. ASSUME ReadIndex \/ ReadManifest \/ ReadConfig \/ UNCHANGED ociVars
      PROVE  UNCHANGED <<rootfs, fs, meta, manifest, image, layer, entry>>
  BY <1>4 DEF ReadIndex, ReadManifest, ReadConfig, ociVars, storeVars
<1>5. ASSUME Clean
      PROVE  rootfs' \in BOOLEAN /\ fs' \in [Paths -> Kinds] /\ UNCHANGED <<meta, manifest, image, layer, entry>>
  BY <1>5 DEF Clean, Kinds
<1>6. ASSUME ResolveLayers
      PROVE  /\ rootfs' \in BOOLEAN /\ image' \in Seq(Seq(Entries))
             /\ UNCHANGED <<fs, meta, manifest, layer, entry>>
  <2>1. Manifest \in Manifests
    BY <1>6, ManifestIsRead DEF StagesAsk, ResolveLayers, Pass
  <2>2. Manifest.layers \in Seq(Digests)
    BY <2>1 DEF Manifests
  <2> DEFINE blobs == [n \in DOMAIN Manifest.layers |-> Blob(Manifest.layers[n])]
  <2>3. (\A n \in DOMAIN Manifest.layers : Supported(Manifest.layers[n])) => blobs \in Seq(Seq(Entries))
    <3> SUFFICES ASSUME \A n \in DOMAIN Manifest.layers : Supported(Manifest.layers[n])
                 PROVE  blobs \in Seq(Seq(Entries))
      OBVIOUS
    <3>1. \A n \in 1 .. Len(Manifest.layers) : Blob(Manifest.layers[n]) \in Seq(Entries)
      BY <2>2, BlobTypes
    <3>2. Len(Manifest.layers) \in Nat /\ DOMAIN Manifest.layers = 1 .. Len(Manifest.layers)
      BY <2>2
    <3> QED
      BY <3>1, <3>2
  <2>4. \/ image' = blobs /\ \A n \in DOMAIN Manifest.layers : Supported(Manifest.layers[n])
        \/ image' = image
    BY <1>6 DEF ResolveLayers
  <2> QED
    BY <1>3, <1>6, <2>3, <2>4 DEF ResolveLayers
<1>7. ASSUME WriteMeta
      PROVE  meta' \in Seq(Digests) /\ UNCHANGED <<rootfs, fs, manifest, image, layer, entry>>
  <2>1. Manifest \in Manifests
    BY <1>7, ManifestIsRead DEF StagesAsk, WriteMeta, Pass
  <2> QED
    BY <1>7, <2>1 DEF WriteMeta, LayerDigests, Manifests
<1>8. ASSUME WriteManifest
      PROVE  manifest' \in Manifests /\ UNCHANGED <<rootfs, fs, meta, image, layer, entry>>
  <2>1. Manifest \in Manifests
    BY <1>8, ManifestIsRead DEF StagesAsk, WriteManifest, Pass
  <2> QED
    BY <1>8, <2>1 DEF WriteManifest
<1>9. ASSUME Extract
      PROVE  /\ UNCHANGED <<rootfs, meta, manifest, image>>
             /\ fs' \in [Paths -> Kinds] /\ layer' \in Nat \ {0} /\ entry' \in Nat \ {0}
  BY <1>9, ExtractStays, ExtractTypes
<1>10. /\ rootfs' \in BOOLEAN /\ fs' \in [Paths -> Kinds] /\ meta' \in Seq(Digests) \cup {None}
       /\ manifest' \in Manifests \cup {None} /\ image' \in Seq(Seq(Entries))
       /\ layer' \in Nat \ {0} /\ entry' \in Nat \ {0}
  BY <1>3, <1>4, <1>5, <1>6, <1>7, <1>8, <1>9 DEF InstallNext
<1> QED
  BY <1>1, <1>2, <1>10 DEF TypeOK, Stored, StoredImages

LEMMA StagesStep == ASSUME TypeOK, StagesAsk, [InstallNext]_ociVars PROVE StagesAsk'
<1> DEFINE Ok(stage) ==
      /\ stage \notin {"index", "failed"} => ParseIndex(layout.index) /\ Supported(Head(layout.index.manifests))
      /\ stage \notin {"index", "manifest", "failed"} => ParseManifest(Manifest)
      /\ stage \in {"meta", "copy", "installed"} =>
           Supported(Manifest.config) /\ Manifest.config.hash \in layout.configs
<1>1. layout' = layout /\ before' = before /\ Manifest' = Manifest
  BY Remains
<1>2. Ok(status)
  BY DEF StagesAsk
<1>3. ASSUME UNCHANGED ociVars PROVE StagesAsk'
  <2>1. UNCHANGED <<status, rootfs, fs, meta, manifest, before>>
    BY <1>3 DEF ociVars, storeVars
  <2> QED
    BY <1>1, <2>1 DEF StagesAsk, Stored
<1>4. ASSUME Extract PROVE StagesAsk'
  BY <1>1, <1>2, <1>4, ExtractStays DEF StagesAsk
<1>5. ASSUME ReadIndex \/ ReadManifest PROVE StagesAsk'
  <2>1. Ok(status')
    BY <1>2, <1>5 DEF ReadIndex, ReadManifest, Pass
  <2>2. Stored' = before' /\ status' \in {"manifest", "clean", "failed"}
    BY <1>5 DEF ReadIndex, ReadManifest, Pass, StagesAsk, Stored, storeVars
  <2> QED
    BY <1>1, <2>1, <2>2 DEF StagesAsk
<1>6. ASSUME Clean \/ ResolveLayers \/ ReadConfig PROVE StagesAsk'
  <2>1. Ok(status') /\ status' \in {"resolve", "extracting", "meta", "failed"}
    BY <1>2, <1>6 DEF Clean, ResolveLayers, ReadConfig, Pass
  <2> QED
    BY <1>1, <2>1 DEF StagesAsk
<1>7. ASSUME WriteMeta \/ WriteManifest PROVE StagesAsk'
  <2>1. Ok(status') /\ status' \in {"copy", "installed"} /\ meta' = LayerDigests(Manifest)
    BY <1>2, <1>7 DEF WriteMeta, WriteManifest, Pass, StagesAsk
  <2>2. status' = "installed" => manifest' = Manifest
    BY <1>7 DEF WriteMeta, WriteManifest, Pass
  <2> QED
    BY <1>1, <2>1, <2>2 DEF StagesAsk
<1> QED
  BY <1>3, <1>4, <1>5, <1>6, <1>7 DEF InstallNext

\* What has been passed of the layers, once they are resolved.
Passed(n, i) == n < layer \/ (n = layer /\ i < entry)

LEMMA PassedGrows ==
  ASSUME TypeOK, Extract, NEW n \in DOMAIN image, NEW i \in DOMAIN image[n], Passed(n, i)'
  PROVE  Passed(n, i) \/ image[n][i].type # "broken"
<1>0. /\ image \in Seq(Seq(Entries)) /\ layer \in Nat /\ entry \in Nat /\ n \in 1 .. Len(image)
      /\ image[n] \in Seq(Entries) /\ i \in 1 .. Len(image[n])
  BY DEF TypeOK
<1>1. CASE layer' = layer /\ entry' = entry
  BY <1>1 DEF Passed
<1>2. CASE /\ layer' = layer /\ entry' = entry + 1
           /\ \E type \in {"opaque", "other", "whiteout", "dir", "file"} : Extracting(type)
  BY <1>0, <1>2 DEF Passed, Extracting
<1>3. CASE /\ layer' = layer + 1 /\ entry' = 1 /\ entry > Len(image[layer]) /\ layer <= Len(image)
  BY <1>0, <1>3 DEF Passed
<1> QED
  BY <1>1, <1>2, <1>3
  DEF Extract, Next, Opaque, Other, Whiteout, AddDir, AddFile, Fail, NextLayer, Finish, Advance

LEMMA LayersStep == ASSUME TypeOK, StagesAsk, LayersAsk, [InstallNext]_ociVars PROVE LayersAsk'
<1> DEFINE Resolved == /\ rootfs /\ Len(image) = Len(Manifest.layers)
                       /\ \A n \in DOMAIN image : /\ Supported(Manifest.layers[n])
                                                  /\ image[n] = Blob(Manifest.layers[n])
                       /\ \A n \in DOMAIN image : \A i \in DOMAIN image[n] :
                            Passed(n, i) => image[n][i].type # "broken"
           Late == {"extracting", "done", "meta", "copy", "installed"}
<1>1. layout' = layout /\ Manifest' = Manifest
  BY Remains
<1>2. /\ status \in {"index", "manifest", "clean", "resolve"} => layer = 1 /\ entry = 1
      /\ status \in Late => Resolved
      /\ status \in Late \ {"extracting"} => layer > Len(image)
  BY DEF LayersAsk, Passed
<1>3. SUFFICES /\ status' \in {"index", "manifest", "clean", "resolve"} => layer' = 1 /\ entry' = 1
               /\ status' \in Late => Resolved'
               /\ status' \in Late \ {"extracting"} => layer' > Len(image')
  BY DEF LayersAsk, Passed
<1>4. ASSUME UNCHANGED <<rootfs, image, layer, entry>>,
             status' = status \/ (status' = "failed") \/ (status \in Late \ {"extracting"} /\ status' \in Late \ {"extracting"})
               \/ (status \in {"index", "manifest", "clean"} /\ status' \in {"manifest", "clean", "resolve"})
      PROVE  /\ status' \in {"index", "manifest", "clean", "resolve"} => layer' = 1 /\ entry' = 1
             /\ status' \in Late => Resolved'
             /\ status' \in Late \ {"extracting"} => layer' > Len(image')
  <2>1. Resolved => Resolved'
    BY <1>1, <1>4 DEF Blob, Passed
  <2> QED
    BY <1>2, <1>4, <2>1
<1>5. CASE UNCHANGED ociVars
  BY <1>4, <1>5 DEF ociVars, storeVars
<1>6. CASE ReadIndex \/ ReadManifest \/ ReadConfig \/ WriteMeta \/ WriteManifest
  BY <1>4, <1>6 DEF ReadIndex, ReadManifest, ReadConfig, WriteMeta, WriteManifest, Pass, storeVars
<1>7. CASE Clean
  BY <1>2, <1>7 DEF Clean, Pass
<1>8. CASE ResolveLayers
  <2>1. layer' = 1 /\ entry' = 1 /\ status' \in {"extracting", "failed"}
    BY <1>2, <1>8 DEF ResolveLayers, Pass
  <2>2. ASSUME status' = "extracting" PROVE Resolved'
    <3>1. /\ \A n \in DOMAIN Manifest.layers : Supported(Manifest.layers[n])
          /\ rootfs' /\ image' = [n \in DOMAIN Manifest.layers |-> Blob(Manifest.layers[n])]
      BY <1>8, <2>2 DEF ResolveLayers, Pass
    <3>2. Manifest.layers \in Seq(Digests)
      BY <1>8, ManifestIsRead DEF StagesAsk, ResolveLayers, Pass, Manifests
    <3>3. Len(image') = Len(Manifest.layers) /\ DOMAIN image' = 1 .. Len(Manifest.layers)
      BY <3>1, <3>2
    <3>4. \A n \in DOMAIN image' : Supported(Manifest.layers[n]) /\ image'[n] = Blob(Manifest.layers[n])
      BY <3>1
    <3>5. \A n \in DOMAIN image' : \A i \in DOMAIN image'[n] : ~Passed(n, i)'
      <4> SUFFICES ASSUME NEW n \in DOMAIN image', NEW i \in DOMAIN image'[n] PROVE ~Passed(n, i)'
        OBVIOUS
      <4>1. n \in Nat \ {0} /\ i \in Nat \ {0}
        BY <3>1, <3>2, <3>3, BlobTypes
      <4> QED
        BY <2>1, <4>1 DEF Passed
    <3>6. \A d : Blob(d)' = Blob(d)
      BY <1>1 DEF Blob
    <3> QED
      BY <1>1, <3>1, <3>3, <3>4, <3>5, <3>6
  <2> QED
    BY <2>1, <2>2
<1>9. CASE Extract
  <2>1. Resolved /\ UNCHANGED <<rootfs, image>> /\ status' \in {"extracting", "done", "failed"}
    BY <1>2, <1>9, ExtractStays
  <2>2. Resolved'
    BY <1>1, <1>9, <2>1, PassedGrows DEF Blob
  <2>3. status' = "done" => layer' > Len(image')
    BY <1>9 DEF Extract, Next, Opaque, Other, Whiteout, AddDir, AddFile, Fail, NextLayer, Finish, Extracting, Advance
  <2> QED
    BY <2>1, <2>2, <2>3
<1> QED
  BY <1>5, <1>6, <1>7, <1>8, <1>9 DEF InstallNext

LEMMA KindsDiffer ==
  /\ Absent # Directory /\ Absent.kind = "absent" /\ Directory.kind = "dir"
  /\ \A n : File(n).kind = "file" /\ File(n) # Absent /\ File(n) # Directory
<1>1. Absent.kind = "absent" /\ Directory.kind = "dir" /\ \A n : File(n).kind = "file"
  BY DEF Absent, Directory, File
<1> QED
  BY <1>1

LEMMA IsFromNow ==
  ASSUME NEW p, NEW e,
         \/ /\ fs'[p] = Directory /\ e.type \in {"dir", "file"}
            /\ IsPrefix(p, e.path) /\ (p # e.path \/ e.type = "dir")
         \/ fs'[p] # Directory /\ e.type = "file" /\ e.path = p
  PROVE  IsFrom(p, e)'
BY DEF IsFrom

LEMMA TreeStep == ASSUME TypeOK, TreeIsExplained, [InstallNext]_ociVars PROVE TreeIsExplained'
<1> DEFINE Explained(p) == fs[p] # Absent => \E n \in DOMAIN image : \E e \in Range(image[n]) : IsFrom(p, e)
<1>0. fs \in [Paths -> Kinds]
  BY DEF TypeOK, Stored, StoredImages
<1>1. CASE UNCHANGED ociVars
  BY <1>1 DEF ociVars, storeVars, TreeIsExplained, IsFrom
<1>2. CASE ReadIndex \/ ReadManifest \/ ReadConfig \/ WriteMeta \/ WriteManifest
  BY <1>2 DEF ReadIndex, ReadManifest, ReadConfig, WriteMeta, WriteManifest, Pass, TreeIsExplained
<1>3. CASE Clean \/ ResolveLayers
  BY <1>3 DEF Clean, ResolveLayers, Pass, TreeIsExplained
<1>4. CASE Extract
  <2>1. status = "extracting" /\ status' \in {"extracting", "done", "failed"} /\ image' = image
    BY <1>4, ExtractStays
  <2>2. SUFFICES ASSUME NEW p \in Paths PROVE Explained(p)'
    BY <2>1 DEF TreeIsExplained
  <2>3. Explained(p)
    BY <2>1 DEF TreeIsExplained
  <2>4. CASE fs'[p] = fs[p]
    BY <2>1, <2>3, <2>4 DEF IsFrom
  <2>5. CASE fs'[p] = Absent
    BY <2>5
  <2> PICK e : e = image[layer][entry]
    OBVIOUS
  <2>6. ASSUME NEW type, Extracting(type) PROVE layer \in DOMAIN image /\ e \in Range(image[layer]) /\ e.type = type
    <3>1. image \in Seq(Seq(Entries)) /\ layer \in Nat \ {0} /\ entry \in Nat \ {0}
      BY DEF TypeOK
    <3>2. layer \in DOMAIN image /\ image[layer] \in Seq(Entries) /\ entry \in 1 .. Len(image[layer])
      BY <2>6, <3>1 DEF Extracting
    <3> QED
      BY <2>6, <3>2 DEF Extracting, Range
  <2>7. CASE AddDir /\ fs'[p] # fs[p]
    <3>1. p \in Above(Path) /\ fs'[p] = Directory
      BY <1>0, <2>7 DEF AddDir, MkdirAllOf
    <3>2. layer \in DOMAIN image /\ e \in Range(image[layer]) /\ e.type = "dir" /\ IsPrefix(p, e.path)
      BY <2>6, <2>7, <3>1 DEF AddDir, Above, Path
    <3>3. IsFrom(p, e)'
      BY <2>1, <3>1, <3>2, IsFromNow
    <3> QED
      BY <2>1, <3>2, <3>3
  <2>8. CASE AddFile /\ fs'[p] # fs[p]
    <3>1. \/ p = Path /\ fs'[p] = File(layer)
          \/ p \in Above(Path) \ {Path} /\ fs'[p] = Directory
      BY <1>0, <2>8 DEF AddFile, MkdirAllOf
    <3>2. layer \in DOMAIN image /\ e \in Range(image[layer]) /\ e.type = "file" /\ e.path = Path
      BY <2>6, <2>8 DEF AddFile, Path
    <3>3. IsFrom(p, e)'
      BY <3>1, <3>2, KindsDiffer, IsFromNow DEF Above
    <3> QED
      BY <2>1, <3>2, <3>3
  <2> QED
    <3>1. fs' = fs \/ fs' = RemoveAllOf(fs, Below(Path)) \/ AddDir \/ AddFile
      BY <1>4 DEF Extract, Next, Opaque, Other, Whiteout, Fail, NextLayer, Finish
    <3>2. fs' = RemoveAllOf(fs, Below(Path)) => fs'[p] \in {fs[p], Absent}
      BY <1>0 DEF RemoveAllOf
    <3> QED
      BY <2>4, <2>5, <2>7, <2>8, <3>1, <3>2
<1> QED
  BY <1>1, <1>2, <1>3, <1>4 DEF InstallNext

-----------------------------------------------------------------------------
(* The overlay.                                                             *)

LEMMA PrefixIsOrder ==
  ASSUME NEW a \in Seq(STRING), NEW b \in Seq(STRING), NEW c \in Seq(STRING), IsPrefix(a, b), IsPrefix(b, c)
  PROVE  IsPrefix(a, c) /\ IsPrefix(a, a)
<1>1. /\ Len(a) <= Len(b) /\ \A i \in 1 .. Len(a) : a[i] = b[i]
      /\ Len(b) <= Len(c) /\ \A i \in 1 .. Len(b) : b[i] = c[i]
  <2>1. /\ Len(a) <= Len(b) /\ SubSeq(a, 1, Len(a)) = SubSeq(b, 1, Len(a))
        /\ Len(b) <= Len(c) /\ SubSeq(b, 1, Len(b)) = SubSeq(c, 1, Len(b))
    BY DEF IsPrefix
  <2>2. \A i \in 1 .. Len(a) : SubSeq(a, 1, Len(a))[i] = a[i] /\ SubSeq(b, 1, Len(a))[i] = b[i]
    BY <2>1
  <2>3. \A i \in 1 .. Len(b) : SubSeq(b, 1, Len(b))[i] = b[i] /\ SubSeq(c, 1, Len(b))[i] = c[i]
    BY <2>1
  <2> QED
    BY <2>1, <2>2, <2>3
<1>2. Len(a) <= Len(c) /\ \A i \in 1 .. Len(a) : a[i] = c[i]
  BY <1>1
<1>3. SubSeq(a, 1, Len(a)) = SubSeq(c, 1, Len(a))
  BY <1>2
<1> QED
  BY <1>2, <1>3 DEF IsPrefix

LEMMA PrefixOfItself == ASSUME NEW a \in Seq(STRING) PROVE IsPrefix(a, a)
BY DEF IsPrefix

\* The paths in a beginning of a layer, and in one that is longer by an entry.
LEMMA PathsOfNext ==
  ASSUME NEW l \in Seq(Entries), NEW k \in 1 .. Len(l), NEW type
  PROVE  /\ PathsOf(SubSeq(l, 1, k), type) =
              PathsOf(SubSeq(l, 1, k - 1), type) \cup (IF l[k].type = type THEN {l[k].path} ELSE {})
         /\ PathsOf(SubSeq(l, 1, k - 1), type) \subseteq PathsOf(l, type)
         /\ l[k].type = type => l[k].path \in PathsOf(l, type)
<1>1. /\ DOMAIN SubSeq(l, 1, k) = 1 .. k /\ \A i \in 1 .. k : SubSeq(l, 1, k)[i] = l[i]
      /\ DOMAIN SubSeq(l, 1, k - 1) = 1 .. k - 1 /\ \A i \in 1 .. k - 1 : SubSeq(l, 1, k - 1)[i] = l[i]
      /\ DOMAIN l = 1 .. Len(l)
  OBVIOUS
<1>2. 1 .. k = (1 .. k - 1) \cup {k} /\ 1 .. k \subseteq DOMAIN l
  BY <1>1
<1> DEFINE l1 == SubSeq(l, 1, k - 1)
           l2 == SubSeq(l, 1, k)
<1>3. /\ \A x : x \in PathsOf(l, type) <=> \E i \in DOMAIN l : l[i].type = type /\ l[i].path = x
      /\ \A x : x \in PathsOf(l1, type) <=> \E i \in DOMAIN l1 : l1[i].type = type /\ l1[i].path = x
      /\ \A x : x \in PathsOf(l2, type) <=> \E i \in DOMAIN l2 : l2[i].type = type /\ l2[i].path = x
  BY DEF PathsOf
<1>4. /\ \A x : x \in PathsOf(l1, type) <=> \E i \in 1 .. k - 1 : l[i].type = type /\ l[i].path = x
      /\ \A x : x \in PathsOf(l2, type) <=> \E i \in 1 .. k : l[i].type = type /\ l[i].path = x
  <2>1. /\ DOMAIN l1 = 1 .. k - 1 /\ \A i \in 1 .. k - 1 : l1[i] = l[i]
        /\ DOMAIN l2 = 1 .. k /\ \A i \in 1 .. k : l2[i] = l[i]
    BY <1>1
  <2> HIDE DEF l1, l2
  <2> QED
    BY <1>3, <2>1
<1> HIDE DEF l1, l2
<1>5. \A x : x \in PathsOf(l2, type) <=> x \in PathsOf(l1, type) \cup (IF l[k].type = type THEN {l[k].path} ELSE {})
  BY <1>2, <1>4
<1>6. PathsOf(l1, type) \subseteq PathsOf(l, type)
  BY <1>2, <1>3, <1>4
<1>7. l[k].type = type => l[k].path \in PathsOf(l, type)
  BY <1>2, <1>3
<1> QED
  BY <1>5, <1>6, <1>7 DEF l1, l2

OverlaidAt(p, tree, layers) ==
  \/ tree[p] = Absent /\ \A n \in DOMAIN layers : ~Tells(layers[n], p)
  \/ \E n \in DOMAIN layers :
       /\ Tells(layers[n], p) /\ tree[p] = Shown(layers[n], n, p)
       /\ \A m \in DOMAIN layers : m > n => ~Tells(layers[m], p)

LEMMA NothingIsTold == \A p : ~Tells(<<>>, p)
BY DEF Tells, Reached, Hidden, Added, PathsOf

\* The uppermost layer so far gets longer: it alone matters, or nothing changes.
LEMMA TopChanges ==
  ASSUME NEW p, NEW tree, NEW tree2, NEW ls, NEW ls2, NEW n \in DOMAIN ls, DOMAIN ls \subseteq Nat,
         DOMAIN ls2 = DOMAIN ls, \A m \in DOMAIN ls \ {n} : ls2[m] = ls[m],
         \A m \in DOMAIN ls : m > n => ls[m] = <<>>,
         OverlaidAt(p, tree, ls),
         \/ Tells(ls2[n], p) /\ tree2[p] = Shown(ls2[n], n, p)
         \/ /\ tree2[p] = tree[p] /\ (Tells(ls2[n], p) <=> Tells(ls[n], p))
            /\ Shown(ls2[n], n, p) = Shown(ls[n], n, p)
  PROVE  OverlaidAt(p, tree2, ls2)
<1>1. \A m \in DOMAIN ls : m > n => ~Tells(ls2[m], p)
  BY NothingIsTold
<1>2. CASE Tells(ls2[n], p) /\ tree2[p] = Shown(ls2[n], n, p)
  BY <1>1, <1>2 DEF OverlaidAt
<1>3. CASE /\ tree2[p] = tree[p] /\ (Tells(ls2[n], p) <=> Tells(ls[n], p))
           /\ Shown(ls2[n], n, p) = Shown(ls[n], n, p)
  <2>1. \A m \in DOMAIN ls : /\ Tells(ls2[m], p) <=> Tells(ls[m], p)
                             /\ Shown(ls2[m], m, p) = Shown(ls[m], m, p)
    BY <1>3
  <2> QED
    BY <1>3, <2>1 DEF OverlaidAt
<1> QED
  BY <1>2, <1>3

\* What the uppermost layer so far has made a file is a file.
LEMMA TopFileIsThere ==
  ASSUME NEW p \in Paths, NEW tree, NEW ls, NEW n \in DOMAIN ls, DOMAIN ls \subseteq Nat,
         \A m \in DOMAIN ls : m > n => ls[m] = <<>>,
         OverlaidAt(p, tree, ls), p \in PathsOf(ls[n], "file")
  PROVE  tree[p].kind = "file"
<1>1. Tells(ls[n], p)
  <2>1. p \in Above(p)
    BY PathAssumption, PrefixOfItself DEF PathAssumption, Above
  <2> QED
    BY <2>1 DEF Tells, Reached, Added
<1>2. PICK m \in DOMAIN ls : /\ Tells(ls[m], p) /\ tree[p] = Shown(ls[m], m, p)
                             /\ \A i \in DOMAIN ls : i > m => ~Tells(ls[i], p)
  BY <1>1 DEF OverlaidAt
<1>3. m = n
  <2>1. ~(m > n) /\ ~(n > m)
    BY <1>1, <1>2, NothingIsTold
  <2> QED
    BY <2>1
<1> QED
  BY <1>2, <1>3, KindsDiffer DEF Shown

\* Whatever a layer adds is a path of the rootfs.
LEMMA AddedArePaths ==
  ASSUME NEW l \in Seq(Entries), NEW type \in {"dir", "file"} PROVE PathsOf(l, type) \subseteq Paths
<1>1. \A i \in DOMAIN l : l[i] \in Entries
  OBVIOUS
<1> QED
  BY <1>1 DEF PathsOf, Entries, Entry

LEMMA OverlayExtracts ==
  ASSUME TypeOK, Extract, WhiteoutsAreOfLowerLayers, NEW p \in Paths, OverlaidAt(p, fs, Extracted),
         layer <= Len(image) => entry <= Len(image[layer]) + 1
  PROVE  OverlaidAt(p, fs', Extracted')
<1> DEFINE e == image[layer][entry]
           l == SubSeq(image[layer], 1, entry - 1)
           k == SubSeq(image[layer], 1, entry)
<1>0. /\ image \in Seq(Seq(Entries)) /\ layer \in Nat \ {0} /\ entry \in Nat \ {0} /\ image' = image
      /\ fs \in [Paths -> Kinds] /\ DOMAIN image = 1 .. Len(image)
  BY ExtractStays DEF TypeOK, Stored, StoredImages
<1>1. CASE UNCHANGED <<layer, entry, fs>>
  BY <1>0, <1>1 DEF Extracted, OverlaidAt
<1>2. CASE NextLayer
  <2>1. layer' = layer + 1 /\ entry' = 1 /\ fs' = fs /\ layer \in DOMAIN image /\ entry - 1 = Len(image[layer])
    BY <1>0, <1>2 DEF NextLayer
  <2>2. SubSeq(image[layer], 1, entry - 1) = image[layer]
    BY <1>0, <2>1
  <2>3. \A n \in DOMAIN image : Extracted'[n] = Extracted[n]
    <3>1. ASSUME NEW n \in DOMAIN image PROVE SubSeq(image[n], 1, 0) = <<>>
      BY <1>0
    <3> SUFFICES ASSUME NEW n \in DOMAIN image PROVE Extracted'[n] = Extracted[n]
      OBVIOUS
    <3>2. Extracted'[n] = IF n < layer + 1 THEN image[n]
                          ELSE IF n = layer + 1 THEN SubSeq(image[n], 1, 0) ELSE <<>>
      BY <1>0, <2>1 DEF Extracted
    <3>3. Extracted[n] = IF n < layer THEN image[n] ELSE IF n = layer THEN image[n] ELSE <<>>
      BY <1>0, <2>1, <2>2 DEF Extracted
    <3>4. n < layer + 1 <=> n < layer \/ n = layer
      BY <1>0
    <3>5. n \in Nat /\ layer \in Nat /\ SubSeq(image[n], 1, 0) = <<>>
      BY <1>0, <3>1
    <3>6. CASE n < layer \/ n = layer
      BY <3>2, <3>3, <3>4, <3>6
    <3>7. CASE ~(n < layer \/ n = layer)
      <4>1. Extracted[n] = <<>> /\ Extracted'[n] = <<>>
        BY <3>2, <3>3, <3>4, <3>5, <3>7
      <4> QED
        BY <4>1
    <3> QED
      BY <3>6, <3>7
  <2>4. DOMAIN Extracted' = DOMAIN image /\ DOMAIN Extracted = DOMAIN image
    BY <1>0 DEF Extracted
  <2> QED
    BY <2>1, <2>3, <2>4 DEF OverlaidAt
<1>3. ASSUME NEW type, Extracting(type), layer' = layer, entry' = entry + 1,
             type \in {"whiteout", "dir", "file", "other"},
             \/ Tells(k, p) /\ fs'[p] = Shown(k, layer, p)
             \/ /\ fs'[p] = fs[p] /\ (Tells(k, p) <=> Tells(l, p))
                /\ Shown(k, layer, p) = Shown(l, layer, p)
      PROVE  OverlaidAt(p, fs', Extracted')
  <2>1. layer \in DOMAIN Extracted /\ DOMAIN Extracted = DOMAIN image /\ DOMAIN Extracted' = DOMAIN Extracted
    BY <1>0, <1>3 DEF Extracted, Extracting
  <2>2. Extracted[layer] = l /\ Extracted'[layer] = k
    BY <1>0, <1>3, <2>1 DEF Extracted
  <2>3. /\ \A m \in DOMAIN Extracted \ {layer} : Extracted'[m] = Extracted[m]
        /\ \A m \in DOMAIN Extracted : m > layer => Extracted[m] = <<>>
    BY <1>0, <1>3, <2>1 DEF Extracted
  <2>4. DOMAIN Extracted \subseteq Nat
    BY <1>0, <2>1
  <2> HIDE DEF l, k
  <2> QED
    BY <1>3, <2>1, <2>2, <2>3, <2>4, TopChanges
<1>4. ASSUME NEW type, Extracting(type), type \in {"whiteout", "dir", "file", "other"}
      PROVE  /\ \A t : PathsOf(k, t) = PathsOf(l, t) \cup (IF type = t THEN {Path} ELSE {})
             /\ \A t : PathsOf(l, t) \subseteq PathsOf(image[layer], t)
             /\ Path \in PathsOf(image[layer], type) /\ Path \in Paths
             /\ fs[p].kind # "file" => p \notin PathsOf(l, "file")
             /\ PathsOf(k, "opaque") = PathsOf(l, "opaque")
  <2>1. layer \in DOMAIN image /\ image[layer] \in Seq(Entries) /\ entry \in 1 .. Len(image[layer]) /\ e.type = type
    BY <1>0, <1>4 DEF Extracting
  <2>2. e \in Entries /\ Path = e.path
    BY <2>1 DEF Path
  <2>3. Path \in Paths
    BY <1>4, <2>1, <2>2 DEF Entries, Entry
  <2>4. \A t : /\ PathsOf(k, t) = PathsOf(l, t) \cup (IF type = t THEN {Path} ELSE {})
               /\ PathsOf(l, t) \subseteq PathsOf(image[layer], t)
               /\ type = t => Path \in PathsOf(image[layer], t)
    BY <2>1, <2>2, PathsOfNext
  <2>5. fs[p].kind # "file" => p \notin PathsOf(l, "file")
    <3>1. layer \in DOMAIN Extracted /\ DOMAIN Extracted \subseteq Nat /\ Extracted[layer] = l
          /\ \A m \in DOMAIN Extracted : m > layer => Extracted[m] = <<>>
      BY <1>0, <2>1 DEF Extracted
    <3> HIDE DEF l
    <3> QED
      BY <3>1, TopFileIsThere
  <2> QED
    BY <1>4, <2>3, <2>4, <2>5
<1>5. /\ layer \in DOMAIN image => PathsOf(image[layer], "opaque") = {}
      /\ layer \in DOMAIN image => Added(image[layer]) \cap Hidden(image[layer]) = {}
  BY DEF WhiteoutsAreOfLowerLayers
<1> HIDE DEF e, l, k
<1>6. CASE AddDir
  <2>1. Extracting("dir") /\ layer' = layer /\ entry' = entry + 1 /\ CanMkdirAll(fs, Above(Path))
    BY <1>6 DEF AddDir, Advance
  <2>2. Hidden(k) = Hidden(l) /\ PathsOf(k, "file") = PathsOf(l, "file") /\ Reached(k) = Reached(l) \cup Above(Path)
    <3>1. Added(k) = Added(l) \cup {Path}
      BY <1>4, <2>1 DEF Added
    <3>2. PathsOf(k, "file") = PathsOf(l, "file") /\ PathsOf(k, "whiteout") = PathsOf(l, "whiteout")
          /\ PathsOf(k, "opaque") = PathsOf(l, "opaque")
      <4>1. \A t : PathsOf(k, t) = PathsOf(l, t) \cup (IF "dir" = t THEN {Path} ELSE {})
        BY <1>4, <2>1
      <4> QED
        BY <4>1
    <3> QED
      BY <3>1, <3>2 DEF Hidden, Reached
  <2>3. CASE p \in Above(Path)
    <3>1. fs'[p] = Directory /\ fs[p].kind # "file"
      BY <1>0, <1>6, <2>1, <2>3 DEF AddDir, MkdirAllOf, CanMkdirAll
    <3>2. p \notin PathsOf(k, "file") /\ p \in Reached(k)
      BY <1>4, <2>1, <2>2, <2>3, <3>1
    <3> QED
      BY <1>3, <2>1, <3>1, <3>2 DEF Tells, Shown
  <2>4. CASE p \notin Above(Path)
    <3>1. fs'[p] = fs[p] /\ (p \in Reached(k) <=> p \in Reached(l))
      BY <1>0, <1>6, <2>2, <2>4 DEF AddDir, MkdirAllOf
    <3> QED
      BY <1>3, <2>1, <2>2, <3>1 DEF Tells, Shown
  <2> QED
    BY <2>3, <2>4
<1>7. CASE AddFile
  <2>1. /\ Extracting("file") /\ layer' = layer /\ entry' = entry + 1 /\ CanMkdirAll(fs, Above(Path) \ {Path})
        /\ fs' = [MkdirAllOf(fs, Above(Path) \ {Path}) EXCEPT ![Path] = File(layer)]
    BY <1>7 DEF AddFile, Advance
  <2>2. /\ Hidden(k) = Hidden(l) /\ PathsOf(k, "file") = PathsOf(l, "file") \cup {Path}
        /\ Reached(k) = Reached(l) \cup Above(Path) /\ Path \in Above(Path)
    <3>1. Added(k) = Added(l) \cup {Path}
      BY <1>4, <2>1 DEF Added
    <3>2. Path \in Above(Path)
      BY <1>4, <2>1, PathAssumption, PrefixOfItself DEF PathAssumption, Above
    <3> QED
      BY <1>4, <2>1, <3>1, <3>2 DEF Hidden, Reached
  <2>3. CASE p = Path
    <3>1. fs'[p] = File(layer)
      BY <1>0, <2>1, <2>3 DEF MkdirAllOf
    <3> QED
      BY <1>3, <2>1, <2>2, <2>3, <3>1 DEF Tells, Shown
  <2>4. CASE p \in Above(Path) \ {Path}
    <3>1. fs'[p] = Directory /\ fs[p].kind # "file"
      BY <1>0, <2>1, <2>4 DEF MkdirAllOf, CanMkdirAll
    <3>2. p \notin PathsOf(k, "file") /\ p \in Reached(k)
      BY <1>4, <2>1, <2>2, <2>4, <3>1
    <3>3. Tells(k, p) /\ fs'[p] = Shown(k, layer, p)
      BY <3>1, <3>2 DEF Tells, Shown
    <3> QED
      BY <1>3, <2>1, <3>3
  <2>5. CASE p \notin Above(Path)
    <3>1. fs'[p] = fs[p] /\ (p \in Reached(k) <=> p \in Reached(l)) /\ p # Path
      BY <1>0, <2>1, <2>2, <2>5 DEF MkdirAllOf
    <3> QED
      BY <1>3, <2>1, <2>2, <3>1 DEF Tells, Shown
  <2> QED
    BY <2>3, <2>4, <2>5
<1>8. CASE Whiteout
  <2>1. Extracting("whiteout") /\ layer' = layer /\ entry' = entry + 1 /\ layer \in DOMAIN image
    BY <1>0, <1>8 DEF Whiteout, Advance, Extracting
  <2>2. /\ Hidden(k) = Hidden(l) \cup Below(Path) /\ PathsOf(k, "file") = PathsOf(l, "file")
        /\ Reached(k) = Reached(l)
    <3>1. Added(k) = Added(l)
      BY <1>4, <2>1 DEF Added
    <3>2. PathsOf(k, "whiteout") = PathsOf(l, "whiteout") \cup {Path} /\ PathsOf(k, "opaque") = PathsOf(l, "opaque")
      BY <1>4, <2>1
    <3>3. Hidden(k) = Hidden(l) \cup Below(Path)
      BY <3>2 DEF Hidden
    <3> QED
      BY <1>4, <2>1, <3>1, <3>3 DEF Reached
  <2>3. CASE p \in Below(Path)
    <3>1. \A q \in Added(l) : q \notin Below(Path)
      <4>1. Added(l) \subseteq Added(image[layer]) /\ Below(Path) \subseteq Hidden(image[layer])
        BY <1>4, <2>1 DEF Added, Hidden
      <4> QED
        BY <1>5, <2>1, <4>1
    <3>2. \A q \in Added(l) : q \in Paths
      BY <1>0, <1>4, <2>1, AddedArePaths DEF Added
    <3>3. p \notin Reached(l)
      <4> SUFFICES ASSUME NEW q \in Added(l), p \in Above(q) PROVE FALSE
        BY DEF Reached
      <4>1. IsPrefix(Path, p) /\ IsPrefix(p, q)
        BY <2>3 DEF Below, Above
      <4>2. IsPrefix(Path, q)
        BY <1>4, <2>1, <3>2, <4>1, PrefixIsOrder, PathAssumption DEF PathAssumption
      <4> QED
        BY <3>1, <3>2, <4>2 DEF Below
    <3>4. p \notin PathsOf(l, "file")
      BY <2>3, <3>1 DEF Added
    <3>5. fs'[p] = Absent
      BY <1>0, <1>8, <2>3 DEF Whiteout, RemoveAllOf
    <3> QED
      BY <1>3, <2>1, <2>2, <2>3, <3>3, <3>4, <3>5 DEF Tells, Shown
  <2>4. CASE p \notin Below(Path)
    <3>1. fs'[p] = fs[p]
      BY <1>0, <1>8, <2>4 DEF Whiteout, RemoveAllOf
    <3> QED
      BY <1>3, <2>1, <2>2, <2>4, <3>1 DEF Tells, Shown
  <2> QED
    BY <2>3, <2>4
<1>9. ASSUME Opaque PROVE FALSE
  <2>1. layer \in DOMAIN image /\ image[layer] \in Seq(Entries) /\ entry \in 1 .. Len(image[layer])
        /\ image[layer][entry].type = "opaque"
    BY <1>0, <1>9 DEF Opaque, Extracting
  <2> QED
    BY <1>5, <2>1, PathsOfNext
<1>10. CASE Other
  <2>1. Extracting("other") /\ layer' = layer /\ entry' = entry + 1 /\ fs'[p] = fs[p]
    BY <1>10 DEF Other, Advance
  <2>2. \A t \in {"dir", "file", "whiteout", "opaque"} : PathsOf(k, t) = PathsOf(l, t)
    <3>1. \A t : PathsOf(k, t) = PathsOf(l, t) \cup (IF "other" = t THEN {Path} ELSE {})
      BY <1>4, <2>1
    <3> QED
      BY <3>1
  <2>3. Hidden(k) = Hidden(l) /\ Reached(k) = Reached(l) /\ PathsOf(k, "file") = PathsOf(l, "file")
    BY <2>2 DEF Hidden, Reached, Added
  <2> QED
    BY <1>3, <2>1, <2>3 DEF Tells, Shown
<1> QED
  BY <1>1, <1>2, <1>6, <1>7, <1>8, <1>9, <1>10 DEF Extract, Next, Fail, Finish

LEMMA OverlayStep ==
  ASSUME TypeOK, StagesAsk, LayersAsk, TreeIsExplained, TreeIsOverlay, [InstallNext]_ociVars PROVE TreeIsOverlay'
<1>0. image \in Seq(Seq(Entries)) /\ layer \in Nat \ {0} /\ entry \in Nat \ {0} /\ fs \in [Paths -> Kinds]
  BY DEF TypeOK, Stored, StoredImages
<1>1. CASE UNCHANGED ociVars
  <2>1. UNCHANGED <<image, layer, entry, status, fs>>
    BY <1>1 DEF ociVars, storeVars
  <2>2. WhiteoutsAreOfLowerLayers' = WhiteoutsAreOfLowerLayers /\ Extracted' = Extracted
    BY <2>1 DEF WhiteoutsAreOfLowerLayers, Extracted
  <2> QED
    BY <2>1, <2>2 DEF TreeIsOverlay
<1>2. CASE ReadIndex \/ ReadManifest \/ Clean \/ ReadConfig \/ WriteMeta \/ WriteManifest
  BY <1>2 DEF ReadIndex, ReadManifest, Clean, ReadConfig, WriteMeta, WriteManifest, Pass, TreeIsOverlay
<1>3. CASE ResolveLayers
  <2>1. layer' = 1 /\ entry' = 1 /\ fs' = fs /\ status' \in {"extracting", "failed"} /\ \A p \in Paths : fs[p] = Absent
    BY <1>3 DEF ResolveLayers, Pass, LayersAsk, TreeIsExplained
  <2>2. image' \in Seq(Seq(Entries))
    BY TypeStep DEF TypeOK
  <2>3. \A n \in DOMAIN Extracted' : Extracted'[n] = <<>>
    BY <2>1, <2>2 DEF Extracted
  <2>4. IsOverlay(fs', Extracted')
    BY <2>1, <2>3, NothingIsTold DEF IsOverlay
  <2>5. layer' <= Len(image') => entry' <= Len(image'[layer']) + 1
    BY <2>1, <2>2
  <2> QED
    BY <2>1, <2>4, <2>5 DEF TreeIsOverlay
<1>4. CASE Extract
  <2>1. status = "extracting" /\ image' = image /\ status' \in {"extracting", "done", "failed"}
    BY <1>4, ExtractStays
  <2>2. layer <= Len(image) => entry <= Len(image[layer]) + 1
    BY <2>1 DEF TreeIsOverlay
  <2>3. status' = "extracting" /\ layer' <= Len(image) => entry' <= Len(image[layer']) + 1
    <3>1. CASE layer' = layer /\ entry' = entry
      BY <2>2, <3>1
    <3>2. CASE layer' = layer /\ entry' = entry + 1 /\ entry <= Len(image[layer]) /\ layer <= Len(image)
      BY <1>0, <3>2
    <3>3. CASE layer' = layer + 1 /\ entry' = 1
      <4>1. layer' <= Len(image) => Len(image[layer']) \in Nat
        BY <1>0, <3>3
      <4> QED
        BY <3>3, <4>1
    <3> QED
      BY <1>4, <3>1, <3>2, <3>3
      DEF Extract, Next, Opaque, Other, Whiteout, AddDir, AddFile, Fail, NextLayer, Finish, Advance, Extracting
  <2>4. WhiteoutsAreOfLowerLayers' = WhiteoutsAreOfLowerLayers
    BY <2>1 DEF WhiteoutsAreOfLowerLayers
  <2>5. ASSUME WhiteoutsAreOfLowerLayers PROVE IsOverlay(fs', Extracted')
    <3>1. \A p \in Paths : OverlaidAt(p, fs, Extracted)
      BY <2>1, <2>5 DEF TreeIsOverlay, IsOverlay, OverlaidAt
    <3>2. \A p \in Paths : OverlaidAt(p, fs', Extracted')
      BY <1>4, <2>2, <2>5, <3>1, OverlayExtracts
    <3> QED
      BY <3>2 DEF IsOverlay, OverlaidAt
  <2> QED
    BY <2>1, <2>3, <2>4, <2>5 DEF TreeIsOverlay
<1> QED
  BY <1>1, <1>2, <1>3, <1>4 DEF InstallNext

LEMMA DoneIsOverlay == ASSUME TypeOK, LayersAsk, TreeIsOverlay PROVE ExtractsOverlay
<1> SUFFICES ASSUME status = "done", WhiteoutsAreOfLowerLayers PROVE IsOverlay(fs, image)
  BY DEF ExtractsOverlay
<1>1. layer > Len(image) /\ image \in Seq(Seq(Entries)) /\ layer \in Nat
  BY DEF LayersAsk, TypeOK
<1>2. DOMAIN Extracted = DOMAIN image /\ \A n \in DOMAIN image : Extracted[n] = image[n]
  BY <1>1 DEF Extracted
<1>3. IsOverlay(fs, Extracted)
  BY DEF TreeIsOverlay
<1> QED
  BY <1>2, <1>3 DEF IsOverlay

-----------------------------------------------------------------------------
(* What installs and what fails.                                            *)

LEMMA SupportedIsSha256 == \A d : Supported(d) <=> d.algo = "sha256" /\ d.hash # ""
BY DEF Supported

LEMMA InstalledIsWellFormed ==
  ASSUME TypeOK, StagesAsk, LayersAsk, status = "installed" PROVE WellFormed /\ InstalledIsTold
<1>1. Manifest \in Manifests /\ Manifest.layers \in Seq(Digests) /\ Manifest.config \in Digests
  BY ManifestIsRead DEF StagesAsk, Manifests
<1>2. ReadableDocuments
  BY SupportedIsSha256 DEF StagesAsk, ReadableDocuments
<1>3. Manifest.config.algo = "sha256" /\ Manifest.config.hash \in layout.configs
  BY SupportedIsSha256 DEF StagesAsk
<1>4. /\ rootfs /\ Len(image) = Len(Manifest.layers) /\ image \in Seq(Seq(Entries)) /\ layer > Len(image)
      /\ \A n \in DOMAIN image : Supported(Manifest.layers[n]) /\ image[n] = Blob(Manifest.layers[n])
      /\ layer \in Nat
      /\ \A n \in DOMAIN image : \A i \in DOMAIN image[n] :
           n < layer \/ (n = layer /\ i < entry) => image[n][i].type # "broken"
  BY DEF LayersAsk, TypeOK
<1>5. ASSUME NEW n \in DOMAIN Manifest.layers
      PROVE  LET d == Manifest.layers[n] IN
             /\ Supported(d) /\ layout.layers[d.hash] # None /\ PathsOf(layout.layers[d.hash], "broken") = {}
             /\ image[n] = layout.layers[d.hash]
  <2> DEFINE d == Manifest.layers[n]
  <2>1. n \in DOMAIN image /\ n < layer /\ d \in Digests
    BY <1>1, <1>4, <1>5
  <2>2. Supported(d) /\ image[n] = Blob(d)
    BY <1>4, <2>1
  <2>3. \A i \in DOMAIN Blob(d) : Blob(d)[i].type # "broken"
    BY <1>4, <2>1, <2>2
  <2>4. layout.layers[d.hash] # None /\ PathsOf(layout.layers[d.hash], "broken") = {}
    BY <2>1, <2>2, <2>3, BlobReads
  <2> QED
    BY <2>2, <2>4 DEF Blob
<1>6. WellFormed
  BY <1>2, <1>3, <1>5, SupportedIsSha256 DEF WellFormed
<1>7. meta = Manifest.layers /\ manifest = Manifest /\ ParseManifest(manifest)
  BY DEF StagesAsk, LayerDigests
<1>8. CanInspect /\ Inspect = meta /\ Inspect = Manifest.layers
  BY <1>1, <1>4, <1>7, InstallAssumption DEF InstallAssumption, CanInspect, Inspect, LayerDigests
<1>9. InstalledIsTold
  BY <1>1, <1>4, <1>5, <1>8 DEF InstalledIsTold
<1> QED
  BY <1>6, <1>9

\* An extraction fails only at what cannot be read or where entries clash.
LEMMA FailHasReason ==
  ASSUME TypeOK, StagesAsk, LayersAsk, TreeIsExplained, Fail PROVE ~WellFormed \/ Clash
<1> DEFINE f == image[layer][entry]
<1>0. status = "extracting" /\ layer <= Len(image) /\ entry <= Len(image[layer])
  BY DEF Fail, Extracting
<1>1. /\ layer \in DOMAIN image /\ entry \in DOMAIN image[layer] /\ f \in Range(image[layer]) /\ Path = f.path
      /\ layer \in 1 .. Len(image)
  <2>1. image \in Seq(Seq(Entries)) /\ layer \in Nat \ {0} /\ entry \in Nat \ {0}
    BY DEF TypeOK
  <2>2. layer \in DOMAIN image /\ image[layer] \in Seq(Entries)
    BY <1>0, <2>1
  <2>3. entry \in DOMAIN image[layer]
    BY <1>0, <2>1, <2>2
  <2> QED
    BY <2>1, <2>2, <2>3 DEF Range, Path
<1>2. CASE f.type = "broken"
  <2> DEFINE d == Manifest.layers[layer]
  <2>1. Manifest.layers \in Seq(Digests) /\ Len(image) = Len(Manifest.layers)
    BY <1>0, ManifestIsRead DEF StagesAsk, LayersAsk, Manifests
  <2>2. layer \in DOMAIN Manifest.layers /\ d \in Digests
    BY <1>1, <2>1
  <2>3. Supported(d) /\ image[layer] = Blob(d)
    BY <1>0, <1>1 DEF LayersAsk
  <2>4. ~(layout.layers[d.hash] # None /\ PathsOf(layout.layers[d.hash], "broken") = {})
    BY <1>1, <1>2, <2>2, <2>3, BlobReads
  <2> QED
    BY <2>2, <2>4 DEF WellFormed
<1>3. \A q \in Paths : fs[q] # Absent => \E n \in DOMAIN image : \E e \in Range(image[n]) : IsFrom(q, e)
  BY <1>0 DEF TreeIsExplained
<1>4. ASSUME NEW q \in Above(Path), fs[q].kind = "file", f.type = "dir" \/ (f.type = "file" /\ q # Path) PROVE Clash
  <2>1. q \in Paths /\ IsPrefix(q, f.path) /\ fs[q] # Absent /\ fs[q] # Directory
    BY <1>1, <1>4, KindsDiffer DEF Above
  <2>2. PICK n \in DOMAIN image : \E e \in Range(image[n]) : e.type = "file" /\ e.path = q
    BY <1>3, <2>1 DEF IsFrom
  <2> QED
    BY <1>1, <1>4, <2>1, <2>2 DEF Clash
<1>5. ASSUME f.type = "file", fs[Path] = Directory, Path \in Paths PROVE Clash
  <2>1. PICK n \in DOMAIN image : \E e \in Range(image[n]) :
          e.type \in {"dir", "file"} /\ IsPrefix(Path, e.path) /\ (Path # e.path \/ e.type = "dir")
    BY <1>3, <1>5, KindsDiffer DEF IsFrom
  <2> QED
    BY <1>1, <1>5, <2>1 DEF Clash
<1> QED
  <2>1. CASE Extracting("broken")
    BY <1>2, <2>1 DEF Extracting
  <2>2. CASE Extracting("dir") /\ ~CanMkdirAll(fs, Above(Path))
    BY <1>4, <2>2 DEF Extracting, CanMkdirAll
  <2>3. CASE Extracting("file") /\ ~CanMkdirAll(fs, Above(Path) \ {Path})
    BY <1>4, <2>3 DEF Extracting, CanMkdirAll
  <2>4. CASE Extracting("file") /\ fs[Path] = Directory
    <3>1. f \in Entries
      <4>1. image \in Seq(Seq(Entries))
        BY DEF TypeOK
      <4> QED
        BY <1>1, <4>1
    <3>2. Path \in Paths
      BY <1>1, <2>4, <3>1 DEF Entries, Entry, Extracting
    <3> QED
      BY <1>5, <2>4, <3>2 DEF Extracting
  <2> QED
    BY <2>1, <2>2, <2>3, <2>4 DEF Fail

LEMMA OutcomeStep ==
  ASSUME TypeOK, StagesAsk, LayersAsk, TreeIsExplained, RejectedKeepsImage, FailureIsDeserved, [InstallNext]_ociVars,
         status' = "failed"
  PROVE  RejectedKeepsImage' /\ FailureIsDeserved'
<1>1. layout' = layout /\ before' = before /\ Manifest' = Manifest
  BY Remains
<1>2. ReadableDocuments' = ReadableDocuments /\ WellFormed' = WellFormed
  BY <1>1 DEF ReadableDocuments, WellFormed
<1>3. image' = image
  BY ExtractStays DEF InstallNext, ReadIndex, ReadManifest, Clean, ResolveLayers, ReadConfig, WriteMeta,
    WriteManifest, Pass, ociVars
<1>4. Clash' = Clash
  BY <1>3 DEF Clash
<1>5. ReadableDocuments <=> ParseIndex(layout.index) /\ Supported(Head(layout.index.manifests)) /\ ParseManifest(Manifest)
  BY SupportedIsSha256 DEF ReadableDocuments
<1>6. CASE UNCHANGED ociVars
  BY <1>1, <1>2, <1>4, <1>6 DEF ociVars, storeVars, RejectedKeepsImage, FailureIsDeserved, Stored
<1>7. CASE ReadIndex \/ ReadManifest
  <2>1. ~ReadableDocuments
    BY <1>5, <1>7 DEF ReadIndex, ReadManifest, Pass
  <2>2. Stored' = before'
    BY <1>7 DEF ReadIndex, ReadManifest, Pass, StagesAsk, Stored, storeVars
  <2> QED
    BY <1>2, <2>1, <2>2 DEF RejectedKeepsImage, FailureIsDeserved, WellFormed
<1>8. CASE ResolveLayers \/ ReadConfig \/ Extract
  <2>1. ReadableDocuments
    BY <1>5, <1>8, ExtractStays DEF ResolveLayers, ReadConfig, Pass, StagesAsk
  <2>2. ~WellFormed \/ Clash
    <3>1. ASSUME ResolveLayers PROVE ~WellFormed
      <4>1. PICK n \in DOMAIN Manifest.layers : ~Supported(Manifest.layers[n])
        BY <3>1 DEF ResolveLayers, Pass
      <4> QED
        BY <4>1, SupportedIsSha256 DEF WellFormed
    <3>2. ASSUME ReadConfig PROVE ~WellFormed
      <4>1. Manifest.config \in Digests /\ layout.configs \subseteq Hashes /\ "" \notin Hashes
        BY <3>2, ManifestIsRead, InstallAssumption
        DEF InstallAssumption, ReadConfig, Pass, StagesAsk, Manifests, TypeOK, OCILayouts
      <4> QED
        BY <3>2, <4>1, SupportedIsSha256 DEF ReadConfig, Pass, WellFormed
    <3>3. ASSUME Extract PROVE Fail
      BY <3>3 DEF Extract, Next, Opaque, Other, Whiteout, AddDir, AddFile, NextLayer, Finish, Extracting, Advance
    <3> QED
      BY <1>8, <3>1, <3>2, <3>3, FailHasReason
  <2> QED
    BY <1>2, <1>4, <2>1, <2>2 DEF RejectedKeepsImage, FailureIsDeserved
<1>9. CASE Clean \/ WriteMeta \/ WriteManifest
  BY <1>9 DEF Clean, WriteMeta, WriteManifest, Pass
<1> QED
  BY <1>6, <1>7, <1>8, <1>9 DEF InstallNext

-----------------------------------------------------------------------------
(* The theorems.                                                            *)

LEMMA IInvInit == ASSUME InstallInit PROVE IInv
<1>1. status = "index" /\ layer = 1 /\ entry = 1 /\ Stored = before
  <2>1. before \in StoredImages
    BY InstallAssumption DEF InstallAssumption, InstallInit
  <2> QED
    BY <2>1 DEF InstallInit, Stored, StoredImages
<1> QED
  BY <1>1, InitTypes
  DEF IInv, StagesAsk, LayersAsk, TreeIsExplained, TreeIsOverlay, RejectedKeepsImage, FailureIsDeserved

LEMMA IInvStep == ASSUME IInv, [InstallNext]_ociVars PROVE IInv'
<1>1. TypeOK' /\ StagesAsk' /\ LayersAsk' /\ TreeIsExplained' /\ TreeIsOverlay'
  BY TypeStep, StagesStep, LayersStep, TreeStep, OverlayStep DEF IInv
<1>2. CASE status' = "failed"
  BY <1>1, <1>2, OutcomeStep DEF IInv
<1>3. CASE status' # "failed"
  BY <1>1, <1>3 DEF IInv, RejectedKeepsImage, FailureIsDeserved
<1> QED
  BY <1>2, <1>3

\* The inductive invariant of an install, from any layout over any stored image.
THEOREM Invariance == InstallSpec => []IInv
<1>1. InstallInit => IInv
  BY IInvInit
<1>2. IInv /\ [InstallNext]_ociVars => IInv'
  BY IInvStep
<1> QED
  BY <1>1, <1>2, PTL DEF InstallSpec

\* A layout is installed if it has all it needs, and only then, unless its own
\* layers put a file where they put a directory.
THEOREM InstallsWellFormedAlways == InstallSpec => []InstallsWellFormed
<1>1. IInv => InstallsWellFormed
  BY InstalledIsWellFormed DEF IInv, FailureIsDeserved, InstallsWellFormed
<1> QED
  BY <1>1, Invariance, PTL

\* A layout whose index or manifest is rejected leaves the stored image as it was.
THEOREM RejectedKeepsImageAlways == InstallSpec => []RejectedKeepsImage
<1>1. IInv => RejectedKeepsImage
  BY DEF IInv
<1> QED
  BY <1>1, Invariance, PTL

\* inspect-image tells the layers that were installed, whatever was stored before.
THEOREM InstalledIsToldAlways == InstallSpec => []InstalledIsTold
<1>1. IInv => InstalledIsTold
  BY InstalledIsWellFormed DEF IInv, InstalledIsTold
<1> QED
  BY <1>1, Invariance, PTL

\* An extraction that succeeds leaves the overlay of the layers, in whatever order
\* the entries of each of them come, if no layer hides what it adds itself and there
\* is no opaque marker.
THEOREM ExtractsOverlayAlways == InstallSpec => []ExtractsOverlay
<1>1. IInv => ExtractsOverlay
  BY DoneIsOverlay DEF IInv
<1> QED
  BY <1>1, Invariance, PTL
===============================================================================
