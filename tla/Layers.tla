-------------------------------- MODULE Layers --------------------------------
(***************************************************************************)
(* ExtractLayers and ApplyLayer (internal/image/layer.go): the layers of an *)
(* OCI image are applied one after the other, and the entries of a layer in *)
(* the order of its tarball, onto the rootfs. An entry that cannot be       *)
(* applied ends the extraction. Symbolic links and modes are left out; an   *)
(* entry of a type that ApplyLayer does not know, like a hard link or a     *)
(* device, is skipped by it and is not in the reference.                   *)
(***************************************************************************)
EXTENDS Naturals, Sequences, SequencesExt

CONSTANTS
  Paths,    \* the paths of the rootfs, as sequences of names; prefixes included
  Images    \* the images: sequences of layers, which are sequences of entries

ASSUME PathAssumption ==
  /\ Paths \subseteq Seq(STRING)
  /\ \A p \in Paths : \A n \in 1 .. Len(p) - 1 : SubSeq(p, 1, n) \in Paths

VARIABLES
  image, \* the layers being extracted
  layer, \* the layer and the entry that come next
  entry,
  fs,    \* what is at each path
  status \* extracting, done or failed

vars == <<image, layer, entry, fs, status>>

Absent    == [kind |-> "absent"]
Directory == [kind |-> "dir"]
File(n)   == [kind |-> "file", layer |-> n]

\* Entries of a layer: a directory, a regular file, the whiteout of a path, the
\* opaque marker in a directory or one of a type that has no case; broken is where
\* the layer cannot be read, or names a path that validateExtractPath refuses.
Entry(type, path) == [type |-> type, path |-> path]

Above(p) == {q \in Paths : IsPrefix(q, p)}
Below(p) == {q \in Paths : IsPrefix(p, q)}

\* os.MkdirAll: every path down to p is a directory, unless a file is in the way.
MkdirAllOf(tree, above) == [q \in Paths |-> IF q \in above THEN Directory ELSE tree[q]]
CanMkdirAll(tree, above) == \A q \in above : tree[q].kind # "file"

RemoveAllOf(tree, gone) == [q \in Paths |-> IF q \in gone THEN Absent ELSE tree[q]]

-----------------------------------------------------------------------------
Extracting(type) ==
  /\ status = "extracting"
  /\ layer <= Len(image) /\ entry <= Len(image[layer])
  /\ image[layer][entry].type = type

Path == image[layer][entry].path

Advance == entry' = entry + 1 /\ UNCHANGED <<image, layer, status>>

\* The opaque marker is skipped.
Opaque == Extracting("opaque") /\ Advance /\ UNCHANGED fs

\* The switch has no default: hard links, devices and pipes are skipped.
Other == Extracting("other") /\ Advance /\ UNCHANGED fs

\* Mutant: os.Remove takes a directory only when it is empty.
WhiteoutRemovesOne ==
  /\ Extracting("whiteout")
  /\ fs' = IF \A q \in Below(Path) \ {Path} : fs[q] = Absent
           THEN [fs EXCEPT ![Path] = Absent] ELSE fs
  /\ Advance

\* os.RemoveAll of the path, whichever layer it is from.
Whiteout ==
  /\ Extracting("whiteout")
  /\ fs' = RemoveAllOf(fs, Below(Path))
  /\ Advance

AddDir ==
  /\ Extracting("dir") /\ CanMkdirAll(fs, Above(Path))
  /\ fs' = MkdirAllOf(fs, Above(Path))
  /\ Advance

AddFile ==
  /\ Extracting("file") /\ CanMkdirAll(fs, Above(Path) \ {Path}) /\ fs[Path] # Directory
  /\ fs' = [MkdirAllOf(fs, Above(Path) \ {Path}) EXCEPT ![Path] = File(layer)]
  /\ Advance

\* A path of the wrong kind is in the way, or the blob cannot be read from here
\* on: ExtractLayers returns the error.
Fail ==
  /\ \/ Extracting("broken")
     \/ Extracting("dir") /\ ~CanMkdirAll(fs, Above(Path))
     \/ /\ Extracting("file")
        /\ ~CanMkdirAll(fs, Above(Path) \ {Path}) \/ fs[Path] = Directory
  /\ status' = "failed"
  /\ UNCHANGED <<image, layer, entry, fs>>

NextLayer ==
  /\ status = "extracting"
  /\ layer <= Len(image) /\ entry > Len(image[layer])
  /\ layer' = layer + 1 /\ entry' = 1
  /\ UNCHANGED <<image, fs, status>>

Finish ==
  /\ status = "extracting" /\ layer > Len(image)
  /\ status' = "done"
  /\ UNCHANGED <<image, layer, entry, fs>>

Init ==
  /\ image \in Images
  /\ layer = 1 /\ entry = 1
  /\ fs = [p \in Paths |-> Absent]
  /\ status = "extracting"

Next == Opaque \/ Other \/ Whiteout \/ AddDir \/ AddFile \/ Fail \/ NextLayer \/ Finish

Spec == Init /\ [][Next]_vars

-----------------------------------------------------------------------------
(* The reference: an overlay of layers, which does not look at the order of  *)
(* a layer's entries.                                                       *)

PathsOf(l, type) == {l[i].path : i \in {i \in DOMAIN l : l[i].type = type}}

Added(l) == PathsOf(l, "dir") \cup PathsOf(l, "file")

\* What a layer hides of the layers below it.
Hidden(l) == UNION {Below(p) : p \in PathsOf(l, "whiteout")}
               \cup UNION {Below(p) \ {p} : p \in PathsOf(l, "opaque")}

\* A layer makes directories of all that is above what it adds.
Reached(l) == UNION {Above(p) : p \in Added(l)}

\* What a layer tells of a path, and what there is then.
Tells(l, p)    == p \in Reached(l) \cup Hidden(l)
Shown(l, n, p) ==
  IF p \in PathsOf(l, "file") THEN File(n) ELSE IF p \in Reached(l) THEN Directory ELSE Absent

\* An overlay has at each path what the uppermost of the layers that tell anything
\* of it shows there.
IsOverlay(tree, layers) == \A p \in Paths :
  \/ tree[p] = Absent /\ \A n \in DOMAIN layers : ~Tells(layers[n], p)
  \/ \E n \in DOMAIN layers :
       /\ Tells(layers[n], p) /\ tree[p] = Shown(layers[n], n, p)
       /\ \A m \in DOMAIN layers : m > n => ~Tells(layers[m], p)

-----------------------------------------------------------------------------
(* Properties.                                                              *)

\* The images the code and the reference must agree on: no opaque marker, and no
\* layer that whites out, or puts below a path it whites out, what it adds.
WhiteoutsAreOfLowerLayers ==
  \A n \in DOMAIN image :
    PathsOf(image[n], "opaque") = {} /\ Added(image[n]) \cap Hidden(image[n]) = {}

\* An extraction that succeeds leaves the overlay of the layers' directories, files
\* and whiteouts, whatever the order of the entries in each of them.
ExtractsOverlay ==
  status = "done" /\ WhiteoutsAreOfLowerLayers => IsOverlay(fs, image)

\* layer.go: whiteouts and opaque markers are honored so that later layers can
\* remove files introduced by earlier ones.
OpaqueIsHonored ==
  status = "done" /\ (\A n \in DOMAIN image : Added(image[n]) \cap Hidden(image[n]) = {})
    => IsOverlay(fs, image)

\* README: layer application mirrors Docker's overlay semantics. A hard link of the
\* last layer would be in the rootfs then.
OthersAreExtracted ==
  status = "done" /\ image # <<>> => \A p \in PathsOf(Last(image), "other") : fs[p] # Absent
=============================================================================
